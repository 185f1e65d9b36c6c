------------------------------ MODULE JsonText ------------------------------
(***************************************************************************)
(* How json-iterator writes the record of a project and reads it back      *)
(* (stream_str.go, iter.go, iter_str.go, iter_object.go, iter_skip.go,     *)
(* reflect_struct_encoder.go, reflect_struct_decoder.go, config.go), as    *)
(* operators on sequences of bytes.  logic/index.go uses it with           *)
(* ConfigCompatibleWithStandardLibrary; the records logic/add.go and       *)
(* logic/edit.go write with encoding/json are the same text.               *)
(*                                                                         *)
(* A record is the sequence of its five strings.  The name of a field is   *)
(* lower-case letters that no one escapes and is one symbol above the      *)
(* bytes; hashes of different names differ.  The reader has the whole text *)
(* in its buffer.                                                          *)
(***************************************************************************)
EXTENDS Integers, Sequences, SequencesExt

quote == 34
backslash == 92
comma == 44
colon == 58
openBrace == 123
closeBrace == 125
letterN == 110
letterU == 117

NumFields == 5

FieldName(f) == 256 + f

Byte0(s, i) == IF i <= Len(s) THEN s[i] ELSE 0

-----------------------------------------------------------------------------
\* utf8.DecodeRuneInString at i: a wrong byte is RuneError of size 1.

RuneError == 65533

Follows(b) == b \in 128 .. 191

SecondBytes(a) ==
    CASE a = 224 -> 160 .. 191
      [] a = 237 -> 128 .. 159
      [] a = 240 -> 144 .. 191
      [] a = 244 -> 128 .. 143
      [] OTHER   -> 128 .. 191

RuneOf(a, b, c, d) ==
    CASE a < 128 -> [c |-> a, size |-> 1]
      [] a \in 194 .. 223 /\ Follows(b) ->
             [c |-> (a - 192) * 64 + (b - 128), size |-> 2]
      [] a \in 224 .. 239 /\ b \in SecondBytes(a) /\ Follows(c) ->
             [c |-> (a - 224) * 4096 + (b - 128) * 64 + (c - 128), size |-> 3]
      [] a \in 240 .. 244 /\ b \in SecondBytes(a) /\ Follows(c) /\ Follows(d) ->
             [c    |-> (a - 240) * 262144 + (b - 128) * 4096 + (c - 128) * 64 + (d - 128),
              size |-> 4]
      [] OTHER -> [c |-> RuneError, size |-> 1]

DecodeRune(s, i) == RuneOf(s[i], Byte0(s, i + 1), Byte0(s, i + 2), Byte0(s, i + 3))

-----------------------------------------------------------------------------
\* Stream: strings and records.

htmlSafeSet == (32 .. 127) \ {quote, backslash, 60, 62, 38}

safeSet == (32 .. 127) \ {quote, backslash}

hex(n) == IF n < 10 THEN 48 + n ELSE 87 + n

\* The four digits of \u
Digits(n) == <<hex(n \div 4096), hex((n \div 256) % 16), hex((n \div 16) % 16), hex(n % 16)>>

Escape(n) == <<backslash, letterU>> \o Digits(n)

\* A byte below RuneSelf that is not in the safe set
escapeByte(b) ==
    CASE b \in {backslash, quote} -> <<backslash, b>>
      [] b = 10 -> <<backslash, letterN>>
      [] b = 13 -> <<backslash, 114>>
      [] b = 9  -> <<backslash, 116>>
      [] OTHER  -> Escape(b)

\* What is written for the rune r at i: bytes below RuneSelf have size 1.
escapeRune(s, i, r) ==
    CASE r.c \in htmlSafeSet -> <<r.c>>
      [] r.c < 128 /\ r.c \notin htmlSafeSet -> escapeByte(r.c)
      [] r.c = RuneError /\ r.size = 1 -> Escape(RuneError)
      [] r.c \in {8232, 8233} -> Escape(r.c)
      [] OTHER -> SubSeq(s, i, i + r.size - 1)

\* A mutated form of escapedFrom: past a separator by one byte.
RECURSIVE escapedFromByte(_, _)
escapedFromByte(s, i) ==
    LET r == DecodeRune(s, i)
        n == IF r.c \in {8232, 8233} THEN 1 ELSE r.size
    IN  IF i > Len(s) THEN <<>> ELSE escapeRune(s, i, r) \o escapedFromByte(s, i + n)

\* writeStringSlowPathWithHTMLEscaped; the fast path before it copies safe bytes.
RECURSIVE escapedFrom(_, _)
escapedFrom(s, i) ==
    LET r == DecodeRune(s, i)
    IN  IF i > Len(s) THEN <<>> ELSE escapeRune(s, i, r) \o escapedFrom(s, i + r.size)

WriteStringWithHTMLEscaped(s) == <<quote>> \o escapedFrom(s, 1) \o <<quote>>

\* WriteString with writeStringSlowPath: what is above the letters is copied.
WriteString(s) ==
    <<quote>> \o FlattenSeq([i \in DOMAIN s |-> IF s[i] \in safeSet \/ s[i] >= 128
                                                THEN <<s[i]>> ELSE escapeByte(s[i])])
    \o <<quote>>

\* WriteObjectField without indention
WriteObjectField(f) == WriteString(<<FieldName(f)>>) \o <<colon>>

\* structEncoder.Encode: the fields numbered in order, none of them omitted.
\* text[f] is the text of field f.
encodeStruct(order, text) ==
    LET Entry(j) == (IF j = 1 THEN <<>> ELSE <<comma>>)
                    \o WriteObjectField(order[j]) \o text[order[j]]
    IN  <<openBrace>> \o FlattenSeq([j \in DOMAIN order |-> Entry(j)]) \o <<closeBrace>>

Marshal(rec) ==
    encodeStruct([j \in 1 .. NumFields |-> j],
                 [f \in 1 .. NumFields |-> WriteStringWithHTMLEscaped(rec[f])])

-----------------------------------------------------------------------------
\* Iterator: head, and the error ("" for none, "eof").

Start == [head |-> 1, err |-> ""]

\* ReportError keeps the first error other than io.EOF.
ReportError(it) == [it EXCEPT !.err = IF @ \in {"", "eof"} THEN "syntax" ELSE @]

\* loadMore without a reader
AtEnd(t, it) == [head |-> Len(t) + 1, err |-> IF it.err = "" THEN "eof" ELSE it.err]

readByte(t, it) ==
    IF it.head > Len(t) THEN [c |-> 0, it |-> AtEnd(t, it)]
    ELSE [c |-> t[it.head], it |-> [it EXCEPT !.head = @ + 1]]

unreadByte(it) == IF it.err # "" THEN it ELSE [it EXCEPT !.head = @ - 1]

RECURSIVE nextToken(_, _)
nextToken(t, it) ==
    IF Byte0(t, it.head) \in {32, 10, 9, 13} THEN nextToken(t, [it EXCEPT !.head = @ + 1])
    ELSE readByte(t, it)

\* The value of a digit of readU4, -1 for what is none
DigitOf(c) ==
    CASE c \in 48 .. 57  -> c - 48
      [] c \in 97 .. 102 -> c - 87
      [] c \in 65 .. 70  -> c - 55
      [] OTHER           -> -1

\* readU4 with k digits to go, and after the byte b of one of them
RECURSIVE readDigits(_, _, _, _)
RECURSIVE readDigit(_, _, _, _)
readDigit(t, b, k, ret) ==
    IF b.it.err # "" THEN [r |-> ret, it |-> b.it]
    ELSE IF DigitOf(b.c) = -1 THEN [r |-> ret, it |-> ReportError(b.it)]
    ELSE readDigits(t, b.it, k - 1, ret * 16 + DigitOf(b.c))
readDigits(t, it, k, ret) ==
    IF k = 0 THEN [r |-> ret, it |-> it] ELSE readDigit(t, readByte(t, it), k, ret)

readU4(t, it) == readDigits(t, it, 4, 0)

surrogates == 55296 .. 57343

\* utf16.DecodeRune
Combined(r, r2) ==
    IF r \in 55296 .. 56319 /\ r2 \in 56320 .. 57343
    THEN (r - 55296) * 1024 + (r2 - 56320) + 65536 ELSE RuneError

\* The bytes of a rune; a surrogate, or what is above the last, is an error.
appendRune(str, rune) ==
    LET r == IF rune > 1114111 \/ rune \in surrogates THEN RuneError ELSE rune
        Low(n) == 128 + (n % 64)
    IN  str \o (CASE r <= 127 -> <<r>>
                  [] r \in 128 .. 2047 -> <<192 + (r \div 64), Low(r)>>
                  [] r \in 2048 .. 65535 -> <<224 + (r \div 4096), Low(r \div 64), Low(r)>>
                  [] OTHER -> <<240 + (r \div 262144), Low(r \div 4096), Low(r \div 64), Low(r)>>)

NoString(it) == [it |-> it, str |-> <<>>]

\* readEscapedChar after the escapes r and u2 of a surrogate pair
surrogatePair(str, r, u2) ==
    IF u2.it.err # "" THEN NoString(u2.it)
    ELSE [it  |-> u2.it,
          str |-> IF Combined(r, u2.r) = RuneError
                  THEN appendRune(appendRune(str, r), u2.r)
                  ELSE appendRune(str, Combined(r, u2.r))]

\* The bytes that one letter after a backslash stands for
escapes == [c \in {quote, backslash, 47} |-> c]
           @@ (98 :> 8) @@ (102 :> 12) @@ (letterN :> 10) @@ (114 :> 13) @@ (116 :> 9)

\* readEscapedChar after the backslash and c: the rune u of a \u; after the
\* surrogate r the byte b, and if that is a backslash the letter e.
RECURSIVE readEscapedChar(_, _, _, _)
afterSurrogateEscape(t, str, r, e) ==
    CASE e.it.err # "" -> NoString(e.it)
      [] e.it.err = "" /\ e.c # letterU -> readEscapedChar(t, e.it, e.c, appendRune(str, r))
      [] OTHER -> surrogatePair(str, r, readU4(t, e.it))
afterSurrogate(t, str, r, b) ==
    CASE b.it.err # "" -> NoString(b.it)
      [] b.it.err = "" /\ b.c # backslash ->
             [it |-> unreadByte(b.it), str |-> appendRune(str, r)]
      [] OTHER -> afterSurrogateEscape(t, str, r, readByte(t, b.it))
escapedRune(t, str, u) ==
    IF u.r \in surrogates THEN afterSurrogate(t, str, u.r, readByte(t, u.it))
    ELSE [it |-> u.it, str |-> appendRune(str, u.r)]
readEscapedChar(t, it, c, str) ==
    CASE c = letterU -> escapedRune(t, str, readU4(t, it))
      [] c \in DOMAIN escapes -> [it |-> it, str |-> Append(str, escapes[c])]
      [] OTHER -> NoString(ReportError(it))

\* readStringSlowPath, and after its next byte b
RECURSIVE readStringSlowPath(_, _, _)
afterEscape(t, x) == readStringSlowPath(t, x.it, x.str)
afterBackslash(t, str, e) == afterEscape(t, readEscapedChar(t, e.it, e.c, str))
slowByte(t, str, b) ==
    CASE b.c = quote -> [it |-> b.it, str |-> str]
      [] b.c = backslash -> afterBackslash(t, str, readByte(t, b.it))
      [] OTHER -> readStringSlowPath(t, b.it, Append(str, b.c))
readStringSlowPath(t, it, str) ==
    IF it.err # "" THEN NoString(ReportError(it)) ELSE slowByte(t, str, readByte(t, it))

\* Where the fast path of ReadString stops: a quote, an escape or a control
\* character, or the end.
RECURSIVE FastUntil(_, _)
FastUntil(t, i) ==
    IF i > Len(t) \/ t[i] \in {quote, backslash} \cup 0 .. 31 THEN i ELSE FastUntil(t, i + 1)

\* skipThreeBytes and skipFourBytes: the letters of a literal, one by one.
RECURSIVE skipBytes(_, _, _)
skipBytes(t, it, letters) ==
    IF letters = <<>> THEN it
    ELSE IF readByte(t, it).c # Head(letters) THEN ReportError(readByte(t, it).it)
    ELSE skipBytes(t, readByte(t, it).it, Tail(letters))

literals == (letterN :> <<117, 108, 108>>) @@ (116 :> <<114, 117, 101>>)
            @@ (102 :> <<97, 108, 115, 101>>)

\* ReadString after its first byte b, with a fast path up to stop
readStringUntil(t, b, stop) ==
    CASE b.c = quote /\ Byte0(t, stop) = quote ->
             [it |-> [b.it EXCEPT !.head = stop + 1], str |-> SubSeq(t, b.it.head, stop - 1)]
      [] b.c = quote /\ (stop > Len(t) \/ t[stop] = backslash) ->
             readStringSlowPath(t, b.it, <<>>)
      [] b.c = letterN -> NoString(skipBytes(t, b.it, literals[letterN]))
      [] OTHER -> NoString(ReportError(b.it))
readStringAfter(t, b) == readStringUntil(t, b, FastUntil(t, b.it.head))
ReadString(t, it) == readStringAfter(t, nextToken(t, it))

\* skipString: up to a quote, or by ReadString when an escape comes first.
skipUntil(t, it, stop) ==
    CASE Byte0(t, stop) = quote -> [it EXCEPT !.head = stop + 1]
      [] stop > Len(t) \/ t[stop] = backslash -> ReadString(t, unreadByte(it)).it
      [] OTHER -> ReportError(it)
skipString(t, it) == skipUntil(t, it, FastUntil(t, it.head))

\* Skip of a string or of a literal; a value is no number, array or object.
skipValue(t, b) ==
    CASE b.c = quote -> skipString(t, b.it)
      [] b.c \in DOMAIN literals -> skipBytes(t, b.it, literals[b.c])
      [] OTHER -> ReportError(b.it)
Skip(t, it) == skipValue(t, nextToken(t, it))

\* readFieldHash: the name with the colon after it; the letters of the name
\* may be escaped, and are no control characters.
hashBefore(name, c) ==
    IF c.c = colon THEN [it |-> c.it, hash |-> name]
    ELSE [it |-> ReportError(c.it), hash |-> <<>>]
hashOf(t, s) == hashBefore(s.str, nextToken(t, s.it))
fieldHash(t, it, b) ==
    IF b.c = quote THEN hashOf(t, ReadString(t, it))
    ELSE [it |-> ReportError(b.it), hash |-> <<>>]
readFieldHash(t, it) == fieldHash(t, it, nextToken(t, it))

\* readObjectStart: whether there are fields
firstField(c) ==
    IF c.c = closeBrace THEN [it |-> c.it, more |-> FALSE]
    ELSE [it |-> unreadByte(c.it), more |-> TRUE]
objectStart(t, b) ==
    CASE b.c = openBrace -> firstField(nextToken(t, b.it))
      [] b.c = letterN -> [it |-> skipBytes(t, b.it, literals[letterN]), more |-> FALSE]
      [] OTHER -> [it |-> ReportError(b.it), more |-> FALSE]
readObjectStart(t, it) == objectStart(t, nextToken(t, it))

\* isObjectEnd
objectEnd(c) ==
    [end |-> c.c # comma,
     it  |-> IF c.c \in {comma, closeBrace} THEN c.it ELSE ReportError(c.it)]
isObjectEnd(t, it) == objectEnd(nextToken(t, it))

\* fiveFieldsStructDecoder.Decode from a field on: an error of a value does
\* not end it.
storeField(rec, hash, v) ==
    [it  |-> v.it,
     rec |-> [f \in 1 .. NumFields |-> IF hash = <<FieldName(f)>> THEN v.str ELSE rec[f]]]
decodeField(t, rec, h) ==
    IF \E f \in 1 .. NumFields : h.hash = <<FieldName(f)>>
    THEN storeField(rec, h.hash, ReadString(t, h.it))
    ELSE [it |-> Skip(t, h.it), rec |-> rec]

RECURSIVE decodeFields(_, _, _)
decodeNext(t, rec, e) ==
    IF e.end THEN [it |-> e.it, rec |-> rec] ELSE decodeFields(t, e.it, rec)
decodeAfter(t, x) == decodeNext(t, x.rec, isObjectEnd(t, x.it))
decodeFields(t, it, rec) == decodeAfter(t, decodeField(t, rec, readFieldHash(t, it)))

EmptyInfo == [f \in 1 .. NumFields |-> <<>>]

\* Unmarshal: nothing may follow the value, and then the end is no error.
unmarshalErr(err) == IF err = "eof" THEN "" ELSE err
afterValue(rec, b) ==
    [rec |-> rec, err |-> unmarshalErr((IF b.c = 0 THEN b.it ELSE ReportError(b.it)).err)]
unmarshalled(t, d) == afterValue(d.rec, nextToken(t, d.it))
unmarshalObject(t, s) ==
    unmarshalled(t, IF s.more THEN decodeFields(t, s.it, EmptyInfo)
                    ELSE [it |-> s.it, rec |-> EmptyInfo])
Unmarshal(t) == unmarshalObject(t, readObjectStart(t, Start))

=============================================================================

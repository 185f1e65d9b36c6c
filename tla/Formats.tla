------------------------------ MODULE Formats -------------------------------
(***************************************************************************)
(* What is written and read back: the logs of Wal, the blocks of a table   *)
(* under Snappy, and the records of projects under JsonText.  The three    *)
(* share no state; a behaviour is one of Wal, or one value written and     *)
(* read back.                                                              *)
(***************************************************************************)
EXTENDS Wal, Snappy, JsonText

CONSTANTS
    Blocks,       \* the blocks written, sequences of bytes
    Strings,      \* the strings of records
    Remarks,      \* those of them that are remarks
    NameLists     \* values that are no record

VARIABLE sample    \* what was written, and what came back

allVars == <<vars, sample>>

NoSample == [kind |-> "none"]

-----------------------------------------------------------------------------
\* A block is written to a table and read back.  In the file a byte at hurt
\* (0 for none) may have changed; checksums are verified then.
WriteBlock(bytes, snappy, hurt, verify) ==
    \E raw \in {sealBlock(bytes, snappy)} :
        /\ hurt <= Len(raw.body)
        /\ hurt # 0 => verify
        /\ sample' = [kind |-> "block", bytes |-> bytes, hurt |-> hurt,
                      length |-> Len(raw.body),
                      got |-> readRawBlock(IF hurt = 0 THEN raw
                                           ELSE [raw EXCEPT !.body[hurt] = (@ + 4) % 256],
                                           verify)]

\* What the decoder makes of each part of a compressed block that is cut short.
CutBlock(bytes) ==
    \E coded \in {Encode(bytes)} :
        sample' = [kind |-> "cut",
                   got  |-> {Decode(SubSeq(coded, 1, n)) : n \in 0 .. Len(coded) - 1}]

-----------------------------------------------------------------------------
\* A JSON writer that escapes all that is not ASCII, and writes the fields in
\* another order after two that are unknown.
RECURSIVE asciiFrom(_, _)
asciiFrom(s, i) ==
    LET r == DecodeRune(s, i)
        n == r.c - 65536
    IN  IF i > Len(s) THEN <<>>
        ELSE (CASE r.c \in safeSet -> <<r.c>>
                [] r.c < 128 /\ r.c \notin safeSet -> escapeByte(r.c)
                [] r.c >= 65536 ->
                       Escape(55296 + (n \div 1024)) \o Escape(56320 + (n % 1024))
                [] OTHER -> Escape(r.c))
             \o asciiFrom(s, i + r.size)

AsciiString(s) == <<quote>> \o asciiFrom(s, 1) \o <<quote>>

MarshalAscii(rec) ==
    LET text == encodeStruct(<<6, 5, 3, 4, 2, 1>>,
                             [f \in 1 .. 6 |-> AsciiString(rec[IF f = 6 THEN 1 ELSE f])])
    IN  <<openBrace>> \o WriteObjectField(7) \o <<116, 114, 117, 101, comma>> \o Tail(text)

\* Index stores the record of a project, or finds it stored, and reads it.
StoreRecord(name, remark, ascii) ==
    LET rec == <<name, remark, name, <<>>, <<48>>>>
    IN  sample' = [kind |-> "record", rec |-> rec,
                   got |-> Unmarshal(IF ascii THEN MarshalAscii(rec) ELSE Marshal(rec))]

\* Index reads the value of a project that bears the name of another key, such
\* as AllFiles, and goes on whatever Unmarshal returns.
ReadNameList(text) ==
    sample' = [kind |-> "list", got |-> Unmarshal(text)]

-----------------------------------------------------------------------------
FormatsInit == Init /\ sample = NoSample

\* One value written and read back; no log was begun.
Sampled ==
    /\ Init /\ sample = NoSample /\ UNCHANGED vars
    /\ \/ \E b \in Blocks, s \in BOOLEAN, v \in BOOLEAN : \E h \in {0, 1, 2, Len(b) \div 2} :
              WriteBlock(b, s, h, v)
       \/ \E b \in Blocks : CutBlock(b)
       \/ \E s \in Strings, t \in Remarks, a \in BOOLEAN : StoreRecord(s, t, a)
       \/ \E t \in NameLists : ReadNameList(t)

FormatsNext ==
    \/ Next /\ sample = NoSample /\ UNCHANGED sample
    \/ Sampled
    \/ sample # NoSample /\ UNCHANGED allVars

FormatsSpec == FormatsInit /\ [][FormatsNext]_allVars

-----------------------------------------------------------------------------
\* Properties.

\* A block comes back as it was written, compressed or not, and never needs
\* more room than the writer made for it; one that was changed in the file is
\* refused when checksums are verified, and one that is cut short is refused
\* by the decoder alone (Writer.writeBlock, Reader.readRawBlock, snappy.Encode
\* and Decode).
BlocksExact ==
    CASE sample.kind = "block" ->
             /\ sample.length <= MaxEncodedLen(Len(sample.bytes)) + 1
             /\ sample.hurt = 0 => sample.got = [err |-> "", data |-> sample.bytes]
             /\ sample.hurt # 0 => sample.got.err # ""
      [] sample.kind = "cut" -> sample.got = {Corrupt}
      [] OTHER -> TRUE

\* A string with each byte that is no part of a character replaced by U+FFFD
RECURSIVE Repaired(_, _)
Repaired(s, i) ==
    LET r == DecodeRune(s, i)
    IN  IF i > Len(s) THEN <<>>
        ELSE (IF r.c = RuneError THEN <<239, 191, 189>> ELSE SubSeq(s, i, i + r.size - 1))
             \o Repaired(s, i + r.size)

\* A record comes back with every string it was stored with, whatever it holds
\* and whichever way its characters were escaped, and a value that is no record
\* leaves the record empty (Stream.WriteStringWithHTMLEscaped,
\* Iterator.ReadString, fiveFieldsStructDecoder.Decode, Unmarshal).
RecordsExact ==
    CASE sample.kind = "record" ->
             sample.got = [rec |-> [f \in 1 .. NumFields |-> Repaired(sample.rec[f], 1)],
                           err |-> ""]
      [] sample.kind = "list" -> sample.got.rec = EmptyInfo
      [] OTHER -> TRUE

=============================================================================

------------------------------- MODULE Snappy -------------------------------
(***************************************************************************)
(* The compression of table blocks: the block format of golang/snappy      *)
(* (encode.go, encode_other.go, decode.go, decode_other.go) and the        *)
(* trailer table/writer.go and table/reader.go put after a block, as       *)
(* operators on sequences of bytes.  Indices count from zero.              *)
(***************************************************************************)
EXTENDS Naturals, Sequences, SequencesExt, FiniteSetsExt

CONSTANTS
    TableBits,     \* the hash table has 2^TableBits entries
    hash(_),       \* hash of four bytes, below 2^TableBits
    MaxBlockSize   \* maxBlockSize

ASSUME SnappyAssumption == TableBits \in Nat /\ MaxBlockSize \in 1 .. 65536

tagLiteral == 0
tagCopy1 == 1
tagCopy2 == 2
tagCopy4 == 3

inputMargin == 15
minNonLiteralBlockSize == 1 + 1 + inputMargin

At(src, i) == src[i + 1]

\* src[i:j]
Cut(src, i, j) == SubSeq(src, i + 1, j)

\* binary.PutUvarint and Uvarint; the latter gives the value and the number of
\* bytes, 0 when they end too early.
RECURSIVE PutUvarint(_)
PutUvarint(n) == IF n < 128 THEN <<n>> ELSE <<128 + (n % 128)>> \o PutUvarint(n \div 128)

RECURSIVE Uvarint(_)
Uvarint(src) ==
    LET rest == Uvarint(Tail(src))
    IN  CASE src = <<>> -> [value |-> 0, n |-> 0]
          [] src # <<>> /\ src[1] < 128 -> [value |-> src[1], n |-> 1]
          [] OTHER -> IF rest.n = 0 THEN rest
                      ELSE [value |-> (src[1] - 128) + 128 * rest.value, n |-> rest.n + 1]

-----------------------------------------------------------------------------
\* The encoder.

load32(src, i) == Cut(src, i, i + 4)

\* emitLiteral for at most 65536 bytes
emitLiteral(lit) ==
    LET n == Len(lit) - 1
    IN  (CASE n < 60 -> <<n * 4 + tagLiteral>>
           [] n \in 60 .. 255 -> <<60 * 4 + tagLiteral, n>>
           [] OTHER -> <<61 * 4 + tagLiteral, n % 256, n \div 256>>)
        \o lit

\* A copy of three bytes
Copy2(offset, length) == <<(length - 1) * 4 + tagCopy2, offset % 256, offset \div 256>>

\* A mutated form of emitCopy: whatever is left goes into the last copy.
RECURSIVE emitCopyShort(_, _)
emitCopyShort(offset, length) ==
    CASE length >= 68 -> Copy2(offset, 64) \o emitCopyShort(offset, length - 64)
      [] length \in 12 .. 67 \/ (length < 12 /\ offset >= 2048) ->
             Copy2(offset, Min({length, 64}))
      [] OTHER -> <<(offset \div 256) * 32 + (length - 4) * 4 + tagCopy1, offset % 256>>

\* emitCopy: no more than 64 bytes at a time, and at least 4 left for the last.
RECURSIVE emitCopy(_, _)
emitCopy(offset, length) ==
    CASE length >= 68 -> Copy2(offset, 64) \o emitCopy(offset, length - 64)
      [] length \in 65 .. 67 -> Copy2(offset, 60) \o emitCopy(offset, length - 60)
      [] length \in 12 .. 64 \/ (length < 12 /\ offset >= 2048) -> Copy2(offset, length)
      [] OTHER -> <<(offset \div 256) * 32 + (length - 4) * 4 + tagCopy1, offset % 256>>

\* extendMatch: how far src agrees with itself from i and from j on.
RECURSIVE extendMatch(_, _, _)
extendMatch(src, i, j) ==
    IF j < Len(src) /\ At(src, i) = At(src, j) THEN extendMatch(src, i + 1, j + 1) ELSE j

sLimit(src) == Len(src) - inputMargin

\* The inner loop: from s on, a place whose four bytes the table has seen.
\* After 32 places in vain it skips one, then two, and so on.
RECURSIVE FindMatch(_, _, _, _)
FindMatch(src, s, skip, table) ==
    LET nextS     == s + (skip \div 32)
        h         == hash(load32(src, s))
        candidate == table[h]
        seen      == [table EXCEPT ![h] = s]
    IN  CASE nextS > sLimit(src) -> [found |-> FALSE, table |-> table]
          [] /\ nextS <= sLimit(src)
             /\ load32(src, s) = load32(src, candidate) ->
                 [found |-> TRUE, s |-> s, candidate |-> candidate, table |-> seen]
          [] OTHER -> FindMatch(src, nextS, skip + (skip \div 32), seen)

\* emitRemainder
Remainder(src, nextEmit) ==
    IF nextEmit < Len(src) THEN emitLiteral(Cut(src, nextEmit, Len(src))) ELSE <<>>

\* encodeBlock from s on, src[:nextEmit] being encoded: a literal up to a
\* match, then a copy for it.  CopyFrom goes on with the next match when there
\* is one just after the last; both of its places get into the table.
RECURSIVE EncodeFrom(_, _, _, _)
RECURSIVE CopyFrom(_, _, _, _)
EncodeFrom(src, s, nextEmit, table) ==
    LET m == FindMatch(src, s, 32, table)
    IN  IF ~m.found THEN Remainder(src, nextEmit)
        ELSE emitLiteral(Cut(src, nextEmit, m.s)) \o CopyFrom(src, m.s, m.candidate, m.table)

CopyFrom(src, base, candidate, table) ==
    LET s    == extendMatch(src, candidate + 4, base + 4)
        prev == [table EXCEPT ![hash(load32(src, s - 1))] = s - 1]
        h    == hash(load32(src, s))
        curr == [prev EXCEPT ![h] = s]
    IN  emitCopy(base - candidate, s - base) \o
        CASE s >= sLimit(src) -> Remainder(src, s)
          [] s < sLimit(src) /\ load32(src, s) # load32(src, prev[h]) ->
                 EncodeFrom(src, s + 1, s, curr)
          [] OTHER -> CopyFrom(src, s, prev[h], curr)

encodeBlock(src) == EncodeFrom(src, 1, 0, [h \in 0 .. 2^TableBits - 1 |-> 0])

\* The loop of Encode over blocks
RECURSIVE EncodeBlocks(_)
EncodeBlocks(src) ==
    LET p == Cut(src, 0, Min({Len(src), MaxBlockSize}))
    IN  IF src = <<>> THEN <<>>
        ELSE (IF Len(p) < minNonLiteralBlockSize THEN emitLiteral(p) ELSE encodeBlock(p))
             \o EncodeBlocks(Cut(src, Len(p), Len(src)))

Encode(src) == PutUvarint(Len(src)) \o EncodeBlocks(src)

\* The room Encode has for its result
MaxEncodedLen(srcLen) == 32 + srcLen + (srcLen \div 6)

-----------------------------------------------------------------------------
\* The decoder.

Corrupt == [err |-> "corrupt"]

\* n bytes from s, the lowest first
RECURSIVE Little(_, _, _)
Little(src, s, n) == IF n = 0 THEN 0 ELSE At(src, s) + 256 * Little(src, s + 1, n - 1)

\* The forward copy, which may read what it wrote.
RECURSIVE forwardCopy(_, _, _)
forwardCopy(dst, offset, length) ==
    IF length = 0 THEN dst
    ELSE forwardCopy(Append(dst, At(dst, Len(dst) - offset)), offset, length - 1)

\* decode from s on into a slice of dLen bytes, those of dst being there.  A
\* literal has its length in its tag or in up to four bytes after it; a copy
\* has its offset there.
RECURSIVE decode(_, _, _, _)
decode(src, s, dst, dLen) ==
    LET tag     == At(src, s) % 4
        x       == At(src, s) \div 4
        extra   == CASE tag = tagLiteral -> IF x < 60 THEN 0 ELSE x - 59
                     [] tag = tagCopy1   -> 1
                     [] tag = tagCopy2   -> 2
                     [] tag = tagCopy4   -> 4
        next    == s + 1 + extra
        length  == CASE tag = tagLiteral -> (IF x < 60 THEN x ELSE Little(src, s + 1, extra)) + 1
                     [] tag = tagCopy1   -> 4 + (x % 8)
                     [] OTHER            -> 1 + x
        offset  == IF tag = tagCopy1 THEN (x \div 8) * 256 + At(src, s + 1)
                   ELSE Little(src, s + 1, extra)
        room    == dLen - Len(dst)
    IN  CASE s = Len(src) -> IF Len(dst) = dLen THEN [err |-> "", data |-> dst] ELSE Corrupt
          [] s < Len(src) /\ next > Len(src) -> Corrupt
          [] s < Len(src) /\ next <= Len(src) /\ tag = tagLiteral ->
                 IF length > room \/ length > Len(src) - next THEN Corrupt
                 ELSE decode(src, next + length, dst \o Cut(src, next, next + length), dLen)
          [] OTHER ->
                 IF offset = 0 \/ Len(dst) < offset \/ length > room THEN Corrupt
                 ELSE decode(src, next, forwardCopy(dst, offset, length), dLen)

\* Decode, with decodedLen
Decode(src) ==
    LET header == Uvarint(src)
    IN  IF header.n = 0 THEN Corrupt ELSE decode(src, header.n, <<>>, header.value)

-----------------------------------------------------------------------------
\* A block in the file of a table.

blockTypeNoCompression == 0
blockTypeSnappyCompression == 1

\* util.NewCRC of the bytes, which stands for what it was taken over
Checksum(bytes) == <<"sum", bytes>>

\* Writer.writeBlock: the bytes, compressed or not, the type, the checksum of both.
sealBlock(bytes, snappy) ==
    LET body == (IF snappy THEN Encode(bytes) ELSE bytes)
                \o <<IF snappy THEN blockTypeSnappyCompression ELSE blockTypeNoCompression>>
    IN  [body |-> body, sum |-> Checksum(body)]

\* Reader.readRawBlock
readRawBlock(raw, verifyChecksum) ==
    LET data == Front(raw.body)
        type == Last(raw.body)
    IN  CASE verifyChecksum /\ raw.sum # Checksum(raw.body) -> [err |-> "checksum mismatch"]
          [] (verifyChecksum => raw.sum = Checksum(raw.body)) /\ type = blockTypeNoCompression ->
                 [err |-> "", data |-> data]
          [] (verifyChecksum => raw.sum = Checksum(raw.body)) /\ type = blockTypeSnappyCompression ->
                 Decode(data)
          [] OTHER -> [err |-> "unknown compression type"]

=============================================================================

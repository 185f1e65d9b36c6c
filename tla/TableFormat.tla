----------------------------- MODULE TableFormat ----------------------------
(***************************************************************************)
(* Sorted tables of goleveldb: table/writer.go, table/reader.go,           *)
(* table/table.go, filter/bloom.go and filter.go, as operators on values.  *)
(*                                                                         *)
(* A block is its entries and its restart points.  Inside a block an       *)
(* offset counts entries, not bytes (entry i is at offset i - 1), and      *)
(* restartsOffset is the number of entries.  Inside a file offsets and     *)
(* lengths count bytes, with one byte for each varint; a block is not      *)
(* compressed.                                                             *)
(***************************************************************************)
EXTENDS InternalKeys

CONSTANTS
    BlockSize,          \* Options.BlockSize
    RestartInterval,    \* Options.BlockRestartInterval
    FilterBase,         \* filterBase
    BitsPerKey,         \* the parameter of NewBloomFilter
    MinFilterBits,      \* the least size of a filter, 64 in the code
    HashWidth,          \* the bits of a hash, 32 in the code
    HashRotate,         \* how far delta is rotated, 17 in the code
    Hash(_)             \* bloomHash of a user key

BlockTrailerLen == 5

-----------------------------------------------------------------------------
\* blockWriter

NewBlockWriter == [entries |-> <<>>, restarts |-> <<>>, prevKey |-> <<>>, len |-> 0]

\* blockWriter.append: a restart point every interval entries, the others
\* without the prefix they share with the key before.
EntryAppended(w, key, value, restart, nShared) ==
    [entries  |-> Append(w.entries,
                         [shared |-> nShared,
                          suffix |-> SubSeq(key, nShared + 1, Len(key)),
                          value  |-> value]),
     restarts |-> IF restart THEN Append(w.restarts, Len(w.entries)) ELSE w.restarts,
     prevKey  |-> key,
     len      |-> w.len + 3 + (Len(key) - nShared) + Len(value)]
appendEntry(w, key, value, interval) ==
    EntryAppended(w, key, value, Len(w.entries) % interval = 0,
                  IF Len(w.entries) % interval = 0 THEN 0 ELSE sharedPrefixLen(w.prevKey, key))

\* blockWriter.bytesLen, also the length of the block once it is finished
bytesLen(w) == w.len + 4 * Max({1, Len(w.restarts)}) + 4

\* blockWriter.finish: at least one restart point.
finish(w) ==
    [entries  |-> w.entries,
     restarts |-> IF w.entries = <<>> THEN <<0>> ELSE w.restarts]

-----------------------------------------------------------------------------
\* The bloom filter.

\* bloomFilter.NewGenerator: the number of probes of a key
ProbeCount == Max({1, Min({30, (BitsPerKey * 69) \div 100})})

\* The bits that k probes of a hash meet: each is delta further, in a word.
ProbeBits(h, k, nBits) ==
    LET delta == (h \div 2^HashRotate) + (h % 2^HashRotate) * 2^(HashWidth - HashRotate)
    IN  {((h + j * delta) % 2^HashWidth) % nBits : j \in 0 .. k - 1}

\* bloomFilterGenerator.Generate
bloomGenerate(hashes) ==
    LET nBits == 8 * ((Max({MinFilterBits, Len(hashes) * BitsPerKey}) + 7) \div 8)
    IN  [nBits |-> nBits, k |-> ProbeCount,
         bits  |-> UNION {ProbeBits(h, ProbeCount, nBits) : h \in ToSet(hashes)}]

\* A filter without keys has no bytes.
NoFilter == [nBits |-> 0, k |-> 0, bits |-> {}]

\* bloomFilter.Contains
bloomContains(filter, ukey) ==
    /\ filter # NoFilter
    /\ ProbeBits(Hash(ukey), filter.k, filter.nBits) \subseteq filter.bits

-----------------------------------------------------------------------------
\* filterWriter: the filters generated so far, and the hashes of the keys
\* added since.

NewFilterWriter == [filters |-> <<>>, hashes |-> <<>>]

\* filterWriter.add with iFilterGenerator: the filter knows user keys.
addKey(f, ikey) == [f EXCEPT !.hashes = Append(@, Hash(ukeyOf(ikey)))]

generate(f) ==
    [filters |-> Append(f.filters, IF f.hashes = <<>> THEN NoFilter ELSE bloomGenerate(f.hashes)),
     hashes  |-> <<>>]

\* A mutated form of flushFilter: a filter too many at a boundary.
RECURSIVE flushFilterPast(_, _)
flushFilterPast(f, offset) ==
    IF offset \div FilterBase >= Len(f.filters)
    THEN flushFilterPast(generate(f), offset) ELSE f

\* filterWriter.flush: one filter for each FilterBase bytes of data.
RECURSIVE flushFilter(_, _)
flushFilter(f, offset) ==
    IF offset \div FilterBase > Len(f.filters) THEN flushFilter(generate(f), offset) ELSE f

finishFilter(f) == IF f.hashes # <<>> THEN generate(f).filters ELSE f.filters

\* The bytes of the filter block: each filter with its k, the offsets, the base.
filterLen(filters) ==
    FoldLeft(LAMBDA n, f : n + (IF f = NoFilter THEN 0 ELSE (f.nBits \div 8) + 1), 0, filters)
    + 4 * (Len(filters) + 1) + 1

-----------------------------------------------------------------------------
\* Writer

NoHandle == [offset |-> 0, length |-> 0]

\* "filter." and the name of the filter
FilterName == <<0>>

NewWriter ==
    [data |-> NewBlockWriter, index |-> NewBlockWriter, filter |-> NewFilterWriter,
     pending |-> NoHandle, offset |-> 0, nEntries |-> 0, blocks |-> <<>>]

\* Writer.writeBlock: the block is at the offset of the writer, which moves on.
writeBytes(w, block, length) ==
    [w EXCEPT !.blocks = Append(@, [offset |-> w.offset, block |-> block]),
              !.offset = @ + length + BlockTrailerLen]

writeBlock(w, b) == writeBytes(w, finish(b), bytesLen(b))

\* Writer.flushPendingBH: the index entry of the last block, under a key that
\* is not below its keys and below key, the first of the next block.
IndexedUnder(w, separator) ==
    [w EXCEPT !.index = appendEntry(@, separator, <<w.pending.offset, w.pending.length>>, 1),
              !.data.prevKey = <<>>,
              !.pending = NoHandle]
KeyOr(short, key) == IF short = NilKey THEN key ELSE short
flushPendingBH(w, key) ==
    IF w.pending.length = 0 THEN w
    ELSE IndexedUnder(w, KeyOr(IF key = NilKey THEN iSuccessor(w.data.prevKey)
                               ELSE iSeparator(w.data.prevKey, key), w.data.prevKey))

\* Writer.finishBlock; reset keeps the last key for flushPendingBH.
finishBlock(w) ==
    [writeBlock(w, w.data) EXCEPT
        !.pending = [offset |-> w.offset, length |-> bytesLen(w.data)],
        !.data = [NewBlockWriter EXCEPT !.prevKey = w.data.prevKey],
        !.filter = flushFilter(@, w.offset + bytesLen(w.data) + BlockTrailerLen)]

\* Writer.Append for keys in increasing order.
Added(w, key, value) ==
    [w EXCEPT !.data = appendEntry(@, key, value, RestartInterval),
              !.filter = addKey(@, key), !.nEntries = @ + 1]
FinishedIfFull(w) == IF bytesLen(w.data) >= BlockSize THEN finishBlock(w) ELSE w
AppendKey(w, key, value) == FinishedIfFull(Added(flushPendingBH(w, key), key, value))

\* Writer.Close: the last block, its index entry, the filters, the metaindex
\* that tells where they are, the index, and the footer with the last two.
WithIndex(w, index, metaBH) ==
    [blocks |-> writeBlock(w, index).blocks, metaBH |-> metaBH, indexBH |-> w.offset]
WithMeta(w, index, filterBH) ==
    WithIndex(writeBlock(w, appendEntry(NewBlockWriter, FilterName, filterBH, RestartInterval)),
              index, w.offset)
WithFilters(w, filters) ==
    WithMeta(writeBytes(w, filters, filterLen(filters)), w.index,
             <<w.offset, filterLen(filters)>>)
LastFlushed(w) == WithFilters(w, finishFilter(w.filter))
CloseTable(w) ==
    LastFlushed(flushPendingBH(IF w.data.entries # <<>> \/ w.nEntries = 0 THEN finishBlock(w) ELSE w,
                          NilKey))

\* tOps.createFrom: the table of a sorted sequence of [key, value].
TableOf(pairs) ==
    CloseTable(FoldLeft(LAMBDA w, p : AppendKey(w, p.key, p.value), NewWriter, pairs))

-----------------------------------------------------------------------------
\* blockIter.  Between Prev calls prevNode holds the offset of the restart
\* point and, above it, the key and the end of each entry that was passed.

NewBlockIterRaw(ref, b) ==
    [kind |-> "block", ref |-> ref, key |-> <<>>, value |-> <<>>,
     offset |-> 0, prevOffset |-> 0, prevNode |-> <<>>, restartIndex |-> 0,
     dir |-> "soi", riStart |-> 0, riLimit |-> Len(b.restarts),
     offsetStart |-> 0, offsetRealStart |-> 0, offsetLimit |-> Len(b.entries),
     err |-> ""]

\* blockIter.Valid
OnEntry(i) == i.err = "" /\ i.dir \in {"forward", "backward"}

restartOffset(b, index) ==
    IF index < Len(b.restarts) THEN b.restarts[index + 1] ELSE Len(b.restarts)

\* block.seek: the last restart point of the range whose key is not above key.
blockSeek(b, rstart, rlimit, key) ==
    Max({rstart,
         Search(rlimit - rstart,
                LAMBDA i : iLess(key, b.entries[restartOffset(b, rstart + i) + 1].suffix))
         + rstart - 1})

\* block.restartIndex: the last restart point of the range up to offset.
restartIndex(b, rstart, rlimit, offset) ==
    Search(rlimit - rstart, LAMBDA i : restartOffset(b, rstart + i) > offset) + rstart - 1

\* key[:nShared] with the suffix of the entry at offset.
KeyAt(b, key, offset) ==
    SubSeq(key, 1, b.entries[offset + 1].shared) \o b.entries[offset + 1].suffix

\* The key after the entries from offset up to limit are read.
RECURSIVE KeyPast(_, _, _, _)
KeyPast(b, key, offset, limit) ==
    IF offset >= limit THEN key ELSE KeyPast(b, KeyAt(b, key, offset), offset + 1, limit)

Rewound(i) == IF i.dir = "backward" THEN [i EXCEPT !.prevNode = <<>>] ELSE i

AtSOI(i) == [i EXCEPT !.dir = "soi"]

\* blockIter.Next over entry at, past those from `from' to the real start.
EntryNext(b, i, at) ==
    IF at >= i.offsetLimit
    THEN [i EXCEPT !.dir = "eoi", !.err = IF at # i.offsetLimit THEN "corrupted" ELSE ""]
    ELSE [i EXCEPT !.key = KeyAt(b, @, at), !.value = b.entries[at + 1].value,
                   !.prevOffset = at, !.offset = at + 1, !.dir = "forward"]
NextFrom(b, i, from) ==
    EntryNext(b, [i EXCEPT !.key = KeyPast(b, @, from, i.offsetRealStart),
                           !.offset = Max({from, i.offsetRealStart})],
              Max({from, i.offsetRealStart}))
BlockNext(b, i) ==
    CASE i.dir = "eoi" \/ i.err # "" -> i
      [] i.dir = "soi" /\ i.err = "" ->
             NextFrom(b, [i EXCEPT !.restartIndex = i.riStart], i.offsetStart)
      [] OTHER -> NextFrom(b, Rewound(i), i.offset)

\* The entries of the restart range from offset up to limit, with their keys.
RECURSIVE RangeNodes(_, _, _, _)
RangeNode(b, k, offset, limit) ==
    <<[key |-> k, end |-> offset + 1]>> \o RangeNodes(b, k, offset + 1, limit)
RangeNodes(b, key, offset, limit) ==
    IF offset >= limit THEN <<>> ELSE RangeNode(b, KeyAt(b, key, offset), offset, limit)

\* The end of blockIter.Prev: the entries of a restart range are cached and
\* the iterator stands on the last of them.
OnLastOf(b, i, r, nodes) ==
    [i EXCEPT !.dir = "backward", !.restartIndex = r,
              !.prevNode = @ \o <<[key |-> <<>>, end |-> restartOffset(b, r)]>> \o Front(nodes),
              !.key = Last(nodes).key,
              !.value = b.entries[i.offset].value]
CacheFrom(b, i, r) ==
    IF r < 0 THEN AtSOI([i EXCEPT !.key = <<>>, !.value = <<>>])
    ELSE OnLastOf(b, i, r, SelectSeq(RangeNodes(b, <<>>, restartOffset(b, r), i.offset),
                                     LAMBDA n : n.end > i.offsetRealStart))
CacheRange(b, i, ri) == CacheFrom(b, i, IF restartOffset(b, ri) = i.offset THEN ri - 1 ELSE ri)

\* What blockIter.Prev does first: where it goes on from, and the restart
\* point before it, -1 at the start.
PrevForward(b, i) ==
    [i |-> [i EXCEPT !.offset = i.prevOffset],
     ri |-> IF i.prevOffset = i.offsetRealStart THEN -1
            ELSE restartIndex(b, i.restartIndex, i.riLimit, i.prevOffset)]
PrevEOI(i) ==
    [i |-> [i EXCEPT !.restartIndex = i.riLimit, !.offset = i.offsetLimit],
     ri |-> IF i.offsetLimit = i.offsetRealStart THEN -1 ELSE i.riLimit - 1]
PrevBackward(i) ==
    [i |-> [i EXCEPT !.offset = Last(i.prevNode).end, !.prevNode = <<>>,
                     !.restartIndex = IF @ = i.riStart THEN @ ELSE @ - 1],
     ri |-> IF i.restartIndex = i.riStart THEN -1 ELSE i.restartIndex - 1]
PrevRange(b, p) == IF p.ri = -1 THEN AtSOI(p.i) ELSE CacheRange(b, p.i, p.ri)
PrevNode(b, i, top) ==
    [i EXCEPT !.prevNode = Front(@), !.key = top.key,
              !.value = b.entries[top.end].value, !.offset = top.end]

BlockPrev(b, i) ==
    CASE i.dir = "soi" \/ i.err # "" -> i
      [] i.dir = "backward" /\ i.err = "" /\ Len(i.prevNode) > 1 ->
             PrevNode(b, i, Last(i.prevNode))
      [] OTHER -> PrevRange(b, CASE i.dir = "forward" -> PrevForward(b, i)
                                 [] i.dir = "eoi" -> PrevEOI(i)
                                 [] i.dir = "backward" -> PrevBackward(i))

BlockFirst(b, i) ==
    IF i.err # "" THEN i ELSE BlockNext(b, AtSOI(Rewound(i)))

BlockLast(b, i) ==
    IF i.err # "" THEN i ELSE BlockPrev(b, [Rewound(i) EXCEPT !.dir = "eoi"])

RECURSIVE NextUntil(_, _, _)
UntilNot(b, n, key) == IF OnEntry(n) /\ iLess(n.key, key) THEN NextUntil(b, n, key) ELSE n
NextUntil(b, i, key) == UntilNot(b, BlockNext(b, i), key)

SeekFrom(b, i, ri, key) ==
    NextUntil(b, [i EXCEPT !.restartIndex = ri,
                           !.offset = Max({i.offsetStart, restartOffset(b, ri)}),
                           !.dir = IF @ \in {"soi", "eoi"} THEN "forward" ELSE @],
              key)
BlockSeek(b, i, key) ==
    IF i.err # "" THEN i ELSE SeekFrom(b, i, blockSeek(b, i.riStart, i.riLimit, key), key)

\* blockIter.reset
BlockReset(i) ==
    [Rewound(i) EXCEPT !.restartIndex = i.riStart, !.offset = i.offsetStart,
                       !.dir = "soi", !.key = <<>>, !.value = <<>>]

\* blockIter.isFirst and isLast
AtFirst(i) ==
    \/ i.dir = "forward" /\ i.prevOffset = i.offsetRealStart
    \/ i.dir = "backward" /\ Len(i.prevNode) = 1 /\ i.restartIndex = i.riStart

AtLast(i) == i.dir \in {"forward", "backward"} /\ i.offset = i.offsetLimit

\* Reader.newBlockIter: the range of keys becomes ranges of restart points
\* and of offsets.
RangeFrom(b, s, ri) ==
    [s EXCEPT !.riStart = ri, !.offsetStart = restartOffset(b, ri),
              !.offsetRealStart = s.prevOffset]
StartedAt(b, s) ==
    IF OnEntry(s)
    THEN RangeFrom(b, s, restartIndex(b, s.restartIndex, Len(b.restarts), s.prevOffset))
    ELSE [s EXCEPT !.riStart = Len(b.restarts), !.offsetStart = Len(b.entries),
                   !.offsetRealStart = Len(b.entries)]
StartAt(b, i, start) == IF start = NilKey THEN i ELSE StartedAt(b, BlockSeek(b, i, start))

LimitedAt(n) ==
    IF OnEntry(n) THEN [n EXCEPT !.offsetLimit = n.prevOffset, !.riLimit = n.restartIndex + 1]
    ELSE n
PastLimit(b, s, inclLimit) == LimitedAt(IF inclLimit /\ OnEntry(s) THEN BlockNext(b, s) ELSE s)
LimitAt(b, i, limit, inclLimit) ==
    IF limit = NilKey THEN i ELSE PastLimit(b, BlockSeek(b, i, limit), inclLimit)

RangeChecked(i) == IF i.offsetStart > i.offsetLimit THEN [i EXCEPT !.err = "invalid"] ELSE i
newBlockIter(ref, b, slice, inclLimit) ==
    IF slice = WholeRange THEN NewBlockIterRaw(ref, b)
    ELSE RangeChecked(BlockReset(
             LimitAt(b, StartAt(b, NewBlockIterRaw(ref, b), slice.start), slice.limit, inclLimit)))

-----------------------------------------------------------------------------
\* Reader.  bad holds the offsets of the blocks of the file that cannot be
\* read, or fail their checksum, and Footer when the footer is no footer.

Footer == -1

\* The block at an offset of the file.
BlockAt(t, offset) ==
    (CHOOSE x \in ToSet(t.blocks) : x.offset = offset).block

\* NewReader with a block cache: a reader that leads nowhere keeps its error,
\* and the data ends where the filters begin.
metaFirst(ref, b) == BlockNext(b, NewBlockIterRaw(ref, b))
NewReader(t, bad) ==
    IF Footer \in bad \/ t.metaBH \in bad
    THEN [err |-> "corrupted", dataEnd |-> 0, filterBH |-> 0]
    ELSE [err |-> "", dataEnd |-> metaFirst(t.metaBH, BlockAt(t, t.metaBH)).value[1],
          filterBH |-> metaFirst(t.metaBH, BlockAt(t, t.metaBH)).value[1]]

\* Whether the reader has its index: Reader.err and getIndexBlock
HasIndex(t, bad) == NewReader(t, bad).err = "" /\ t.indexBH \notin bad

\* getFilterBlock and readFilterBlockCached: filters that cannot be read are
\* not asked.
HasFilter(t, bad) == NewReader(t, bad).filterBH \notin bad

\* filterBlock.contains: no filter for the offset says nothing.
contains(filters, offset, ikey) ==
    LET i == offset \div FilterBase
    IN  i < Len(filters) => bloomContains(filters[i + 1], ukeyOf(ikey))

NotFound == [key |-> NilKey, value |-> <<>>, err |-> ""]

Unreadable == [key |-> NilKey, value |-> <<>>, err |-> "corrupted"]

\* Where an iterator over the index stands when it sought key.
SeekIn(b, key) == BlockSeek(b, NewBlockIterRaw(0, b), key)
IndexSeek(t, key) == SeekIn(BlockAt(t, t.indexBH), key)

Pair(i) == IF OnEntry(i) THEN [key |-> i.key, value |-> i.value, err |-> ""] ELSE NotFound

\* What the filters say of the block at offset.
denied(t, bad, key, offset) ==
    /\ HasFilter(t, bad)
    /\ ~contains(BlockAt(t, NewReader(t, bad).filterBH), offset, key)

\* Reader.find: the first entry not below key, in the block that the index
\* tells or at the beginning of the one after it, succ.
FirstOf(b) == Pair(BlockNext(b, NewBlockIterRaw(0, b)))
FindInNext(t, bad, succ) ==
    IF ~OnEntry(succ) THEN NotFound
    ELSE IF succ.value[1] \in bad THEN Unreadable
    ELSE FirstOf(BlockAt(t, succ.value[1]))
FindOr(t, bad, index, data) ==
    IF OnEntry(data) THEN Pair(data)
    ELSE FindInNext(t, bad, BlockNext(BlockAt(t, t.indexBH), index))
FindFrom(t, bad, key, filtered, index) ==
    IF ~OnEntry(index) \/ (filtered /\ denied(t, bad, key, index.value[1])) THEN NotFound
    ELSE IF index.value[1] \in bad THEN Unreadable
    ELSE FindOr(t, bad, index, SeekIn(BlockAt(t, index.value[1]), key))
find(t, bad, key, filtered) ==
    IF ~HasIndex(t, bad) THEN Unreadable
    ELSE FindFrom(t, bad, key, filtered, IndexSeek(t, key))

\* Reader.OffsetOf, -1 for an error
OffsetFrom(t, bad, index) ==
    IF OnEntry(index) THEN index.value[1] ELSE NewReader(t, bad).dataEnd
OffsetOf(t, bad, key) ==
    IF ~HasIndex(t, bad) THEN -1 ELSE OffsetFrom(t, bad, IndexSeek(t, key))

=============================================================================

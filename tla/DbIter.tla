------------------------------- MODULE DbIter -------------------------------
(***************************************************************************)
(* Iterators over a goleveldb database: db_iter.go, the array, indexed and *)
(* merged iterators of iterator/, the index over the tables of a level     *)
(* (table.go, version.go), over the memory tables of MemDb and the sorted  *)
(* tables of TableFormat.  A writer puts newer versions into the live      *)
(* memory table between the calls on the iterator.                         *)
(*                                                                         *)
(* A write is [key, type]; its sequence number is its place in writes and  *)
(* its value is that number, or empty for a deletion.                      *)
(***************************************************************************)
EXTENDS Integers, MemDb, TableFormat

CONSTANTS
    UserKeys,     \* the keys written and sought
    Histories,    \* the writes made before, each a sequence of writes
    Layouts,      \* how far writes have come: see Init
    Cuts,         \* where compaction cut level 1
    Slices,       \* the ranges asked for, the ends being <<>> or <<key>>
    Snapshots,    \* the sequence numbers iterators are made at
    NewWrites,    \* the writes made under an iterator
    MaxWrites,    \* bound on the number of writes
    Damage,       \* BOOLEAN: whether a block may be unreadable
    Strictness    \* whether reads may be strict, lenient or either

VARIABLES
    writes,    \* all writes so far
    mems,      \* the live and the frozen memory table
    tables,    \* the tables: level 0 oldest first, then level 1 by keys
    bad,       \* the blocks that cannot be read: <<table, offset>>
    strict,    \* StrictReader
    iter,      \* the iterator
    view,      \* history: what it should show, settled when it was made
    call,      \* the last call on it
    answer     \* the last answer of find and OffsetOf on a table

vars == <<writes, mems, tables, bad, strict, iter, view, call, answer>>

-----------------------------------------------------------------------------
\* The database the iterator is made on.

ValueOf(w, n) == IF w[n].type = keyTypeVal THEN <<n>> ELSE <<>>

PairOf(w, n) == [key |-> makeInternalKey(w[n].key, n, w[n].type), value |-> ValueOf(w, n)]

\* The writes numbered in S as pairs in the order of a table.
Sorted(w, S) == SetToSortSeq({PairOf(w, n) : n \in S}, LAMBDA p, q : iLess(p.key, q.key))

\* A memory table of the writes in S; the heights of its nodes vary.
MemOf(w, S) ==
    FoldLeft(LAMBDA m, n : MemPut(m, PairOf(w, n).key, PairOf(w, n).value, (n % MaxHeight) + 1),
             NewMem, SetToSortSeq(S, <))

\* tFile with the pairs its table was made of.
TFile(level, pairs) ==
    [level |-> level, pairs |-> pairs, file |-> TableOf(pairs),
     imin |-> Head(pairs).key, imax |-> Last(pairs).key]

\* The tables of a level: one for each set of writes that is not empty.
TablesOf(level, w, sets) ==
    LET full == SelectSeq(sets, LAMBDA S : S # {})
    IN  [j \in DOMAIN full |-> TFile(level, Sorted(w, full[j]))]

\* A compaction cuts its output between two user keys.
Below(w, S, k) == {n \in S : uLess(w[n].key, k)}

NoIter == [dir |-> "none"]

Offsets(file) == {x.offset : x \in ToSet(file.blocks)}

\* The data blocks of a table
DataBlocks(t) ==
    SelectSeq(tables[t].file.blocks,
              LAMBDA x : x.offset < NewReader(tables[t].file, {}).dataEnd)

BadIn(t) == {x[2] : x \in {y \in bad : y[1] = t}}

\* layout cuts the writes in five: up to layout[1] in level 1, then two
\* flushes in level 0, then the frozen and the live memory table.
Init ==
    /\ \E w \in Histories, layout \in Layouts, cut \in Cuts :
        LET Part(j) == {n \in DOMAIN w :
                            /\ j > 1 => n > layout[j - 1]
                            /\ j < 5 => n <= layout[j]}
        IN  /\ writes = w
            /\ mems = <<MemOf(w, Part(5)), MemOf(w, Part(4))>>
            /\ tables = TablesOf(0, w, <<Part(2), Part(3)>>)
                        \o TablesOf(1, w, <<Below(w, Part(1), cut),
                                            Part(1) \ Below(w, Part(1), cut)>>)
    /\ bad \in {{}} \cup (IF Damage
                          THEN UNION {{{<<t, o>>} : o \in {Footer} \cup Offsets(tables[t].file)} :
                                      t \in DOMAIN tables}
                          ELSE {})
    /\ strict \in Strictness
    /\ iter = NoIter
    /\ view = <<>>
    /\ call = <<"none">>
    /\ answer = [kind |-> "none"]

-----------------------------------------------------------------------------
\* Iterators by kind: memory table, block, array of tables, indexed, empty.

Nil == [kind |-> "nil", err |-> ""]

\* iterator.NewEmptyIterator
Empty(err) == [kind |-> "empty", err |-> err]

ArrayIter(ts, range) == [kind |-> "array", tables |-> ts, slice |-> range, pos |-> -1, err |-> ""]

IndexedIter(index, table, range) ==
    [kind |-> "indexed", index |-> index, table |-> table, slice |-> range,
     data |-> Nil, err |-> ""]

RECURSIVE Valid(_)
Valid(i) ==
    CASE i.kind = "mem"     -> MemValid(i)
      [] i.kind = "block"   -> OnEntry(i)
      [] i.kind = "array"   -> i.pos \in 0 .. Len(i.tables) - 1
      [] i.kind = "indexed" -> i.data # Nil /\ Valid(i.data)
      [] OTHER              -> FALSE

RECURSIVE KeyOf(_)
KeyOf(i) == IF i.kind = "indexed" THEN KeyOf(i.data) ELSE i.key

RECURSIVE ValOf(_)
ValOf(i) == IF i.kind = "indexed" THEN ValOf(i.data) ELSE i.value

\* indexedIterator.Error also reports an error of the index.
ErrOf(i) ==
    IF i.kind = "indexed" /\ i.err = "" THEN i.index.err ELSE i.err

\* dataErr and iterErr: a corrupted input is passed over unless strict.
Halts(i) == ErrOf(i) # "" /\ (strict \/ ErrOf(i) # "corrupted")

BlockOf(ref) == BlockAt(tables[ref[1]].file, ref[2])

\* tOps.newIterator with Reader.NewIterator
IndexIter(ref, range) ==
    IndexedIter(newBlockIter(ref, BlockOf(ref), range, TRUE), ref[1], range)
TableIter(t, range) ==
    IF ~HasIndex(tables[t].file, BadIn(t)) THEN Empty("corrupted")
    ELSE IndexIter(<<t, tables[t].file.indexBH>>, range)

\* indexIter.Get: only the first and the last block of a range are cut.
BlockIter(ref, range) ==
    IF ref \in bad THEN Empty("corrupted")
    ELSE newBlockIter(ref, BlockOf(ref), range, FALSE)
GetBlock(i) ==
    BlockIter(<<i.table, i.index.value[1]>>,
              IF AtFirst(i.index) \/ AtLast(i.index) THEN i.slice ELSE WholeRange)

\* tFilesArrayIndexer.Get: the same for the tables of a level.
GetTable(a) ==
    TableIter(a.tables[a.pos + 1],
              IF a.pos \in {0, Len(a.tables) - 1} THEN a.slice ELSE WholeRange)

\* setData
WithData(i) ==
    [i EXCEPT !.data = IF i.index.kind = "array" THEN GetTable(i.index) ELSE GetBlock(i)]

\* tFiles.searchMax and searchMin over the tables ts
searchMax(ts, key) == Search(Len(ts), LAMBDA j : ~iLess(tables[ts[j + 1]].imax, key))

searchMin(ts, key) == Search(Len(ts), LAMBDA j : ~iLess(tables[ts[j + 1]].imin, key))

\* basicArrayIterator
ArrayMove(op, i, key) ==
    LET n == Len(i.tables)
    IN  [i EXCEPT !.pos =
            CASE op = "first" -> IF n = 0 THEN -1 ELSE 0
              [] op = "last"  -> IF n = 0 THEN 0 ELSE n - 1
              [] op = "seek"  -> IF n = 0 THEN 0 ELSE searchMax(i.tables, key)
              [] op = "next"  -> Min({@ + 1, n})
              [] op = "prev"  -> Max({@ - 1, -1})]

MemMove(op, m, i, key) ==
    CASE op = "first" -> MemFirst(m, i)
      [] op = "last"  -> MemLast(m, i)
      [] op = "seek"  -> MemSeek(m, i, key)
      [] op = "next"  -> MemNext(m, i)
      [] op = "prev"  -> MemPrev(m, i)

BlockMove(op, b, i, key) ==
    CASE op = "first" -> BlockFirst(b, i)
      [] op = "last"  -> BlockLast(b, i)
      [] op = "seek"  -> BlockSeek(b, i, key)
      [] op = "next"  -> BlockNext(b, i)
      [] op = "prev"  -> BlockPrev(b, i)

\* A call on any iterator; the code's result is whether it is valid then.
RECURSIVE Move(_, _, _)

\* indexedIterator: First, Last, Next and Prev place the index as they would
\* place the data, and then ask the data it leads to; Seek goes on like Next.
InData(op) == CASE op = "seek" -> "seek" [] op \in {"last", "prev"} -> "last" [] OTHER -> "next"
Onward(op) == IF op \in {"last", "prev"} THEN "prev" ELSE "next"

\* After the data moved to d, and after the index moved to x: data that has no
\* more is left for the next, unless its error halts.
RECURSIVE AfterIndex(_, _, _, _)
AfterData(op, i, d, key) ==
    CASE Valid(d) -> [i EXCEPT !.data = d]
      [] ~Valid(d) /\ Halts(d) -> [i EXCEPT !.data = d, !.err = ErrOf(d)]
      [] OTHER -> AfterIndex(op, i, Move(op, i.index, key), key)
Enter(op, i, key) == AfterData(Onward(op), i, Move(InData(op), i.data, key), NilKey)
AfterIndex(op, i, x, key) ==
    IF Valid(x) THEN Enter(op, WithData([i EXCEPT !.index = x]), key)
    ELSE [i EXCEPT !.index = x, !.data = Nil, !.err = ErrOf(x)]

\* Only Next and Prev begin with the data at hand.
IndexedMove(op, i, key) ==
    IF i.err # "" THEN i
    ELSE AfterData(op, i, IF op \in {"next", "prev"} THEN Move(op, i.data, NilKey) ELSE Nil, key)

Move(op, i, key) ==
    CASE i.kind = "mem"     -> MemMove(op, mems[i.layer], i, key)
      [] i.kind = "block"   -> BlockMove(op, BlockOf(i.ref), i, key)
      [] i.kind = "array"   -> ArrayMove(op, i, key)
      [] i.kind = "indexed" -> IndexedMove(op, i, key)
      [] OTHER -> i

-----------------------------------------------------------------------------
\* mergedIterator: the inputs, the key of each (NilKey when it has none), the
\* input that has the current key.  After an error only Error is asked.

MergedIter(its) ==
    [iters |-> its, keys |-> [x \in DOMAIN its |-> NilKey], index |-> 1,
     dir |-> "soi", err |-> ""]

MergedValid(r) == r.err = "" /\ r.dir \in {"forward", "backward"}

\* The inputs after a call, with their keys; an error of one halts.
Moved(r, its) ==
    LET halted == {x \in DOMAIN its : ~Valid(its[x]) /\ Halts(its[x])}
    IN  [r EXCEPT !.iters = its,
                  !.keys = [x \in DOMAIN its |-> IF Valid(its[x]) THEN KeyOf(its[x]) ELSE NilKey],
                  !.err = IF halted = {} THEN "" ELSE ErrOf(its[Min(halted)])]

Live(r) == {x \in DOMAIN r.keys : r.keys[x] # NilKey}

\* mergedIterator.next and prev: the least, or the greatest, of the keys.
Least(r) ==
    CASE r.err # "" -> r
      [] r.err = "" /\ Live(r) = {} -> [r EXCEPT !.dir = "eoi"]
      [] OTHER -> [r EXCEPT !.dir = "forward",
                            !.index = CHOOSE x \in Live(r) : \A y \in Live(r) :
                                          ~iLess(r.keys[y], r.keys[x])]

Greatest(r) ==
    CASE r.err # "" -> r
      [] r.err = "" /\ Live(r) = {} -> [r EXCEPT !.dir = "soi"]
      [] OTHER -> [r EXCEPT !.dir = "backward",
                            !.index = CHOOSE x \in Live(r) : \A y \in Live(r) :
                                          ~iLess(r.keys[x], r.keys[y])]

All(op, r, key) == Moved(r, [x \in DOMAIN r.iters |-> Move(op, r.iters[x], key)])

One(op, r) == Moved(r, [r.iters EXCEPT ![r.index] = Move(op, @, NilKey)])

\* mergedIterator.First, Last and Seek
Selected(op, r) == IF op = "last" THEN Greatest(r) ELSE Least(r)
MergedPlace(op, r, key) == IF r.err # "" THEN r ELSE Selected(op, All(op, r, key))

\* mergedIterator.Next.  A change of direction finds the current key again.
RECURSIVE MergedNext(_)
NextOnward(dir, r) == IF dir = "backward" /\ MergedValid(r) THEN MergedNext(r) ELSE r
MergedNext(r) ==
    CASE r.dir = "eoi" \/ r.err # "" -> r
      [] r.dir \in {"soi", "backward"} /\ r.err = "" ->
             NextOnward(r.dir, MergedPlace(IF r.dir = "soi" THEN "first" ELSE "seek", r,
                                           r.keys[r.index]))
      [] OTHER -> Least(One("next", r))

\* A mutated form of TurnedBack: an input without a key from the current one
\* on is not sent to its last key.
TurnedBackShort(s) == IF Valid(s) THEN Move("prev", s, NilKey) ELSE s

\* Before the key that was sought: the last key of the input below it.
TurnedBack(s) == Move(IF Valid(s) THEN "prev" ELSE "last", s, NilKey)

\* The other inputs are placed at their last key below the current one.
BeforeCurrent(r) ==
    Moved(r, [x \in DOMAIN r.iters |->
                 IF x = r.index THEN r.iters[x]
                 ELSE TurnedBack(Move("seek", r.iters[x], r.keys[r.index]))])

\* mergedIterator.Prev
PrevOfInput(r) == IF r.err # "" THEN r ELSE Greatest(One("prev", r))
MergedPrev(r) ==
    CASE r.dir = "soi" \/ r.err # "" -> r
      [] r.dir = "eoi" /\ r.err = "" -> MergedPlace("last", r, NilKey)
      [] OTHER -> PrevOfInput(IF r.dir = "forward" THEN BeforeCurrent(r) ELSE r)

-----------------------------------------------------------------------------
\* dbIter: the newest version up to seq of each user key that is no deletion.

RawKey(i) == i.raw.keys[i.raw.index]

RawValue(i) == ValOf(i.raw.iters[i.raw.index])

\* A mutated form of Ended: the error of the raw iterator is forgotten.
EndedQuietly(i, dir) == [i EXCEPT !.dir = dir]

\* iterErr with the direction dir
Ended(i, dir) == [i EXCEPT !.dir = dir, !.err = i.raw.err]

Seen(i) == seqOf(RawKey(i)) <= i.seq

OnKey(i) == [i EXCEPT !.key = ukeyOf(RawKey(i)), !.value = RawValue(i)]

\* dbIter.next, with the raw iterator on a key, and after it moved on.  A
\* deletion hides the older versions of its key.
RECURSIVE dbNext(_)
Hidden(i) ==
    IF Seen(i) /\ typeOf(RawKey(i)) = keyTypeDel
    THEN [i EXCEPT !.key = ukeyOf(RawKey(i)), !.dir = "forward"] ELSE i
Forward(i) == IF MergedValid(i.raw) THEN dbNext(i) ELSE Ended(i, "eoi")
dbNext(i) ==
    IF /\ Seen(i)
       /\ typeOf(RawKey(i)) = keyTypeVal
       /\ i.dir = "soi" \/ uLess(i.key, ukeyOf(RawKey(i)))
    THEN [OnKey(i) EXCEPT !.dir = "forward"]
    ELSE Forward([Hidden(i) EXCEPT !.raw = MergedNext(@)])

\* dbIter.prev: the versions of a key are met oldest first; del says that no
\* value is at hand.
RECURSIVE prevFrom(_, _)
PrevOn(i, del) ==
    IF MergedValid(i.raw) THEN prevFrom(i, del)
    ELSE IF del THEN Ended(i, "soi") ELSE i
prevFrom(i, del) ==
    IF Seen(i) /\ ~del /\ uLess(ukeyOf(RawKey(i)), i.key) THEN i
    ELSE PrevOn([(IF Seen(i) /\ typeOf(RawKey(i)) # keyTypeDel THEN OnKey(i) ELSE i)
                     EXCEPT !.raw = MergedPrev(@)],
                IF Seen(i) THEN typeOf(RawKey(i)) = keyTypeDel ELSE del)

dbPrev(i) ==
    IF MergedValid(i.raw) THEN prevFrom([i EXCEPT !.dir = "backward"], TRUE)
    ELSE Ended(i, "soi")

\* dbIter.First and Seek
FromRaw(i) == Forward(IF MergedValid(i.raw) THEN [i EXCEPT !.dir = "soi"] ELSE i)
dbPlace(op, i, ikey) == FromRaw([i EXCEPT !.raw = MergedPlace(op, @, ikey)])

\* dbIter.Next: going backward the raw iterator stands before the key, and
\* has to move twice.
Twice(dir, r) == IF dir = "backward" /\ MergedValid(r) THEN MergedNext(r) ELSE r
dbForward(i) ==
    IF i.dir = "eoi" THEN i ELSE Forward([i EXCEPT !.raw = Twice(i.dir, MergedNext(@))])

\* The loop of dbIter.Prev going forward: back to a smaller user key.
RECURSIVE BeforeKey(_)
BeforeOr(i) ==
    IF MergedValid(i.raw) /\ ~uLess(ukeyOf(RawKey(i)), i.key) THEN BeforeKey(i) ELSE i
BeforeKey(i) == BeforeOr([i EXCEPT !.raw = MergedPrev(@)])

\* dbIter.Last, and Prev, which is Last at the end.
dbBack(op, i) ==
    IF op = "prev" /\ i.dir = "soi" THEN i
    ELSE dbPrev(CASE op = "last" \/ i.dir = "eoi" ->
                         [i EXCEPT !.raw = MergedPlace("last", @, NilKey)]
                  [] op = "prev" /\ i.dir = "forward" -> BeforeKey(i)
                  [] OTHER -> i)

-----------------------------------------------------------------------------
\* The pairs of a table that are in blocks that can be read.
EntriesOf(blocks) == FoldLeft(LAMBDA s, y : s + Len(y.block.entries), 0, blocks)

PairsOf(t, blocks) ==
    UNION {{tables[t].pairs[EntriesOf(SubSeq(blocks, 1, b - 1)) + j] :
               j \in 1 .. Len(blocks[b].block.entries)} :
           b \in {c \in DOMAIN blocks : <<t, blocks[c].offset>> \notin bad}}

Readable(t) == IF HasIndex(tables[t].file, BadIn(t)) THEN PairsOf(t, DataBlocks(t)) ELSE {}

\* A strict reader answers for all of them, a lenient one for what it can read.
Stored ==
    UNION {IF strict THEN ToSet(tables[t].pairs) ELSE Readable(t) : t \in DOMAIN tables}
    \cup {[key |-> mems[l].key[n], value |-> mems[l].value[n]] :
             <<l, n>> \in {y \in (1 .. 2) \X (1 .. MaxWrites) : y[2] \in DOMAIN mems[y[1]].key}}

\* What an iterator made at seq for a range should show: the newest versions
\* up to seq, deletions left out.
NewestOf(seen) ==
    {p \in seen : \A q \in seen : ukeyOf(q.key) = ukeyOf(p.key) => seqOf(q.key) <= seqOf(p.key)}
Shown(p, range) ==
    /\ typeOf(p.key) = keyTypeVal
    /\ range.start # <<>> => uLeq(range.start[1], ukeyOf(p.key))
    /\ range.limit # <<>> => uLess(ukeyOf(p.key), range.limit[1])
ViewAt(seq, range) ==
    SetToSortSeq({[key |-> ukeyOf(p.key), value |-> p.value] :
                     p \in {q \in NewestOf({x \in Stored : seqOf(x.key) <= seq}) : Shown(q, range)}},
                 LAMBDA p, q : uLess(p.key, q.key))

-----------------------------------------------------------------------------
\* Calls.

\* DB.newIterator: an end of the range is the first version of its key.
EndKey(end) == IF end = <<>> THEN NilKey ELSE makeInternalKey(end[1], KeyMaxSeq, keyTypeSeek)

\* tFiles.newIndexIterator: the tables that may have keys of the range.
LevelIter(ts, range) ==
    LET from  == IF range.start = NilKey THEN 0 ELSE searchMax(ts, range.start)
        limit == IF range.limit = NilKey THEN Len(ts) ELSE searchMin(ts, range.limit)
    IN  IndexedIter(ArrayIter(SubSeq(ts, from + 1, limit), range), 0, range)

OfLevel(level) == SelectSeq([t \in DOMAIN tables |-> t], LAMBDA t : tables[t].level = level)

\* DB.newRawIterator with version.getIterators
newRawIterator(range) ==
    MergedIter(<<MemIter(1, range), MemIter(2, range)>>
               \o [j \in DOMAIN OfLevel(0) |-> TableIter(OfLevel(0)[j], range)]
               \o (IF OfLevel(1) = <<>> THEN <<>> ELSE <<LevelIter(OfLevel(1), range)>>))

\* DB.NewIterator, or that of a snapshot taken at seq
NewIterator ==
    /\ iter = NoIter /\ answer.kind = "none"
    /\ \E s \in Slices, seq \in Snapshots :
        /\ view' = ViewAt(seq, s)
        /\ iter' = [raw |-> newRawIterator([start |-> EndKey(s.start), limit |-> EndKey(s.limit)]),
                    seq |-> seq, dir |-> "soi", key |-> <<>>, value |-> <<>>, err |-> ""]
    /\ call' = <<"new">>
    /\ UNCHANGED <<writes, mems, tables, bad, strict, answer>>

\* A call on the iterator.  One that failed stays as it is; one that was
\* released fails.
Call(name, moved) ==
    /\ iter # NoIter
    /\ call' = name
    /\ iter' = CASE iter.err # "" -> iter
                 [] iter.err = "" /\ iter.dir = "released" -> [iter EXCEPT !.err = "released"]
                 [] OTHER -> moved
    /\ UNCHANGED <<writes, mems, tables, bad, strict, view, answer>>

First == Call(<<"first">>, dbPlace("first", iter, NilKey))

Final == Call(<<"last">>, dbBack("last", iter))

Seek(key) ==
    Call(<<"seek", key>>, dbPlace("seek", iter, makeInternalKey(key, iter.seq, keyTypeSeek)))

Next1 == Call(<<"next">>, dbForward(iter))

Prev1 == Call(<<"prev">>, dbBack("prev", iter))

\* dbIter.Release
Release ==
    /\ iter # NoIter
    /\ iter.dir # "released"
    /\ iter' = [iter EXCEPT !.dir = "released", !.key = <<>>, !.value = <<>>, !.raw = Nil]
    /\ call' = <<"release">>
    /\ UNCHANGED <<writes, mems, tables, bad, strict, view, answer>>

\* tOps.find and offsetOf on a table, for version.get and DB.SizeOf; they change
\* nothing and share nothing with an iterator.
Find(t, key, filtered) ==
    /\ answer' = [kind |-> "find", table |-> t, key |-> key, filtered |-> filtered,
                  found |-> find(tables[t].file, BadIn(t), key, filtered)]
    /\ UNCHANGED <<writes, mems, tables, bad, strict, iter, view, call>>

\* DB.Find of a memory table, for memGet
FindInMem(l, key) ==
    /\ answer' = [kind |-> "mem", mem |-> l, key |-> key, seq |-> Len(writes),
                  found |-> MemFind(mems[l], key)]
    /\ UNCHANGED <<writes, mems, tables, bad, strict, iter, view, call>>

Offset(t, key) ==
    /\ answer' = [kind |-> "offset", table |-> t, key |-> key,
                  offset |-> OffsetOf(tables[t].file, BadIn(t), key)]
    /\ UNCHANGED <<writes, mems, tables, bad, strict, iter, view, call>>

\* A writer puts a newer version into the live memory table.
Insert(write, h) ==
    /\ Len(writes) < MaxWrites
    /\ writes' = Append(writes, write)
    /\ LET p == PairOf(writes', Len(writes'))
       IN  mems' = [mems EXCEPT ![1] = MemPut(@, p.key, p.value, h)]
    /\ UNCHANGED <<tables, bad, strict, iter, view, call, answer>>

SoughtKeys == {makeInternalKey(k, s, keyTypeSeek) : k \in UserKeys, s \in 1 .. Len(writes) + 1}

\* One question is asked, before there is an iterator.
Question ==
    /\ iter = NoIter /\ answer.kind = "none"
    /\ \/ \E t \in DOMAIN tables, k \in SoughtKeys, f \in BOOLEAN : Find(t, k, f)
       \/ \E t \in DOMAIN tables, k \in SoughtKeys : Offset(t, k)
       \/ \E l \in 1 .. 2, k \in SoughtKeys : FindInMem(l, k)

Next ==
    \/ NewIterator \/ First \/ Final \/ Next1 \/ Prev1 \/ Release
    \/ \E k \in UserKeys : Seek(k)
    \/ Question
    \/ \E w \in NewWrites, h \in 1 .. MaxHeight : Insert(w, h)

Spec == Init /\ [][Next]_vars

-----------------------------------------------------------------------------
\* Properties.

Position ==
    CASE iter = NoIter -> -3
      [] iter # NoIter /\ iter.dir = "released" -> -2
      [] iter # NoIter /\ iter.dir # "released" /\ iter.err # "" -> -1
      [] iter # NoIter /\ iter.dir # "released" /\ iter.err = "" /\ iter.raw.err # "" -> -4
      [] OTHER ->
            CASE iter.dir = "soi" -> 0
              [] iter.dir = "eoi" -> Len(view) + 1
              [] OTHER -> Min({n \in DOMAIN view : view[n] = [key |-> iter.key, value |-> iter.value]}
                              \cup {Len(view) + 2})

C == INSTANCE Cursor WITH
        view <- view, call <- call, pos <- Position, damaged <- (strict /\ bad # {})

\* An iterator is a cursor over the newest versions that were visible when it
\* was made, inside its range, in whatever tables, blocks and memory tables
\* they lie, through every change of direction, with newer versions being
\* written under it.  A lenient reader is one over what can be read.  A strict
\* one never shows a list with a gap: an error of the inputs ends it, at once
\* in First, Seek and Next, and in Last and Prev at the latest with the call
\* after.  The pair shown in between may be an older version, or one of a
\* deleted key: dbIter.prev drops the error when it has a value.
ImplementsCursor == C!Spec

\* find gives the first entry not below the key.  With a filter that can be
\* read it may give nothing, but not when there is a version of that user key
\* that is not newer; it fails only when a block other than the filters is bad.
FindExact ==
    answer.kind = "find" =>
        LET t      == answer.table
            above  == SelectSeq(tables[t].pairs, LAMBDA p : ~iLess(p.key, answer.key))
            wanted == IF above = <<>> THEN NotFound
                      ELSE [key |-> Head(above).key, value |-> Head(above).value, err |-> ""]
            filter == NewReader(tables[t].file, {}).filterBH
        IN  \/ answer.found = wanted
            \/ /\ answer.filtered
               /\ filter \notin BadIn(t)
               /\ answer.found = NotFound
               /\ ukeyOf(wanted.key) # ukeyOf(answer.key)
            \/ answer.found = Unreadable /\ BadIn(t) \ {filter} # {}

\* DB.Find of a memory table gives the first of its entries not below the
\* key, in whatever order and at whatever heights they were put there.
MemFindExact ==
    answer.kind = "mem" =>
        LET then == {p \in {[key |-> k, value |-> ValueOf(writes, seqOf(k)), err |-> ""] :
                                k \in ToSet(mems[answer.mem].key)} :
                        seqOf(p.key) <= answer.seq /\ ~iLess(p.key, answer.key)}
        IN  IF then = {} THEN answer.found = NotFound
            ELSE answer.found \in then /\ \A p \in then : ~iLess(p.key, answer.found.key)

\* OffsetOf gives a block before which all entries are smaller and after which
\* all are greater, and fails only when the table cannot be opened.
OffsetExact ==
    answer.kind = "offset" =>
        LET t      == answer.table
            blocks == DataBlocks(t)
            pairs  == tables[t].pairs
        IN  IF answer.offset = -1
            THEN BadIn(t) \cap {Footer, tables[t].file.metaBH, tables[t].file.indexBH} # {}
            ELSE \A b \in DOMAIN blocks :
                    /\ answer.offset > blocks[b].offset =>
                           iLess(pairs[EntriesOf(SubSeq(blocks, 1, b))].key, answer.key)
                    /\ answer.offset < blocks[b].offset =>
                           iLess(answer.key, pairs[EntriesOf(SubSeq(blocks, 1, b - 1)) + 1].key)

\* What a table, on disk or in memory, answers to find and OffsetOf is exact
\* whatever blocks, restart points, shortened index keys, filters and levels
\* of the skip list its entries came to lie in.
LookupsExact == FindExact /\ MemFindExact /\ OffsetExact

=============================================================================

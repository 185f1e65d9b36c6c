------------------------------- MODULE Levels -------------------------------
(***************************************************************************)
(* The sorted tables of a goleveldb database and the levels they are kept  *)
(* in (leveldb/table.go, version.go, session_compaction.go, and the        *)
(* builder of db_compaction.go).                                           *)
(*                                                                         *)
(* An entry is what an internal key and its value hold: the user key (a    *)
(* number, so that keys have an order), the sequence number, the kind and  *)
(* the value.  A table is named by its file number; tFile is what a        *)
(* version knows of it.  Level l of a version is levels[l + 1].  The size  *)
(* of a table is the number of its entries.                                *)
(*                                                                         *)
(* A nil bound of a key range is the number NoMin or NoMax.                *)
(***************************************************************************)
EXTENDS Integers, Sequences, FiniteSets, FiniteSetsExt, SequencesExt

CONSTANTS
    L0Trigger,      \* CompactionL0Trigger: tables that level 0 may hold
    TotalSize,      \* TotalSize[l]: CompactionTotalSize of level l > 0
    TableSize,      \* CompactionTableSize: entries that fill a table
    GPOverlaps,     \* CompactionGPOverlaps
    ExpandLimit,    \* CompactionExpandLimit
    SourceLimit     \* CompactionSourceLimit

ASSUME LevelsAssumption ==
    /\ {L0Trigger, TableSize, SourceLimit} \subseteq Nat \ {0}
    /\ {GPOverlaps, ExpandLimit} \subseteq Nat
    /\ DOMAIN TotalSize \subseteq Nat
    /\ \A l \in DOMAIN TotalSize : TotalSize[l] \in Nat \ {0}

NoMin == -1
NoMax == 1000
MaxSeqNum == 1000

-----------------------------------------------------------------------------
(* Keys. *)

Entry(k, s, kt, v) == [key |-> k, seq |-> s, kt |-> kt, val |-> v]

\* The order of internal keys: user keys ascending, for one user key the
\* newest entry first.
Less(a, b) == a.key < b.key \/ (a.key = b.key /\ a.seq > b.seq)
AtMost(a, b) == ~Less(b, a)

SeekKey(k, s) == [key |-> k, seq |-> s]

\* A finite set as a sequence in the order given.
Sorted(S, before(_, _)) ==
    [i \in 1 .. Cardinality(S) |->
        CHOOSE x \in S : Cardinality({y \in S : before(y, x)}) = i - 1]

InOrder(E) == Sorted(E, Less)

\* The value that the newest of the entries E visible at s gives key k; 0
\* when there is none or when it is a deletion.
Newest(E, k, s) ==
    LET F == {e \in E : e.key = k /\ e.seq <= s}
    IN  IF F = {} THEN 0
        ELSE LET e == CHOOSE x \in F : \A y \in F : y.seq <= x.seq
             IN  IF e.kt = "del" THEN 0 ELSE e.val

-----------------------------------------------------------------------------
(* Tables. *)

newTableFile(n, E) ==
    [num |-> n, size |-> Cardinality(E),
     imin |-> LET e == InOrder(E)[1] IN SeekKey(e.key, e.seq),
     imax |-> LET e == InOrder(E)[Cardinality(E)] IN SeekKey(e.key, e.seq)]

after(t, k) == k > t.imax.key
before(t, k) == k < t.imin.key
overlaps(t, lo, hi) == ~after(t, lo) /\ ~before(t, hi)

lessByKey(a, b) == Less(a.imin, b.imin) \/ (a.imin = b.imin /\ a.num < b.num)
lessByNum(a, b) == a.num > b.num
sortByKey(T) == Sorted(T, lessByKey)
sortByNum(T) == Sorted(T, lessByNum)

size(tf) == MapThenSumSet(LAMBDA i : tf[i].size, DOMAIN tf)

\* The first position whose table ends at ik or after it; Len(tf) + 1 if there
\* is none.
searchMax(tf, ik) ==
    Min({i \in DOMAIN tf : AtMost(ik, tf[i].imax)} \cup {Len(tf) + 1})

\* tFiles.overlaps: a scan of level 0, a search in the sorted levels.
anyOverlap(tf, lo, hi, unsorted) ==
    IF unsorted THEN \E i \in DOMAIN tf : overlaps(tf[i], lo, hi)
    ELSE LET i == IF lo = NoMin THEN 1
                  ELSE searchMax(tf, SeekKey(lo, MaxSeqNum))
         IN  i <= Len(tf) /\ ~before(tf[i], hi)

\* tFiles.getOverlaps: the range grows to the user keys of every table it
\* touches, until no table changes it; a nil bound stays nil.  (The code
\* restarts its scan when the lower bound moves, and on level 0 also when
\* the upper one does; in the sorted levels a table that the moved upper
\* bound touches is still ahead of the scan.)
Widen(tf, r) ==
    LET hit == {i \in DOMAIN tf : overlaps(tf[i], r.lo, r.hi)}
    IN  [lo |-> Min({r.lo} \cup {tf[i].imin.key : i \in hit}),
         hi |-> Max({r.hi} \cup {tf[i].imax.key : i \in hit})]

getOverlaps(tf, lo, hi) ==
    LET R[n \in 0 .. Len(tf)] ==
            IF n = 0 THEN [lo |-> lo, hi |-> hi] ELSE Widen(tf, R[n - 1])
        r == R[Len(tf)]
        In(t) == overlaps(t, r.lo, r.hi)
    IN  SelectSeq(tf, In)

\* The least and the greatest internal key of a non-empty list of tables.
getRange(tf) ==
    [imin |-> CHOOSE a \in {tf[i].imin : i \in DOMAIN tf} :
                  \A j \in DOMAIN tf : AtMost(a, tf[j].imin),
     imax |-> CHOOSE a \in {tf[i].imax : i \in DOMAIN tf} :
                  \A j \in DOMAIN tf : AtMost(tf[j].imax, a)]

-----------------------------------------------------------------------------
(* Versions. *)

Level(levels, l) == IF l < Len(levels) THEN levels[l + 1] ELSE <<>>
tLen(levels, l) == Len(Level(levels, l))
FilesOf(levels) == UNION {{levels[i][j].num : j \in DOMAIN levels[i]} :
                             i \in DOMAIN levels}

\* walkOverlapping: the tables of level l that may hold the user key.
Candidates(levels, l, ik) ==
    LET tf == Level(levels, l)
        In(t) == overlaps(t, ik.key, ik.key)
        i == searchMax(tf, ik)
    IN  IF l = 0 THEN SelectSeq(tf, In)
        ELSE IF i <= Len(tf) /\ ik.key >= tf[i].imin.key THEN <<tf[i]>> ELSE <<>>

\* tOps.find: the first entry of a table at ik or after it, if it is one for
\* the same user key.
Find(E, ik) ==
    LET F == {e \in E : AtMost(ik, e)}
        G == {e \in F : \A x \in F : AtMost(e, x)}
    IN  {e \in G : e.key = ik.key}

\* version.get: of the tables of a transaction, aux, and then of level 0 the
\* newest of all entries found, below it the entry of the first level that
\* has one.  read gives the entries of a table.
versionGet(aux, levels, read, ik) ==
    LET Found(tf) == UNION {Find(read[tf[i].num], ik) : i \in DOMAIN tf}
        Aux == LET In(t) == overlaps(t, ik.key, ik.key)
               IN  Found(SelectSeq(aux, In))
        At(l) == Found(Candidates(levels, l, ik))
        hit == {l \in 0 .. Len(levels) - 1 : At(l) /= {}}
    IN  IF Aux /= {} THEN Newest(Aux, ik.key, ik.seq)
        ELSE IF hit = {} THEN 0
        ELSE Newest(At(Min(hit)), ik.key, ik.seq)

\* The tables that a lookup of key k at s may have to open, in this order.
Walk(levels, ik) ==
    FlattenSeq([i \in 1 .. Len(levels) |->
        LET tf == Candidates(levels, i - 1, ik)
        IN  [j \in DOMAIN tf |-> <<i - 1, tf[j]>>]])

\* version.get, version.sampleSeek: once a table has been opened in vain
\* often enough, it becomes cSeek.  seekLeft is abstracted: any table that
\* is opened first and does not end the lookup may have used up its seeks.
SeekTables(levels, Keys, Seqs) ==
    {Walk(levels, SeekKey(k, s))[1] :
        <<k, s>> \in {x \in Keys \X Seqs :
                         Len(Walk(levels, SeekKey(x[1], x[2]))) > 1}}

\* versionStaging: the tables that records add and delete, per level; a
\* later record overrides an earlier one.
NoScratch == [added |-> {}, deleted |-> {}]

stagingCommit(base, scratch, rec) ==
    LET gone == {<<d[1], d[2]>> : d \in rec.deleted}
        kept == {a \in scratch.added : <<a[1], a[2].num>> \notin gone}
        new == {<<a[1], a[2].num>> : a \in rec.added}
        del == {d \in gone : tLen(base, d[1]) > 0}
    IN  [added |-> {a \in kept : <<a[1], a[2].num>> \notin new} \cup rec.added,
         deleted |-> (scratch.deleted \cup del) \ new]

stagingFinish(base, scratch) ==
    LET touched == {a[1] : a \in scratch.added} \cup {d[1] : d \in scratch.deleted}
        n == Max({Len(base)} \cup {l + 1 : l \in touched})
        added(l) == {a[2] : a \in {x \in scratch.added : x[1] = l}}
        kept(l) == {t \in ToSet(Level(base, l)) :
                      /\ <<l, t.num>> \notin scratch.deleted
                      /\ \A a \in added(l) : a.num /= t.num}
        tables(l) == kept(l) \cup added(l)
        all == [i \in 1 .. n |->
                   IF i = 1 THEN sortByNum(tables(0)) ELSE sortByKey(tables(i - 1))]
        used == Max({0} \cup {i \in 1 .. n : all[i] /= <<>>})
    IN  SubSeq(all, 1, used)

spawn(levels, rec) == stagingFinish(levels, stagingCommit(levels, NoScratch, rec))

\* version.pickMemdbLevel: the deepest level, up to maxLevel, that a new
\* table may go to without passing a table of the same keys.
pickMemdbLevel(levels, lo, hi, maxLevel) ==
    LET stop(l) ==
            \/ l + 1 < Len(levels) /\ anyOverlap(Level(levels, l + 1), lo, hi, FALSE)
            \/ l + 2 < Len(levels)
               /\ size(getOverlaps(Level(levels, l + 2), lo, hi)) > GPOverlaps
        past(l) == l + 1 >= Len(levels)
    IN  IF maxLevel = 0 THEN 0
        ELSE IF Len(levels) = 0 THEN maxLevel
        ELSE IF anyOverlap(Level(levels, 0), lo, hi, TRUE) THEN 0
        ELSE LET ends == {l \in 0 .. maxLevel - 1 : past(l) \/ stop(l)}
             IN  IF ends = {} THEN maxLevel
                 ELSE IF past(Min(ends)) THEN maxLevel ELSE Min(ends)

-----------------------------------------------------------------------------
(* Choosing a compaction. *)

\* version.computeCompaction: a score as a fraction; the first level of
\* those with the highest score.
Score(levels, l) ==
    IF l = 0 THEN <<tLen(levels, 0), L0Trigger>>
    ELSE <<size(Level(levels, l)), TotalSize[l]>>

cLevel(levels) ==
    LET L == 0 .. Len(levels) - 1
        AtLeast(a, b) == a[1] * b[2] >= b[1] * a[2]
    IN  Min({l \in L : \A m \in L : AtLeast(Score(levels, l), Score(levels, m))})

scoreFull(levels) ==
    /\ levels /= <<>>
    /\ LET s == Score(levels, cLevel(levels)) IN s[1] >= s[2]

\* The tables of tf in the user keys of the range r, or of the tables t.
InRange(tf, r) == getOverlaps(tf, r.imin.key, r.imax.key)
InRangeOf(tf, t) == InRange(tf, getRange(t))

Chosen(levels, l, t) ==
    [level |-> l, t0 |-> t[1], t1 |-> t[2],
     gp |-> InRangeOf(Level(levels, l + 2), t[1] \o t[2])]

\* The source tables may grow from s0 to e0 if no table of the next level
\* comes in for it.
mayGrow(s0, s1, e0, e1) ==
    /\ Len(s1) > 0
    /\ Len(e0) > Len(s0)
    /\ size(s1) + size(e0) < ExpandLimit
    /\ Len(e1) = Len(s1)
expandMore(levels, l, s0, s1, e0, e1) ==
    Chosen(levels, l, IF mayGrow(s0, s1, e0, e1) THEN <<e0, e1>> ELSE <<s0, s1>>)
expandGrown(levels, l, s0, s1, e0) ==
    expandMore(levels, l, s0, s1, e0, InRangeOf(Level(levels, l + 1), e0))
expandSource(levels, l, s0, s1) ==
    expandGrown(levels, l, s0, s1, InRangeOf(Level(levels, l), s0 \o s1))
expandNext(levels, l, s0) ==
    expandSource(levels, l, s0, InRangeOf(Level(levels, l + 1), s0))

\* Mutant: tables of the source level that overlap the chosen one stay.
expandNone(levels, l, t0) ==
    [level |-> l, t0 |-> t0,
     t1 |-> getOverlaps(Level(levels, l + 1), getRange(t0).imin.key, getRange(t0).imax.key),
     gp |-> <<>>]

\* compaction.expand: all tables of the source level that share a user key
\* with t0, the tables of the next level in their range, and as many more of
\* the source level as that allows.
expand(levels, l, t0) == expandNext(levels, l, InRangeOf(Level(levels, l), t0))

trivial(c) == Len(c.t0) = 1 /\ Len(c.t1) = 0 /\ size(c.gp) <= GPOverlaps

\* session.pickCompaction.  The compaction pointer is abstracted: any table
\* of the level may be the next one.
pickCompaction(levels, cSeek) ==
    {expand(levels, x[1], <<x[2]>>) :
        x \in IF scoreFull(levels)
              THEN {cLevel(levels)} \X ToSet(Level(levels, cLevel(levels)))
              ELSE cSeek}

\* session.getCompactionRange: empty if no table is in the range.  Below
\* level 0 the tables are cut where they reach the limit.
limitSource(tf, noLimit) ==
    SubSeq(tf, 1, Min({Len(tf)} \cup
                      {i \in DOMAIN tf : ~noLimit /\ size(SubSeq(tf, 1, i)) >= SourceLimit}))

getCompactionRange(levels, l, lo, hi, noLimit) ==
    {expand(levels, l, limitSource(tf, noLimit \/ l = 0)) :
        tf \in {getOverlaps(Level(levels, l), lo, hi)} \ {<<>>}}

\* tableRangeCompaction: the deepest level with a table in the range.
rangeDepth(levels, lo, hi) ==
    Max({1} \cup {l \in 1 .. Len(levels) - 1 :
                     anyOverlap(Level(levels, l), lo, hi, FALSE)})

-----------------------------------------------------------------------------
(* Building the tables of a compaction. *)

baseLevelForKey(levels, l, k) ==
    \A m \in l + 2 .. Len(levels) - 1 :
        \A i \in DOMAIN levels[m + 1] : ~overlaps(levels[m + 1][i], k, k)

\* compaction.shouldStopBefore: the output has passed too many grandparents.
gpStop(b, bytes) ==
    [b EXCEPT !.seenKey = TRUE, !.stop = bytes > GPOverlaps,
              !.gpBytes = IF bytes > GPOverlaps THEN 0 ELSE bytes]
gpMove(b, c, n) ==
    gpStop([b EXCEPT !.gpi = n],
           b.gpBytes + IF b.seenKey THEN size(SubSeq(c.gp, b.gpi + 1, n)) ELSE 0)
passGrandparents(b, c, e) ==
    gpMove(b, c, Max({b.gpi} \cup {i \in DOMAIN c.gp : Less(c.gp[i].imax, e)}))

\* tableCompactionBuilder.run for one entry: a table ends only between user
\* keys; an entry is dropped when a newer one of its key is visible to every
\* snapshot, a deletion also when nothing below can hold the key.
cutTable(b, e) ==
    IF /\ b.lastKey /= e.key /\ b.cur /= {}
       /\ b.stop \/ Cardinality(b.cur) >= TableSize
    THEN [b EXCEPT !.out = Append(@, b.cur), !.cur = {}]
    ELSE b
dropped(levels, c, minSeq, b, e) ==
    \/ b.lastKey = e.key /\ b.lastSeq <= minSeq
    \/ /\ e.kt = "del" /\ e.seq <= minSeq
       /\ baseLevelForKey(levels, c.level, e.key)
buildAppend(levels, c, minSeq, b, e) ==
    [b EXCEPT !.cur = IF dropped(levels, c, minSeq, b, e) THEN @ ELSE @ \cup {e},
              !.lastKey = e.key, !.lastSeq = e.seq]
buildStep(levels, c, minSeq, b, e) ==
    buildAppend(levels, c, minSeq, cutTable(passGrandparents(b, c, e), e), e)

NoTables == [out |-> <<>>, cur |-> {}, lastKey |-> NoMin, lastSeq |-> MaxSeqNum,
             gpi |-> 0, seenKey |-> FALSE, gpBytes |-> 0, stop |-> FALSE]
finished(b) == IF b.cur = {} THEN b.out ELSE Append(b.out, b.cur)

build(levels, c, minSeq, E) ==
    finished(FoldLeft(LAMBDA b, e : buildStep(levels, c, minSeq, b, e), NoTables, InOrder(E)))

=============================================================================

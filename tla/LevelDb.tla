------------------------------- MODULE LevelDb -------------------------------
(***************************************************************************)
(* A goleveldb database from its files up (leveldb/db.go, db_state.go,     *)
(* db_write.go, db_compaction.go, db_snapshot.go, db_transaction.go,       *)
(* db_util.go, session.go, session_util.go): journals, tables, manifests   *)
(* and CURRENT survive the process; the memdbs, the version and every      *)
(* goroutine do not.                                                       *)
(*                                                                         *)
(* The goroutines are one writer (the holder of the write lock), the memdb *)
(* compaction, the table compaction and one reader.  A step is one change  *)
(* of a file or of state under one of the locks memMu, vmu, snapsMu.  The  *)
(* value of a write is its number, so that every write is different.  A    *)
(* manifest is kept as the state that its records add up to, a journal as  *)
(* the batches it holds.                                                   *)
(***************************************************************************)
EXTENDS Levels, Functions

CONSTANTS
    Keys,       \* the user keys: numbers above 0
    Batches,    \* the batches clients write: sequences of <<key, "val" or "del">>
    MaxOps,     \* bound on the writes
    MaxCalls,   \* bound on the reads and range compactions
    MaxStops,   \* bound on the crashes and closes
    MemCap,     \* WriteBuffer: entries that fill a memdb
    MemdbMaxLevel,  \* memdbMaxLevel: 0, but for the library's own tests
    Transactions,   \* clients use OpenTransaction
    Allow,      \* the situations below that this instance lets happen, of those
                \* that the code turns out not to be prepared for
    SyncFails,  \* the Sync of a journal may fail
    None        \* nothing

ASSUME LevelDbAssumption ==
    /\ Keys \subseteq 1 .. NoMax - 1
    /\ Batches \subseteq Seq(Keys \X {"val", "del"}) \ {<<>>}
    /\ {MaxOps, MaxCalls, MaxStops, MemdbMaxLevel} \subseteq Nat /\ MemCap \in Nat \ {0}
    /\ {Transactions, SyncFails} \subseteq BOOLEAN
    /\ Allow \subseteq {"createCrash",   \* a crash before the first CURRENT
                        "repairCrash",   \* a crash in Recover, after the empty manifest
                        "repairOrphans", \* Recover with table files of no version
                        "failedSync",    \* writes after a Sync of the journal failed
                        "frozenTx",      \* OpenTransaction over a frozen memdb
                        "discardOpen"}   \* Discard of a transaction that read its tables

VARIABLES
    journals,   \* journals[n]: the batches of journal file n
    tables,     \* tables[n]: the entries of table file n
    manifests,  \* manifests[n]: what manifest file n says
    current,    \* the manifest that CURRENT names, or None
    phase,      \* where the database stands between closed and open
    s,          \* the session: file numbers, journal and sequence number, version
    d,          \* the memdbs and their journals
    rc,         \* the progress of recoverJournal
    w,          \* the holder of the write lock
    tr,         \* the open transaction, or None
    mc,         \* the memdb compaction
    tc,         \* the table compaction
    rd,         \* the reader
    opened,     \* the tables of transactions that the table cache has open
    acked,      \* history: the last write of each key that was acknowledged, or found again
    nextOp,     \* the number of the next write
    calls,      \* the reads and range compactions so far
    stops       \* the crashes and closes so far

disk == <<journals, tables, manifests, current>>
vars == <<journals, tables, manifests, current, phase, s, d, rc, w, tr, mc, tc, rd,
          opened, acked, nextOp, calls, stops>>

-----------------------------------------------------------------------------
(* Helpers. *)

\* FoldLeft as a recursive function, which TLC evaluates faster.
Fold(op(_, _), base, seq) ==
    LET R[i \in 0 .. Len(seq)] == IF i = 0 THEN base ELSE op(R[i - 1], seq[i])
    IN  R[Len(seq)]

Without(f, S) == Restrict(f, DOMAIN f \ S)
With(f, n, x) == [m \in DOMAIN f \cup {n} |-> IF m = n THEN x ELSE f[m]]

\* What a table file holds; one that is gone holds nothing.
Content(n) == IF n \in DOMAIN tables THEN tables[n] ELSE {}

\* What a lookup reads: the open file of the table cache, if there is one.
ReadTable(n) == IF n \in DOMAIN opened THEN opened[n] ELSE Content(n)

EntriesOf(levels) == UNION {Content(n) : n \in FilesOf(levels)}

\* The entries of batch b, written as write v at sequence number q.
Recs(b, q, v) == {Entry(b[i][1], q + i - 1, b[i][2], v) : i \in DOMAIN b}

\* The value that entries E leave in the keys they mention.
EffectOf(E) == [k \in {e.key : e \in E} |-> Newest(E, k, MaxSeqNum)]

\* The writes that clients may count on, once those with the entries E are
\* among them.
Settled(E) ==
    [k \in Keys |->
        LET ops == {e.val : e \in {x \in E : x.key = k}}
        IN  IF ops = {} \/ Max(ops) <= acked[k].op THEN acked[k]
            ELSE [op |-> Max(ops), val |-> Newest(E, k, MaxSeqNum)]]

MapOf(E, q) == [k \in Keys |-> Newest(E, k, q)]

NoSession == [nextFile |-> 0, journalNum |-> 0, seqNum |-> 0, manifest |-> None,
              manifestFd |-> None, levels |-> <<>>]
NoMems == [mem |-> None, frozen |-> None, journalFd |-> None, frozenFd |-> None,
           seq |-> 0, frozenSeq |-> 0]
NoReplay == [todo |-> <<>>, ofd |-> None, mdb |-> {}, added |-> {}, last |-> FALSE]
NoWriter == [pc |-> "idle", batch |-> <<>>, op |-> 0]
NoComp == [pc |-> "idle", rec |-> None, ver |-> <<>>, comp |-> None, range |-> "no"]
NoReader == [pc |-> "idle", seq |-> 0, key |-> 0, held |-> {}, ver |-> <<>>, ret |-> None]

\* A session record: 0 and {} stand for what it does not mention.
Rec(j, q, add, del) == [journalNum |-> j, seqNum |-> q, added |-> add, deleted |-> del]

-----------------------------------------------------------------------------
(* The session. *)

\* Mutant: the deletions of the record are not written.
LoggedAdds(m, r, sess) ==
    [journalNum |-> IF r.journalNum = 0 THEN m.journalNum ELSE r.journalNum,
     seqNum |-> IF r.seqNum = 0 THEN m.seqNum ELSE r.seqNum,
     nextFile |-> sess.nextFile,
     levels |-> spawn(m.levels, [r EXCEPT !.deleted = {}])]

\* session.flushManifest, newManifest: the manifest after a record.
Logged(m, r, sess) ==
    [journalNum |-> IF r.journalNum = 0 THEN m.journalNum ELSE r.journalNum,
     seqNum |-> IF r.seqNum = 0 THEN m.seqNum ELSE r.seqNum,
     nextFile |-> sess.nextFile,
     levels |-> spawn(m.levels, r)]

\* recordCommited and setVersion.
Committed(sess, r) ==
    [sess EXCEPT !.journalNum = IF r.journalNum = 0 THEN @ ELSE r.journalNum,
                 !.seqNum = IF r.seqNum = 0 THEN @ ELSE r.seqNum,
                 !.levels = spawn(@, r)]

\* fillRecord for a new manifest: the record says all that the session knows.
Filled(sess) ==
    [journalNum |-> sess.journalNum, seqNum |-> sess.seqNum, nextFile |-> sess.nextFile,
     levels |-> sess.levels]

allocFileNum(sess) == [sess EXCEPT !.nextFile = @ + 1]

\* reuseFileNum: only the last number given out can be taken back.
reuseFileNum(next, num) == IF next = num + 1 THEN num ELSE next

\* version.releaseNB: the files of a version that goes which no other
\* version still refers to.
Unreferenced(ver, others) == FilesOf(ver) \ UNION {FilesOf(o) : o \in others}

\* tOps.remove: nobody refers to the files, so the table cache lets them go.
RemoveTables(gone) == tables' = Without(tables, gone) /\ opened' = Without(opened, gone)

\* setVersion: version ver takes the place of the session's.
setVersion(ver, pins) == RemoveTables(Unreferenced(s.levels, {ver} \cup pins))

\* session.commit with an open manifest: the record is appended and synced,
\* the new version replaces the old one.
Commit(r, sess, pins) ==
    /\ manifests' = [manifests EXCEPT ![sess.manifest] = Logged(@, r, sess)]
    /\ s' = Committed(sess, r)
    /\ setVersion(spawn(sess.levels, r), pins)

-----------------------------------------------------------------------------
(* Opening: session.recover, DB.recoverJournal, checkAndCleanFiles. *)

\* The journals that recovery replays, in order.
JournalsFrom(n) == Sorted({j \in DOMAIN journals : j >= n}, <)

\* Mutant: a batch has to begin after the next sequence number.
ReplayLater(st, b) ==
    IF b.seq <= st.seq THEN st
    ELSE [E |-> st.E \cup Recs(b.recs, b.seq, b.op), seq |-> b.seq + Len(b.recs)]

\* decodeBatchToMem: a batch whose sequence number has passed is dropped as
\* corrupted.  Recovery counts the sequence number one further than the
\* writer did.
ReplayBatch(st, b) ==
    IF b.seq < st.seq THEN st
    ELSE [E |-> st.E \cup Recs(b.recs, b.seq, b.op), seq |-> b.seq + Len(b.recs)]
ReplayJournal(st, j) == Fold(ReplayBatch, st, journals[j])

\* What the files say the database holds: the tables of the manifest and
\* what a replay of the journals adds.
DiskEntries ==
    IF current = None \/ current \notin DOMAIN manifests THEN {}
    ELSE LET m == manifests[current]
             st == Fold(ReplayJournal, [E |-> {}, seq |-> m.seqNum],
                            JournalsFrom(m.journalNum))
         IN  EntriesOf(m.levels) \cup st.E

MarkFileNum(n, S) == Max({n} \cup {x + 1 : x \in S})

\* recoverJournal lists the journals of the session.
StartReplay(sess) ==
    LET todo == JournalsFrom(sess.journalNum)
    IN  /\ s' = [sess EXCEPT !.nextFile = MarkFileNum(@, ToSet(todo))]
        /\ d' = [NoMems EXCEPT !.seq = sess.seqNum]
        /\ rc' = [NoReplay EXCEPT !.todo = todo, !.last = (todo = <<>>)]
        /\ phase' = IF todo = <<>> THEN "newmem" ELSE "replay"

\* Open of a database that does not exist: session.create writes an empty
\* manifest.  Files without a CURRENT are taken for a damaged database.
OpenNew ==
    /\ phase = "closed" /\ current = None
    /\ IF DOMAIN manifests \cup DOMAIN tables \cup DOMAIN journals /= {}
       THEN /\ phase' = "failed"
            /\ UNCHANGED <<manifests, s>>
       ELSE /\ phase' = "setmeta0"
            /\ s' = [NoSession EXCEPT !.nextFile = 1, !.manifest = 0, !.manifestFd = 0]
            /\ manifests' = (0 :> [journalNum |-> 0, seqNum |-> 0, nextFile |-> 1,
                                   levels |-> <<>>])
    /\ UNCHANGED <<journals, tables, current, d, rc, w, tr, mc, tc, rd, opened, acked, nextOp, calls, stops>>

\* SetMeta of session.create.
SetMetaNew ==
    /\ phase = "setmeta0"
    /\ current' = s.manifest
    /\ StartReplay(s)
    /\ UNCHANGED <<journals, tables, manifests, w, tr, mc, tc, rd, opened, acked, nextOp, calls, stops>>

\* Open of an existing database: session.recover reads the manifest.
OpenExisting ==
    /\ phase = "closed" /\ current /= None
    /\ IF current \notin DOMAIN manifests
       THEN phase' = "failed" /\ UNCHANGED <<s, d, rc>>
       ELSE LET m == manifests[current]
            IN  StartReplay([NoSession EXCEPT !.nextFile = m.nextFile,
                                              !.journalNum = m.journalNum,
                                              !.seqNum = m.seqNum,
                                              !.manifestFd = current,
                                              !.levels = m.levels])
    /\ UNCHANGED <<disk, w, tr, mc, tc, rd, opened, acked, nextOp, calls, stops>>

\* Writing the memdb E into a new table for level l: tables and sessions
\* after it.
FlushTo(E, l, T, sess, added) ==
    IF E = {} THEN [tables |-> T, s |-> sess, added |-> added]
    ELSE [tables |-> With(T, sess.nextFile, E),
          s |-> allocFileNum(sess),
          added |-> added \cup {<<l, newTableFile(sess.nextFile, E)>>}]

\* One journal is replayed into the recovery's memdb, which goes to a table
\* of its own whenever it is full.
Replay ==
    /\ phase = "replay"
    /\ LET j == Head(rc.todo)
           Step(st, b) ==
               LET r == ReplayBatch([E |-> st.E, seq |-> st.seq], b)
                   f == FlushTo(r.E, 0, st.tables, st.s, st.added)
               IN  IF Cardinality(r.E) >= MemCap
                   THEN [E |-> {}, seq |-> r.seq, tables |-> f.tables, s |-> f.s,
                         added |-> f.added]
                   ELSE [st EXCEPT !.E = r.E, !.seq = r.seq]
           st == Fold(Step, [E |-> {}, seq |-> d.seq, tables |-> tables, s |-> s,
                                 added |-> rc.added], journals[j])
       IN  /\ tables' = st.tables
           /\ s' = st.s
           /\ d' = [d EXCEPT !.seq = st.seq]
           /\ rc' = [todo |-> Tail(rc.todo), ofd |-> j, mdb |-> st.E,
                     added |-> st.added, last |-> Tail(rc.todo) = <<>>]
    /\ phase' = "flush"
    /\ UNCHANGED <<journals, manifests, current, w, tr, mc, tc, rd, opened, acked, nextOp, calls, stops>>

\* The memdb of a replayed journal goes to a table.
ReplayFlush ==
    /\ phase = "flush"
    /\ LET f == FlushTo(rc.mdb, 0, tables, s, rc.added)
       IN  tables' = f.tables /\ s' = f.s /\ rc' = [rc EXCEPT !.mdb = {}, !.added = f.added]
    /\ phase' = IF rc.last THEN "newmem" ELSE "commit"
    /\ UNCHANGED <<journals, manifests, current, d, w, tr, mc, tc, rd, opened, acked, nextOp, calls, stops>>

\* newMem: a new journal file, the memdb becomes the frozen one.
NewMem ==
    /\ journals' = With(journals, s.nextFile, <<>>)
    /\ s' = allocFileNum(s)
    /\ d' = [d EXCEPT !.mem = {}, !.frozen = d.mem, !.journalFd = s.nextFile,
                      !.frozenFd = d.journalFd, !.frozenSeq = d.seq]

ReplayNewMem ==
    /\ phase = "newmem"
    /\ NewMem
    /\ phase' = "commit"
    /\ UNCHANGED <<tables, manifests, current, rc, w, tr, mc, tc, rd, opened, acked, nextOp, calls, stops>>

\* The record by which recovery moves on to the next journal.
ReplayRec == Rec(IF rc.last THEN d.journalFd ELSE Head(rc.todo), d.seq, rc.added, {})

\* Its commit: the first one after Open writes a manifest of its own, with
\* the whole state, and does not sync it.
ReplayCommit ==
    /\ phase = "commit"
    /\ IF s.manifest /= None
       THEN Commit(ReplayRec, s, {}) /\ phase' = "remove"
       ELSE /\ LET sess == allocFileNum(s)
               IN  /\ s' = [sess EXCEPT !.manifest = s.nextFile]
                   /\ manifests' = With(manifests, s.nextFile, Logged(Filled(sess), ReplayRec, sess))
            /\ phase' = "setmeta"
            /\ UNCHANGED <<tables, opened>>
    /\ UNCHANGED <<journals, current, d, rc, w, tr, mc, tc, rd, acked, nextOp, calls, stops>>

\* SetMeta of newManifest; the manifest of the last session is removed.
ReplaySetMeta ==
    /\ phase = "setmeta"
    /\ current' = s.manifest
    /\ manifests' = Without(manifests, {s.manifestFd})
    /\ s' = [Committed(s, ReplayRec) EXCEPT !.manifestFd = s.manifest]
    /\ phase' = "remove"
    /\ UNCHANGED <<journals, tables, d, rc, w, tr, mc, tc, rd, opened, acked, nextOp, calls, stops>>

\* The replayed journal is removed; on to the next one, or to the janitor.
ReplayRemove ==
    /\ phase = "remove"
    /\ journals' = Without(journals, {rc.ofd})
    /\ rc' = [rc EXCEPT !.ofd = None, !.added = {}]
    /\ phase' = IF rc.last THEN "janitor" ELSE "replay"
    /\ UNCHANGED <<tables, manifests, current, s, d, w, tr, mc, tc, rd, opened, acked, nextOp, calls, stops>>

\* checkAndCleanFiles: files that no longer count are removed; a table that
\* is missing is fatal.
Janitor ==
    /\ phase = "janitor"
    /\ IF FilesOf(s.levels) \subseteq DOMAIN tables
       THEN /\ tables' = Restrict(tables, FilesOf(s.levels))
            /\ journals' = Restrict(journals, {j \in DOMAIN journals : j >= d.journalFd})
            /\ manifests' = Restrict(manifests, {m \in DOMAIN manifests : m >= s.manifestFd})
            /\ phase' = "open"
            /\ rc' = NoReplay
            /\ acked' = Settled(EntriesOf(s.levels))
       ELSE /\ phase' = "failed"
            /\ UNCHANGED <<tables, journals, manifests, rc, acked>>
    /\ UNCHANGED <<current, s, d, w, tr, mc, tc, rd, opened, nextOp, calls, stops>>

\* Open for reading: recoverJournalRO replays the journals into one memdb,
\* however large, and no file is touched.  No compaction is started.
OpenReadOnly ==
    /\ phase = "closed" /\ current \in DOMAIN manifests
    /\ LET m  == manifests[current]
           st == Fold(ReplayJournal, [E |-> {}, seq |-> m.seqNum], JournalsFrom(m.journalNum))
       IN  /\ s' = [NoSession EXCEPT !.nextFile = m.nextFile, !.journalNum = m.journalNum,
                                     !.seqNum = m.seqNum, !.manifestFd = current,
                                     !.levels = m.levels]
           /\ d' = [NoMems EXCEPT !.mem = st.E, !.seq = st.seq]
    /\ phase' = "readonly"
    /\ UNCHANGED <<disk, rc, w, tr, mc, tc, rd, opened, acked, nextOp, calls, stops>>

\* Recover: the manifests are ignored, every table file goes to level 0 and
\* every journal is replayed.  A new empty manifest comes first.
RecoverCreate ==
    /\ phase = "closed" /\ tables /= << >>
    /\ "repairOrphans" \notin Allow => current \in DOMAIN manifests /\ DOMAIN tables = FilesOf(manifests[current].levels)
    /\ LET n == MarkFileNum(0, DOMAIN tables)
       IN  /\ s' = [NoSession EXCEPT !.nextFile = n + 1, !.manifest = n, !.manifestFd = n]
           /\ manifests' = With(manifests, n, [journalNum |-> 0, seqNum |-> 0,
                                               nextFile |-> n + 1, levels |-> <<>>])
           /\ current' = n
    /\ phase' = "repair"
    /\ UNCHANGED <<journals, tables, d, rc, w, tr, mc, tc, rd, opened, acked, nextOp, calls, stops>>

\* recoverTable's commit of all the tables found.
RecoverCommit ==
    /\ phase = "repair"
    /\ LET maxSeq == Max({0} \cup {e.seq : e \in UNION Range(tables)})
           r == Rec(0, maxSeq, {<<0, newTableFile(n, tables[n])>> : n \in DOMAIN tables}, {})
       IN  /\ manifests' = [manifests EXCEPT ![s.manifest] = Logged(@, r, s)]
           /\ StartReplay(Committed(s, r))
    /\ UNCHANGED <<journals, tables, current, w, tr, mc, tc, rd, opened, acked, nextOp, calls, stops>>

-----------------------------------------------------------------------------
(* Writing: DB.Write, putRec, writeLocked, rotateMem. *)

Open == phase = "open"

\* Open, to read and write or only to read.
Up == phase \in {"open", "readonly"}

\* The writer has the lock; its batch comes from Write, Put or Delete.
LockWrite(b) ==
    /\ Open /\ w.pc = "idle" /\ nextOp <= MaxOps
    /\ w' = [pc |-> "locked", batch |-> b, op |-> nextOp]
    /\ nextOp' = nextOp + 1
    /\ UNCHANGED <<disk, phase, s, d, rc, tr, mc, tc, rd, opened, acked, calls, stops>>

Free == MemCap - Cardinality(d.mem)

\* flush: a memdb with too little room is rotated first, once the frozen one
\* has been compacted; an empty one may grow.
WriteRotate ==
    /\ Open /\ w.pc = "locked"
    /\ Free < Len(w.batch) /\ d.mem /= {} /\ d.frozen = None
    /\ NewMem
    /\ UNCHANGED <<tables, manifests, current, phase, rc, w, tr, mc, tc, rd, opened, acked, nextOp, calls, stops>>

\* writeJournal appends the batch.  When the Sync fails the writer gets an
\* error, and the batch stays in the file.
WriteJournal ==
    /\ Open /\ w.pc = "locked"
    /\ Free >= Len(w.batch) \/ d.mem = {}
    /\ journals' = [journals EXCEPT ![d.journalFd] =
                       Append(@, [seq |-> d.seq + 1, recs |-> w.batch, op |-> w.op])]
    /\ \/ w' = [w EXCEPT !.pc = "journalled"]
       \/ SyncFails /\ w' = [NoWriter EXCEPT !.pc = IF "failedSync" \in Allow THEN "idle" ELSE "failed"]
    /\ UNCHANGED <<tables, manifests, current, phase, s, d, rc, tr, mc, tc, rd, opened, acked, nextOp, calls, stops>>

\* putMem.
WriteMem ==
    /\ Open /\ w.pc = "journalled"
    /\ d' = [d EXCEPT !.mem = @ \cup Recs(w.batch, d.seq + 1, w.op)]
    /\ w' = [w EXCEPT !.pc = IF Len(w.batch) >= Free THEN "full" ELSE "inmem"]
    /\ UNCHANGED <<disk, phase, s, rc, tr, mc, tc, rd, opened, acked, nextOp, calls, stops>>

\* addSeq makes the write visible.  If it has filled the memdb, that one is
\* rotated before the lock is released.
WriteSeq ==
    /\ Open /\ w.pc \in {"inmem", "full"}
    /\ d' = [d EXCEPT !.seq = @ + Len(w.batch)]
    /\ acked' = Settled(Recs(w.batch, d.seq + 1, w.op))
    /\ w' = IF w.pc = "full" THEN [NoWriter EXCEPT !.pc = "rotate"] ELSE NoWriter
    /\ UNCHANGED <<disk, phase, s, rc, tr, mc, tc, rd, opened, nextOp, calls, stops>>

WriteRotateAfter ==
    /\ Open /\ w.pc = "rotate" /\ d.frozen = None
    /\ NewMem
    /\ w' = NoWriter
    /\ UNCHANGED <<tables, manifests, current, phase, rc, tr, mc, tc, rd, opened, acked, nextOp, calls, stops>>

-----------------------------------------------------------------------------
(* The memdb compaction. *)

\* The versions that somebody other than the session holds.
Pins == {rd.ver, tc.ver}

\* dropFrozenMem removes the journal of the frozen memdb.
DropFrozen ==
    /\ journals' = Without(journals, {d.frozenFd})
    /\ d' = [d EXCEPT !.frozen = None, !.frozenFd = None]

\* Mutant: the sequence number is that of now, not that of the rotation.
LateFlushRec(added) == Rec(d.journalFd, d.seq, added, {})

\* The record of a flush: the journal and the sequence number that recovery
\* has to start from.
FlushRec(added) == Rec(d.journalFd, d.frozenSeq, added, {})

\* memCompaction up to the commit.  Its callers freeze no memdb without an
\* entry, so that the branch that only drops such a one is never taken.
MemFlush ==
    /\ Open /\ mc.pc = "idle" /\ d.frozen /= None
    /\ \E t \in {newTableFile(s.nextFile, d.frozen)} :
       \E l \in {pickMemdbLevel(s.levels, t.imin.key, t.imax.key, MemdbMaxLevel)} :
       \E f \in {FlushTo(d.frozen, l, tables, s, {})} :
           /\ tables' = f.tables
           /\ s' = f.s
           /\ mc' = [NoComp EXCEPT !.pc = "commit", !.rec = FlushRec(f.added)]
    /\ UNCHANGED <<journals, manifests, current, phase, d, rc, w, tr, tc, rd, opened, acked, nextOp, calls, stops>>

MemCommit ==
    /\ Open /\ mc.pc = "commit"
    /\ Commit(mc.rec, s, Pins)
    /\ mc' = [NoComp EXCEPT !.pc = "drop"]
    /\ UNCHANGED <<journals, current, phase, d, rc, w, tr, tc, rd, acked, nextOp, calls, stops>>

MemDrop ==
    /\ Open /\ mc.pc = "drop"
    /\ DropFrozen
    /\ mc' = NoComp
    /\ UNCHANGED <<tables, manifests, current, phase, s, rc, w, tr, tc, rd, opened, acked, nextOp, calls, stops>>

-----------------------------------------------------------------------------
(* The table compaction. *)

\* The snapshots that are held: the reader's, until its iterator has a
\* version of its own.
Snapshots == IF rd.pc \in {"idle", "iter", "iterdone"} THEN {} ELSE {rd.seq}

\* Mutant: the snapshots are forgotten.
SeqOnly == d.seq

\* DB.minSeq: what every snapshot sees.
MinSeq == IF Snapshots = {} THEN d.seq ELSE Min(Snapshots)

\* The compactions that may come next: of the range that a client asks for
\* with CompactRange, or else the one that the scores or the seeks ask for.
RangeCompactions ==
    UNION {getCompactionRange(s.levels, l, NoMin, NoMax, FALSE) :
              l \in 0 .. rangeDepth(s.levels, NoMin, NoMax) - 1}
AutoCompactions ==
    pickCompaction(s.levels, SeekTables(s.levels, Keys, {MaxSeqNum}))

\* It picks its tables and holds on to the version.
TablePick ==
    /\ Open /\ tc.pc = "idle"
    /\ \E c \in IF tc.range = "running" THEN RangeCompactions ELSE AutoCompactions :
           tc' = [tc EXCEPT !.pc = "build", !.ver = s.levels, !.comp = c]
    /\ UNCHANGED <<disk, phase, s, d, rc, w, tr, mc, rd, opened, acked, nextOp, calls, stops>>

Inputs(c) == {<<c.level, c.t0[i].num>> : i \in DOMAIN c.t0}
             \cup {<<c.level + 1, c.t1[i].num>> : i \in DOMAIN c.t1}

\* The merged tables, out, become new files of the next level.
Merge(c, out) ==
    /\ tc' = [tc EXCEPT !.pc = "commit", !.comp = None,
                  !.rec = Rec(0, 0, {<<c.level + 1, newTableFile(s.nextFile + i - 1, out[i])>> :
                                        i \in DOMAIN out}, Inputs(c))]
    /\ tables' = [n \in DOMAIN tables \cup {s.nextFile + i - 1 : i \in DOMAIN out} |->
                     IF n >= s.nextFile THEN out[n - s.nextFile + 1] ELSE tables[n]]
    /\ s' = [s EXCEPT !.nextFile = @ + Len(out)]

Move(c) ==
    /\ tc' = [tc EXCEPT !.pc = "commit", !.comp = None,
                        !.rec = Rec(0, 0, {<<c.level + 1, c.t0[1]>>}, Inputs(c))]
    /\ UNCHANGED <<tables, s>>

\* tableCompaction: a table that can move is only moved; else the tables of
\* both levels are merged, without what no snapshot can see any more.
TableBuild ==
    /\ Open /\ tc.pc = "build"
    /\ IF tc.range /= "running" /\ trivial(tc.comp)
       THEN Move(tc.comp)
       ELSE \E out \in {build(tc.ver, tc.comp, MinSeq,
                             UNION {ReadTable(x[2]) : x \in Inputs(tc.comp)})} :
                Merge(tc.comp, out)
    /\ UNCHANGED <<journals, manifests, current, phase, d, rc, w, tr, mc, rd, opened, acked, nextOp, calls, stops>>

\* The commit, and the release of the version.
TableCommit ==
    /\ Open /\ tc.pc = "commit"
    /\ LET new == spawn(s.levels, tc.rec)
           gone == UNION {Unreferenced(v, {new, rd.ver}) : v \in {s.levels, tc.ver}}
       IN  /\ manifests' = [manifests EXCEPT ![s.manifest] = Logged(@, tc.rec, s)]
           /\ s' = Committed(s, tc.rec)
           /\ RemoveTables(gone)
    /\ tc' = [NoComp EXCEPT !.range = tc.range]
    /\ UNCHANGED <<journals, current, phase, d, rc, w, tr, mc, rd, acked, nextOp, calls, stops>>

\* CompactRange rotates a memdb that has entries in the range, waits for its
\* compaction and then for that of the range, as long as there is one.
CompactRange ==
    /\ Open /\ w.pc = "idle" /\ tc.range = "no" /\ calls < MaxCalls
    /\ IF d.mem = {} THEN UNCHANGED <<journals, s, d>> ELSE d.frozen = None /\ NewMem
    /\ tc' = [tc EXCEPT !.range = "asked"]
    /\ calls' = calls + 1
    /\ UNCHANGED <<tables, manifests, current, phase, rc, w, tr, mc, rd, opened, acked, nextOp, stops>>

RangeStart ==
    /\ Open /\ tc.range = "asked" /\ tc.pc = "idle" /\ d.frozen = None
    /\ tc' = [tc EXCEPT !.range = "running"]
    /\ UNCHANGED <<disk, phase, s, d, rc, w, tr, mc, rd, opened, acked, nextOp, calls, stops>>

RangeDone ==
    /\ Open /\ tc.range = "running" /\ tc.pc = "idle" /\ RangeCompactions = {}
    /\ tc' = NoComp
    /\ UNCHANGED <<disk, phase, s, d, rc, w, tr, mc, rd, opened, acked, nextOp, calls, stops>>

-----------------------------------------------------------------------------
(* Reading: DB.Get, DB.Has, Snapshot.Get, DB.NewIterator. *)

\* acquireSnapshot.
ReadAcquire ==
    /\ Up /\ rd.pc = "idle" /\ calls < MaxCalls
    /\ rd' = [NoReader EXCEPT !.pc = "snap", !.seq = d.seq]
    /\ calls' = calls + 1
    /\ UNCHANGED <<disk, phase, s, d, rc, w, tr, mc, tc, opened, acked, nextOp, stops>>

\* memGet in the memdb and then in the frozen one; {} if both miss.
MemsGet(mem, frozen, ik) ==
    LET f == IF frozen = None THEN {} ELSE Find(frozen, ik)
    IN  IF Find(mem, ik) /= {} THEN Find(mem, ik) ELSE f

\* DB.get looks into the memdbs first.
ReadMems(k) ==
    /\ Up /\ rd.pc = "snap"
    /\ LET hit == MemsGet(d.mem, d.frozen, SeekKey(k, rd.seq))
       IN  rd' = IF hit = {} THEN [rd EXCEPT !.pc = "miss", !.key = k]
                 ELSE [rd EXCEPT !.pc = "done", !.ret = <<k, Newest(hit, k, rd.seq)>>]
    /\ UNCHANGED <<disk, phase, s, d, rc, w, tr, mc, tc, opened, acked, nextOp, calls, stops>>

\* ... then takes the version of that moment,
ReadVersion ==
    /\ Up /\ rd.pc = "miss"
    /\ rd' = [rd EXCEPT !.pc = "pinned", !.ver = s.levels]
    /\ UNCHANGED <<disk, phase, s, d, rc, w, tr, mc, tc, opened, acked, nextOp, calls, stops>>

\* Mutant: the files of the version stay.
KeepVersion == UNCHANGED <<tables, opened>>

\* The reader lets its version go.
ReleaseVersion == RemoveTables(Unreferenced(rd.ver, {s.levels, tc.ver}))

\* ... and searches it.
ReadTables ==
    /\ Up /\ rd.pc = "pinned"
    /\ rd' = [rd EXCEPT !.pc = "done", !.ver = <<>>,
                        !.ret = <<rd.key, versionGet(<<>>, rd.ver, [n \in FilesOf(rd.ver) |-> ReadTable(n)],
                                                     SeekKey(rd.key, rd.seq))>>]
    /\ ReleaseVersion
    /\ UNCHANGED <<journals, manifests, current, phase, s, d, rc, w, tr, mc, tc, acked, nextOp, calls, stops>>

\* newRawIterator takes the memdbs, then the version; the snapshot is given
\* back once both are held.
IterMems ==
    /\ Up /\ rd.pc = "snap"
    /\ rd' = [rd EXCEPT !.pc = "itermems",
                        !.held = {e \in d.mem \cup (IF d.frozen = None THEN {} ELSE d.frozen) :
                                     e.seq <= rd.seq}]
    /\ UNCHANGED <<disk, phase, s, d, rc, w, tr, mc, tc, opened, acked, nextOp, calls, stops>>

IterVersion ==
    /\ Up /\ rd.pc = "itermems"
    /\ rd' = [rd EXCEPT !.pc = "iter", !.ver = s.levels]
    /\ UNCHANGED <<disk, phase, s, d, rc, w, tr, mc, tc, opened, acked, nextOp, calls, stops>>

\* The iterator stops at a key.
IterRead(k) ==
    /\ Up /\ rd.pc = "iter"
    /\ rd' = [rd EXCEPT !.pc = "iterdone",
                        !.ret = <<k, Newest(rd.held \cup UNION {ReadTable(n) : n \in FilesOf(rd.ver)},
                                            k, rd.seq)>>]
    /\ UNCHANGED <<disk, phase, s, d, rc, w, tr, mc, tc, opened, acked, nextOp, calls, stops>>

\* releaseSnapshot, or Release of the iterator.
ReadRelease ==
    /\ Up /\ rd.pc \in {"done", "iterdone"}
    /\ rd' = NoReader
    /\ ReleaseVersion
    /\ UNCHANGED <<journals, manifests, current, phase, s, d, rc, w, tr, mc, tc, acked, nextOp, calls, stops>>

-----------------------------------------------------------------------------
(* Transactions. *)

\* OpenTransaction takes the write lock and flushes the memdb, but it does
\* so only if that one has an entry, whatever is still frozen.
TxOpen ==
    /\ Transactions /\ Open /\ w.pc = "idle" /\ nextOp <= MaxOps
    /\ IF d.mem = {}
       THEN /\ "frozenTx" \notin Allow => d.frozen = None
            /\ w' = [NoWriter EXCEPT !.pc = "tx"]
            /\ tr' = [seq |-> d.seq, mem |-> {}, files |-> <<>>, all |-> {}]
            /\ UNCHANGED <<journals, s, d>>
       ELSE /\ d.frozen = None
            /\ NewMem
            /\ w' = [NoWriter EXCEPT !.pc = "txwait"]
            /\ UNCHANGED tr
    /\ UNCHANGED <<tables, manifests, current, phase, rc, mc, tc, rd, opened, acked, nextOp, calls, stops>>

\* Mutant: it does not wait for the compaction of the memdb.
TxReadyAtOnce ==
    /\ Open /\ w.pc = "txwait"
    /\ w' = [NoWriter EXCEPT !.pc = "tx"]
    /\ tr' = [seq |-> d.seq, mem |-> {}, files |-> <<>>, all |-> {}]
    /\ UNCHANGED <<disk, phase, s, d, rc, mc, tc, rd, opened, acked, nextOp, calls, stops>>

\* The compaction of the memdb is done.
TxReady ==
    /\ Open /\ w.pc = "txwait" /\ d.frozen = None
    /\ w' = [NoWriter EXCEPT !.pc = "tx"]
    /\ tr' = [seq |-> d.seq, mem |-> {}, files |-> <<>>, all |-> {}]
    /\ UNCHANGED <<disk, phase, s, d, rc, mc, tc, rd, opened, acked, nextOp, calls, stops>>

\* Transaction.put.
TxPut(k, kt) ==
    /\ Open /\ w.pc = "tx" /\ nextOp <= MaxOps
    /\ LET e == Entry(k, tr.seq + 1, kt, nextOp)
       IN  tr' = [tr EXCEPT !.seq = @ + 1, !.mem = @ \cup {e}, !.all = @ \cup {e}]
    /\ nextOp' = nextOp + 1
    /\ UNCHANGED <<disk, phase, s, d, rc, w, mc, tc, rd, opened, acked, calls, stops>>

\* Transaction.flush, when its memdb is full or at the commit.
TxFlush ==
    /\ Open /\ w.pc = "tx" /\ tr.mem /= {}
    /\ LET f == FlushTo(tr.mem, 0, tables, s, {})
       IN  /\ tables' = f.tables
           /\ s' = f.s
           /\ tr' = [tr EXCEPT !.mem = {},
                               !.files = Append(@, newTableFile(s.nextFile, tr.mem))]
    /\ UNCHANGED <<journals, manifests, current, phase, d, rc, w, mc, tc, rd, opened, acked, nextOp, calls, stops>>

\* Transaction.Get through its tables leaves them open in the table cache.
TxGet ==
    /\ Open /\ w.pc = "tx" /\ tr.files /= <<>>
    /\ opened' = [n \in DOMAIN opened \cup {tr.files[i].num : i \in DOMAIN tr.files} |->
                     IF n \in DOMAIN opened THEN opened[n] ELSE tables[n]]
    /\ opened' /= opened
    /\ UNCHANGED <<disk, phase, s, d, rc, w, tr, mc, tc, rd, acked, nextOp, calls, stops>>

\* Commit is called, with all of the transaction in tables.
TxCall ==
    /\ Open /\ w.pc = "tx" /\ tr.mem = {} /\ tr.files /= <<>>
    /\ w' = [w EXCEPT !.pc = "txcommit"]
    /\ UNCHANGED <<disk, phase, s, d, rc, tr, mc, tc, rd, opened, acked, nextOp, calls, stops>>

TxCommit ==
    /\ Open /\ w.pc = "txcommit"
    /\ Commit(Rec(0, tr.seq, {<<0, tr.files[i]>> : i \in DOMAIN tr.files}, {}), s, Pins)
    /\ w' = [w EXCEPT !.pc = "txdone"]
    /\ UNCHANGED <<journals, current, phase, d, rc, tr, mc, tc, rd, acked, nextOp, calls, stops>>

\* setSeq and setDone.
TxDone ==
    /\ Open /\ w.pc = "txdone"
    /\ d' = [d EXCEPT !.seq = tr.seq]
    /\ acked' = Settled(tr.all)
    /\ tr' = None
    /\ w' = NoWriter
    /\ UNCHANGED <<disk, phase, s, rc, mc, tc, rd, opened, nextOp, calls, stops>>

\* Discard removes the tables, behind the back of the table cache, and gives
\* back the number of the last one.
TxFiles == {tr.files[i].num : i \in DOMAIN tr.files}
TxDiscard ==
    /\ Open /\ w.pc = "tx"
    /\ "discardOpen" \notin Allow => TxFiles \cap DOMAIN opened = {}
    /\ tables' = Without(tables, TxFiles)
    /\ s' = [s EXCEPT !.nextFile =
                 Fold(LAMBDA next, t : reuseFileNum(next, t.num), @, tr.files)]
    /\ tr' = None
    /\ w' = NoWriter
    /\ UNCHANGED <<journals, manifests, current, phase, d, rc, mc, tc, rd, opened, acked, nextOp, calls, stops>>

-----------------------------------------------------------------------------
(* The end of a process. *)

Forget ==
    /\ phase' = "closed"
    /\ s' = NoSession /\ d' = NoMems /\ rc' = NoReplay /\ w' = NoWriter /\ tr' = None
    /\ mc' = NoComp /\ tc' = NoComp /\ rd' = NoReader /\ opened' = << >>
    /\ stops' = stops + 1

\* The process dies, at any point.
Crash ==
    /\ phase \notin {"closed", "failed"} /\ stops < MaxStops
    /\ phase = "setmeta0" => "createCrash" \in Allow
    /\ phase = "repair" => "repairCrash" \in Allow
    /\ Forget
    /\ UNCHANGED <<journals, tables, manifests, current, acked, nextOp, calls>>

\* Close discards a transaction and waits for the writer; the memdb is not
\* flushed.
Close ==
    /\ Up /\ w.pc \in {"idle", "tx"} /\ rd.pc = "idle" /\ stops < MaxStops
    /\ tables' = IF tr = None THEN tables ELSE Without(tables, TxFiles)
    /\ Forget
    /\ UNCHANGED <<journals, manifests, current, acked, nextOp, calls>>

-----------------------------------------------------------------------------

Init ==
    /\ journals = << >> /\ tables = << >> /\ manifests = << >>
    /\ current = None
    /\ phase = "closed"
    /\ s = NoSession /\ d = NoMems /\ rc = NoReplay /\ w = NoWriter /\ tr = None
    /\ mc = NoComp /\ tc = NoComp /\ rd = NoReader /\ opened = << >>
    /\ acked = [k \in Keys |-> [op |-> 0, val |-> 0]]
    /\ nextOp = 1 /\ calls = 0 /\ stops = 0

Next ==
    \/ OpenNew \/ SetMetaNew \/ OpenExisting \/ OpenReadOnly \/ RecoverCreate \/ RecoverCommit
    \/ Replay \/ ReplayFlush \/ ReplayNewMem \/ ReplayCommit \/ ReplaySetMeta
    \/ ReplayRemove \/ Janitor
    \/ \E b \in Batches : LockWrite(b)
    \/ WriteRotate \/ WriteJournal \/ WriteMem \/ WriteSeq \/ WriteRotateAfter
    \/ MemFlush \/ MemCommit \/ MemDrop
    \/ TablePick \/ TableBuild \/ TableCommit \/ CompactRange \/ RangeStart \/ RangeDone
    \/ ReadAcquire \/ ReadVersion \/ ReadTables \/ ReadRelease
    \/ IterMems \/ IterVersion
    \/ \E k \in Keys : ReadMems(k) \/ IterRead(k)
    \/ TxOpen \/ TxReady \/ TxFlush \/ TxGet \/ TxCall \/ TxCommit \/ TxDone \/ TxDiscard
    \/ \E k \in Keys, kt \in {"val", "del"} : TxPut(k, kt)
    \/ Crash \/ Close

Spec == Init /\ [][Next]_vars

-----------------------------------------------------------------------------
(* Properties. *)

\* What the database would hold if it were opened now, or if the recovery
\* under way were carried through.
DurableEntries ==
    IF phase /= "repair" THEN DiskEntries
    ELSE LET E == UNION Range(tables)
         IN  E \cup Fold(ReplayJournal, [E |-> {}, seq |-> Max({0} \cup {e.seq : e \in E})],
                         JournalsFrom(0)).E

Durable == MapOf(DurableEntries, MaxSeqNum)

\* What is in memory and in the tables of the version.
LiveEntries == d.mem \cup (IF d.frozen = None THEN {} ELSE d.frozen) \cup EntriesOf(s.levels)

\* Refinement: the files and the memory of the database, read as what they
\* stand for, behave like a KvStore.  Every flush, compaction, crash and
\* every step of a recovery leaves all of it as it is.
K == INSTANCE KvStore WITH
    Key <- Keys, Val <- 0 .. MaxOps, None <- None,
    kv <- Durable,
    seen <- IF Up THEN MapOf(LiveEntries, d.seq) ELSE Durable,
    pend <- IF w.pc = "locked" THEN EffectOf(Recs(w.batch, 1, w.op))
            ELSE IF w.pc = "txcommit" THEN EffectOf(tr.all)
            ELSE None,
    snap <- IF rd.pc = "idle" THEN None
            ELSE IF rd.pc \in {"iter", "iterdone"}
                 THEN MapOf(rd.held \cup EntriesOf(rd.ver), rd.seq)
                 ELSE MapOf(LiveEntries, rd.seq),
    ret <- rd.ret

\* Through journals, memdbs, flushes, compactions, crashes and recoveries the
\* database is a KvStore: each write takes effect at one instant and stays, and
\* Get and iterators see the contents of the moment of their snapshot.
\* (writeLocked, DB.get, newIterator, recoverJournal, tableCompactionBuilder)
ImplementsKvStore == K!Spec

\* A write that was acknowledged is there after a crash at any later point,
\* unless a later write has replaced it: through the journal, the frozen
\* memdb, its table, every compaction, the replay and its own crashes.
\* (writeLocked, memCompaction, recoverJournal, Transaction.Commit)
AckedSurvive ==
    phase /= "failed" =>
        \A k \in Keys :
            \/ Durable[k] = acked[k].val
            \/ \E e \in DurableEntries : e.key = k /\ e.val > acked[k].op

\* Whatever a process leaves behind, the next Open accepts: the manifest that
\* CURRENT names exists and so do the tables it lists.  (session.recover,
\* checkAndCleanFiles)
OpenSucceeds == phase /= "failed"

\* A table file exists while the session, the reader or a compaction has a
\* version with it, and is not kept after the last one has let it go: all
\* others are outputs not committed yet.  (version.releaseNB, session.refs)
FilesExact ==
    Open =>
        LET held == UNION {FilesOf(v) : v \in {s.levels, rd.ver, tc.ver}}
            out(r) == IF r = None THEN {} ELSE {a[2].num : a \in r.added}
            own == out(mc.rec) \cup out(tc.rec) \cup IF tr = None THEN {} ELSE TxFiles
        IN  held \subseteq DOMAIN tables /\ DOMAIN tables \subseteq held \cup own

\* The version is what lookups take it for: below level 0 the tables of a
\* level are in order and share no user key; and what a level holds of a key
\* is newer than what any deeper level holds of it.  (versionStaging.finish,
\* compaction.expand, tableCompactionBuilder.run)
LevelsSound ==
    LET L == s.levels
        Holds(l) == UNION {ReadTable(L[l][i].num) : i \in DOMAIN L[l]}
    IN  /\ \A l \in DOMAIN L \ {1} : \A j \in DOMAIN L[l] : \A i \in 1 .. j - 1 :
              L[l][i].imax.key < L[l][j].imin.key
        /\ \A m \in DOMAIN L : \A b \in Holds(m) : \A l \in 1 .. m - 1 :
              \A a \in Holds(l) : a.key = b.key => a.seq > b.seq

\* Transaction.Get, DB.get with the memdb and the tables of a transaction.
TxGetValue(k) ==
    LET ik == SeekKey(k, tr.seq)
        own == Find(tr.mem, ik)
        mems == MemsGet(d.mem, d.frozen, ik)
    IN  IF own /= {} THEN Newest(own, k, tr.seq)
        ELSE IF mems /= {} THEN Newest(mems, k, tr.seq)
        ELSE versionGet(tr.files, s.levels,
                        [n \in TxFiles \cup FilesOf(s.levels) |-> ReadTable(n)], ik)

\* A transaction reads its own last write of a key, and else what the
\* database held when it was opened.  (db_transaction.go: Transaction.Get)
TxReadsOwn ==
    Open /\ w.pc = "tx" =>
        \A k \in Keys : TxGetValue(k) = Newest(tr.all \cup LiveEntries, k, MaxSeqNum)

=============================================================================

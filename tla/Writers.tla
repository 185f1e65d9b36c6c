------------------------------- MODULE Writers -------------------------------
(***************************************************************************)
(* The goroutines of a goleveldb database and the channels between them    *)
(* (leveldb/db_write.go, the loops of db_compaction.go, and the opening,   *)
(* commit and closing of db_transaction.go and db.go): writers that merge  *)
(* their batches into that of the writer that has the lock, or take the    *)
(* lock over from it; the memdb compaction and the table compaction with   *)
(* their commands; compactionError, which hands errors out; and Close.     *)
(*                                                                         *)
(* All channels but writeLockC are unbuffered: a send and its receive are  *)
(* one step, and a select is a choice between the steps that are possible. *)
(* Data is counted: mem and frozen are the units that the memdbs hold, l0  *)
(* the tables of level 0.  The commit of a compaction is a part of its     *)
(* transaction here, and compCommitLk is left out: who holds it waits for  *)
(* nobody.                                                                 *)
(***************************************************************************)
EXTENDS Integers, Sequences, FiniteSets, SequencesExt

CONSTANTS
    Clients,        \* the goroutines that call the database, once each
    Calls,          \* Calls[c]: the calls that c may make, of those in AllCalls
    MemCap,         \* WriteBuffer
    MergeLimit,     \* the merge limit of writeLocked
    L0Trigger,      \* CompactionL0Trigger
    PauseTrigger,   \* WriteL0PauseTrigger
    MaxFails,       \* bound on the failures of files
    Allow,          \* the situations below that this instance lets happen
    None            \* nobody, nothing

AllCalls == {"put", "batch", "range", "readonly", "tx", "close"}

ASSUME WritersAssumption ==
    /\ IsFiniteSet(Clients) /\ Calls \in [Clients -> SUBSET AllCalls]
    /\ {MemCap, MergeLimit, L0Trigger, PauseTrigger} \subseteq Nat \ {0}
    /\ L0Trigger <= PauseTrigger /\ MaxFails \in Nat
    /\ None \notin Clients \cup AllCalls \cup {"error"} /\ "error" \notin Clients
    /\ Allow \subseteq {"closeInCall",  \* Close during SetReadOnly or OpenTransaction
                        "failInTx"}     \* an error that OpenTransaction meets

VARIABLES
    pc,         \* where each client is
    op,         \* what it has called
    res,        \* what the call returned
    aux,        \* the compaction it waits for, and where to go on
    lock,       \* who has put the token into writeLockC
    grp,        \* the writes that the holder of the lock has merged
    mem, frozen, l0,
    journal,    \* the groups that were written
    ce,         \* where compactionError is
    locking,    \* compWriteLocking
    mc, tc,     \* the memdb and the table compaction
    closed,     \* the closed flag
    closeC,     \* closeC is closed
    fails       \* the failures so far

clientVars == <<pc, op, res, aux>>
dataVars == <<mem, frozen, l0, journal>>
vars == <<pc, op, res, aux, lock, grp, mem, frozen, l0, journal, ce, locking, mc, tc,
          closed, closeC, fails>>

Size(o) == IF o = "batch" THEN 2 ELSE 1
NoGroup == [merged |-> <<>>, limit |-> 0, free |-> 0, over |-> None, err |-> "ok"]
NoAux == [ch |-> None, kind |-> None, then |-> None, fail |-> None, after |-> None, tries |-> 0]

Goto(c, p) == pc' = [pc EXCEPT ![c] = p]
Return(c, r) ==
    /\ pc' = [pc EXCEPT ![c] = "done"]
    /\ res' = [res EXCEPT ![c] = r]

-----------------------------------------------------------------------------
(* Calls. *)

\* Every method begins with db.ok(); Close with setClosed.
Opening == {c \in Clients : op[c] \in {"readonly", "tx"} /\ pc[c] \notin {"done", "txopen", "txend"}}
Call(c, o) ==
    /\ pc[c] = "idle"
    /\ op' = [op EXCEPT ![c] = o]
    /\ o = "close" => "closeInCall" \in Allow \/ Opening = {}
    /\ o = "tx" => "failInTx" \in Allow \/ ce = "no"
    /\ IF closed THEN Return(c, "closed") ELSE Goto(c, IF o = "close" THEN "close" ELSE "wait") /\ UNCHANGED res
    /\ closed' = (closed \/ o = "close")
    /\ UNCHANGED <<aux, lock, grp, dataVars, ce, locking, mc, tc, closeC, fails>>

\* The select at the start of a call: it gets the lock,
Locked(c) ==
    CASE op[c] \in {"put", "batch"} -> "flush"
      [] op[c] = "range" -> "range"
      [] op[c] = "readonly" -> "readonly"
      [] op[c] = "tx" -> "tx"
TakeLock(c) ==
    /\ pc[c] = "wait" /\ lock = None
    /\ lock' = c
    /\ Goto(c, Locked(c))
    /\ locking' = (locking \/ op[c] = "readonly")
    /\ UNCHANGED <<op, res, aux, grp, dataVars, ce, mc, tc, closed, closeC, fails>>

\* a persistent error, or the news that the database is closed,
Refused(c) ==
    /\ pc[c] = "wait"
    /\ \/ ce = "perm" /\ Return(c, "err")
       \/ closeC /\ Return(c, "closed")
    /\ UNCHANGED <<op, aux, lock, grp, dataVars, ce, locking, mc, tc, closed, closeC, fails>>

\* or, a write, is received by the writer that has the lock: it is merged,
\* or gets the lock afterwards if it does not fit.
Merge(l, c) ==
    /\ pc[l] = "merge" /\ grp.limit > 0
    /\ pc[c] = "wait" /\ op[c] \in {"put", "batch"}
    /\ IF Size(op[c]) <= grp.limit
       THEN /\ grp' = [grp EXCEPT !.merged = Append(@, c), !.limit = @ - Size(op[c])]
            /\ Goto(c, "merged")
       ELSE /\ grp' = [grp EXCEPT !.over = c]
            /\ pc' = [pc EXCEPT ![c] = "over", ![l] = "write"]
    /\ UNCHANGED <<op, res, aux, lock, dataVars, ce, locking, mc, tc, closed, closeC, fails>>

-----------------------------------------------------------------------------
(* Waiting for a compaction: compTriggerWait, compTriggerRange. *)

\* The wait begins: on channel ch, then on to p, or to f after an error.
Await(c, ch, kind, p, f, after) ==
    /\ Goto(c, "send")
    /\ aux' = [aux EXCEPT ![c] = [ch |-> ch, kind |-> kind, then |-> p, fail |-> f,
                                  after |-> after, tries |-> @.tries]]

\* An error of a compaction, or the end of the database, ends the wait.
AwaitFails(c) ==
    /\ pc[c] \in {"send", "await"}
    /\ ce \in {"err", "perm"} \/ closeC
    /\ Goto(c, aux[c].fail)
    /\ UNCHANGED <<op, res, aux, lock, grp, dataVars, ce, locking, mc, tc, closed, closeC, fails>>

\* The acknowledgement of command x, if its sender still waits for it.
Acked(x, P, ok) ==
    [c \in Clients |-> IF c = x /\ P[c] = "await"
                       THEN IF ok THEN aux[c].then ELSE aux[c].fail
                       ELSE P[c]]
AckAll(X, P, ok) == [c \in Clients |-> IF c \in X THEN Acked(c, P, ok)[c] ELSE P[c]]

-----------------------------------------------------------------------------
(* The holder of the write lock. *)

\* DB.flush: room for the write, or a wait for the table compaction, or a
\* new memdb; an empty memdb may grow.
Free == MemCap - mem
Flush(c) ==
    /\ pc[c] = "flush"
    /\ LET n == Size(op[c])
           start(f) == /\ grp' = [NoGroup EXCEPT !.free = f,
                                                 !.limit = IF f - n < MergeLimit THEN f - n ELSE MergeLimit]
                       /\ Goto(c, "merge")
                       /\ UNCHANGED aux
       IN  IF Free >= n THEN start(Free)
           ELSE IF l0 >= PauseTrigger THEN Await(c, "t", "auto", "flush", "fail", None) /\ UNCHANGED grp
           ELSE IF mem = 0 THEN start(n)
           ELSE Await(c, "m", "auto", "newmem", "fail", "fresh") /\ UNCHANGED grp
    /\ UNCHANGED <<op, res, lock, dataVars, ce, locking, mc, tc, closed, closeC, fails>>

\* A memdb that rotateMem has just made.
Fresh(c) ==
    /\ pc[c] = "fresh"
    /\ LET n == Size(op[c])
       IN  grp' = [NoGroup EXCEPT !.free = MemCap,
                                  !.limit = IF MemCap - n < MergeLimit THEN MemCap - n ELSE MergeLimit]
    /\ Goto(c, "merge")
    /\ UNCHANGED <<op, res, aux, lock, dataVars, ce, locking, mc, tc, closed, closeC, fails>>

\* No more writes to merge.
MergeEnd(c) ==
    /\ pc[c] = "merge"
    /\ Goto(c, "write")
    /\ UNCHANGED <<op, res, aux, lock, grp, dataVars, ce, locking, mc, tc, closed, closeC, fails>>

\* writeJournal, putMem and addSeq; a failure is everybody's.  The journal is
\* flushed before it is synced, so that a group whose Sync fails is in the file
\* all the same.  (A journal that could not be written refuses every later group
\* until newMem; here it may recover.)  A memdb that the batch has filled is
\* rotated, and an error of that is ignored.
Group(c) == <<c>> \o grp.merged
Units(g) == Cardinality({u \in (DOMAIN g) \X (1 .. 2) : u[2] <= Size(op[g[u[1]]])})
Write(c) ==
    /\ pc[c] = "write"
    /\ \/ /\ journal' = Append(journal, Group(c))
          /\ mem' = mem + Units(Group(c))
          /\ IF Size(op[c]) >= grp.free
             THEN Await(c, "m", "auto", "newmem", "unlock", "unlock")
             ELSE Goto(c, "unlock") /\ UNCHANGED aux
          /\ UNCHANGED <<grp, fails>>
       \/ /\ fails < MaxFails
          /\ fails' = fails + 1
          /\ journal' \in {journal, Append(journal, Group(c))}
          /\ grp' = [grp EXCEPT !.err = "err"]
          /\ Goto(c, "unlock")
          /\ UNCHANGED <<mem, aux>>
    /\ UNCHANGED <<op, res, lock, frozen, l0, ce, locking, mc, tc, closed, closeC>>

\* newMem, and the trigger that nobody may be there to receive.  rotateMem
\* tries again when there is still a frozen memdb, and gives up at the third
\* time.
NewMem(c) ==
    /\ pc[c] = "newmem"
    /\ IF frozen /= None
       THEN /\ IF aux[c].tries = 2 THEN Goto(c, "panic") /\ UNCHANGED aux
               ELSE /\ Goto(c, "send")
                    /\ aux' = [aux EXCEPT ![c].tries = @ + 1]
            /\ UNCHANGED <<mem, frozen, mc>>
       ELSE /\ frozen' = mem /\ mem' = 0
            /\ IF aux[c].after = "txwait"
               THEN Await(c, "m", "auto", "txwait", "leak", None) /\ UNCHANGED mc
               ELSE /\ Goto(c, aux[c].after)
                    /\ aux' = [aux EXCEPT ![c] = NoAux]
                    /\ \/ UNCHANGED mc
                       \/ mc.pc = "idle" /\ mc' = [mc EXCEPT !.pc = "start", !.cmd = None]
    /\ UNCHANGED <<op, res, lock, grp, l0, journal, ce, locking, tc, closed, closeC, fails>>

\* Mutant: a merged write is told of success.
AckOk(l, c) ==
    /\ pc[l] = "unlock" /\ c \in ToSet(grp.merged) /\ pc[c] = "merged"
    /\ Return(c, "ok")
    /\ UNCHANGED <<op, aux, lock, grp, dataVars, ce, locking, mc, tc, closed, closeC, fails>>

\* unlockWrite: every merged write gets the result; then the lock goes to
\* the write that did not fit, or back.
Ack(l, c) ==
    /\ pc[l] = "unlock" /\ c \in ToSet(grp.merged) /\ pc[c] = "merged"
    /\ Return(c, grp.err)
    /\ UNCHANGED <<op, aux, lock, grp, dataVars, ce, locking, mc, tc, closed, closeC, fails>>

\* Mutant: the lock is given back although another writer was promised it.
UnlockAlways(l) ==
    /\ pc[l] = "unlock" /\ \A c \in ToSet(grp.merged) : pc[c] /= "merged"
    /\ pc' = [c \in Clients |-> IF c = l THEN "done" ELSE IF c = grp.over THEN "flush" ELSE pc[c]]
    /\ res' = [res EXCEPT ![l] = grp.err]
    /\ lock' = None
    /\ grp' = NoGroup
    /\ UNCHANGED <<op, aux, dataVars, ce, locking, mc, tc, closed, closeC, fails>>

Unlock(l) ==
    /\ pc[l] = "unlock" /\ \A c \in ToSet(grp.merged) : pc[c] /= "merged"
    /\ pc' = [c \in Clients |-> IF c = l THEN "done" ELSE IF c = grp.over THEN "flush" ELSE pc[c]]
    /\ res' = [res EXCEPT ![l] = grp.err]
    /\ lock' = grp.over
    /\ grp' = NoGroup
    /\ UNCHANGED <<op, aux, dataVars, ce, locking, mc, tc, closed, closeC, fails>>

\* The error path of a write or of CompactRange: the lock is released.
Fail(c) ==
    /\ pc[c] = "fail"
    /\ lock' = None
    /\ Return(c, "err")
    /\ UNCHANGED <<op, aux, grp, dataVars, ce, locking, mc, tc, closed, closeC, fails>>

\* The error paths without the lock, and those that keep it.
FailUnlocked(c) ==
    /\ pc[c] \in {"error", "leak"}
    /\ Return(c, "err")
    /\ UNCHANGED <<op, aux, lock, grp, dataVars, ce, locking, mc, tc, closed, closeC, fails>>

-----------------------------------------------------------------------------
(* CompactRange, SetReadOnly, OpenTransaction and Commit, Close. *)

Range1(c) ==
    /\ pc[c] = "range"
    /\ IF mem > 0 THEN Await(c, "m", "auto", "newmem", "fail", "rangewait") /\ UNCHANGED lock
       ELSE Await(c, "t", "range", "ok", "error", None) /\ lock' = None
    /\ UNCHANGED <<op, res, grp, dataVars, ce, locking, mc, tc, closed, closeC, fails>>

\* The memdb is rotated; the lock goes back before the waits.
Range2(c) ==
    /\ pc[c] = "rangewait"
    /\ lock' = None
    /\ Await(c, "m", "auto", "rangetable", "error", None)
    /\ UNCHANGED <<op, res, grp, dataVars, ce, locking, mc, tc, closed, closeC, fails>>
Range3(c) ==
    /\ pc[c] = "rangetable"
    /\ Await(c, "t", "range", "ok", "error", None)
    /\ UNCHANGED <<op, res, lock, grp, dataVars, ce, locking, mc, tc, closed, closeC, fails>>

Ok(c) ==
    /\ pc[c] = "ok"
    /\ Return(c, "ok")
    /\ UNCHANGED <<op, aux, lock, grp, dataVars, ce, locking, mc, tc, closed, closeC, fails>>

\* SetReadOnly keeps the lock, whatever happens.
ReadOnly(c) ==
    /\ pc[c] = "readonly"
    /\ \/ ce \in {"no", "err"} /\ ce' = "perm" /\ Return(c, "ok")
       \/ ce = "perm" /\ Return(c, "err") /\ UNCHANGED ce
       \/ closeC /\ Return(c, "closed") /\ UNCHANGED ce
    /\ UNCHANGED <<op, aux, lock, grp, dataVars, locking, mc, tc, closed, closeC, fails>>

\* OpenTransaction flushes the memdb and waits for level 0; its error
\* returns keep the lock.
TxOpen(c) ==
    /\ pc[c] \in {"tx", "txwait"}
    /\ IF pc[c] = "tx" /\ mem > 0 THEN Await(c, "m", "auto", "newmem", "leak", "txwait")
       ELSE IF l0 >= PauseTrigger THEN Await(c, "t", "auto", "txopen", "leak", None)
       ELSE Goto(c, "txopen") /\ UNCHANGED aux
    /\ UNCHANGED <<op, res, lock, grp, dataVars, ce, locking, mc, tc, closed, closeC, fails>>

\* Commit adds its tables, triggers the table compaction and, if level 0 is
\* full, waits for it, error or not; or the client discards.
TxCommit(c) ==
    /\ pc[c] = "txopen" /\ ~closed
    /\ l0' = l0 + 1
    /\ IF l0' >= PauseTrigger THEN Await(c, "t", "auto", "txend", "txend", None)
       ELSE Goto(c, "txend") /\ UNCHANGED aux
    /\ \/ tc.pc = "select" /\ ~tc.paused /\ tc' = [tc EXCEPT !.pc = "auto"]
       \/ UNCHANGED tc
    /\ UNCHANGED <<op, res, lock, grp, mem, frozen, journal, ce, locking, mc, closed, closeC, fails>>

TxEnd(c) ==
    /\ pc[c] = "txend" \/ (pc[c] = "txopen" /\ closed)
    /\ lock' = None
    /\ Return(c, IF pc[c] = "txend" THEN "ok" ELSE "closed")
    /\ UNCHANGED <<op, aux, grp, dataVars, ce, locking, mc, tc, closed, closeC, fails>>

\* Close tells everybody, discards a transaction that is open,
Close1(c) ==
    /\ pc[c] = "close"
    /\ closeC' = TRUE
    /\ LET T == {x \in Clients : pc[x] = "txopen"}
       IN  /\ pc' = [x \in Clients |-> IF x = c THEN "closelock" ELSE IF x \in T THEN "done" ELSE pc[x]]
           /\ res' = [x \in Clients |-> IF x \in T THEN "closed" ELSE res[x]]
           /\ lock' = IF T = {} THEN lock ELSE None
    /\ UNCHANGED <<op, aux, grp, dataVars, ce, locking, mc, tc, closed, fails>>

\* takes the lock, for good, and waits for the goroutines.
Close2(c) ==
    /\ pc[c] = "closelock" /\ lock = None
    /\ lock' = c
    /\ Goto(c, "closewait")
    /\ UNCHANGED <<op, res, aux, grp, dataVars, ce, locking, mc, tc, closed, closeC, fails>>
Close3(c) ==
    /\ pc[c] = "closewait" /\ ce = "gone" /\ mc.pc = "gone" /\ tc.pc = "gone"
    /\ Return(c, "ok")
    /\ UNCHANGED <<op, aux, lock, grp, dataVars, ce, locking, mc, tc, closed, closeC, fails>>

ClientStep(c) ==
    \/ TakeLock(c) \/ Refused(c) \/ AwaitFails(c)
    \/ Flush(c) \/ Fresh(c) \/ MergeEnd(c) \/ Write(c) \/ NewMem(c) \/ Unlock(c)
    \/ \E m \in Clients : Merge(c, m) \/ Ack(c, m)
    \/ Fail(c) \/ FailUnlocked(c)
    \/ Range1(c) \/ Range2(c) \/ Range3(c) \/ Ok(c) \/ ReadOnly(c)
    \/ TxOpen(c) \/ TxCommit(c) \/ TxEnd(c) \/ Close1(c) \/ Close2(c) \/ Close3(c)

-----------------------------------------------------------------------------
(* compactionError. *)

\* With a persistent error it also takes the write lock when it can, and
\* gives it back at the end, whoever had taken it for it.
ErrorLock ==
    /\ ce = "perm" /\ lock = None
    /\ lock' = "error" /\ locking' = TRUE
    /\ UNCHANGED <<clientVars, grp, dataVars, ce, mc, tc, closed, closeC, fails>>

ErrorExit ==
    /\ ce /= "gone" /\ closeC
    /\ ce' = "gone"
    /\ lock' = IF ce = "perm" /\ locking THEN None ELSE lock
    /\ UNCHANGED <<clientVars, grp, dataVars, locking, mc, tc, closed, closeC, fails>>

\* The state that the outcome of a run puts compactionError in: a corruption
\* is persistent.
ErrorState(o) == IF o = "ok" THEN "no" ELSE IF o = "err" THEN "err" ELSE "perm"

\* compactionTransact: the outcomes of a run, "ok", "err" or "corrupted",
\* each with the state of compactionError after it and whether the
\* goroutine goes on.
Outcomes ==
    LET May(o) == o = "ok" \/ (fails < MaxFails /\ ("failInTx" \in Allow \/ \A c \in Opening : op[c] /= "tx"))
    IN  {[run |-> o, ce |-> ErrorState(o), exit |-> o = "corrupted"] :
            o \in {x \in {"ok", "err", "corrupted"} : May(x) /\ ce \in {"no", "err"}}}
        \cup {[run |-> o, ce |-> ce, exit |-> o /= "ok"] :
            o \in {x \in {"ok", "err", "corrupted"} : May(x) /\ ce = "perm"}}
        \cup {[run |-> o, ce |-> ce, exit |-> TRUE] :
            o \in {x \in {"ok", "err", "corrupted"} : May(x) /\ closeC}}

-----------------------------------------------------------------------------
(* mCompaction. *)

MExit ==
    /\ mc' = [pc |-> "gone", cmd |-> None, pausing |-> FALSE]
    /\ pc' = Acked(mc.cmd, pc, FALSE)

MReceive(c) ==
    /\ mc.pc = "idle" /\ pc[c] = "send" /\ aux[c].ch = "m"
    /\ mc' = [mc EXCEPT !.pc = "start", !.cmd = c]
    /\ Goto(c, "await")
    /\ UNCHANGED <<op, res, aux, lock, grp, dataVars, ce, locking, tc, closed, closeC, fails>>

MClosed ==
    /\ mc.pc \in {"idle", "pause", "resume", "backoff"} /\ closeC
    /\ MExit
    /\ UNCHANGED <<op, res, aux, lock, grp, dataVars, ce, locking, tc, closed, closeC, fails>>

\* Mutant: the command is acknowledged without the compaction.
MStartSkips ==
    /\ mc.pc = "start"
    /\ mc' = [mc EXCEPT !.pc = "ack"]
    /\ UNCHANGED <<clientVars, lock, grp, dataVars, ce, locking, tc, closed, closeC, fails>>

\* memCompaction: nothing to do, or an empty memdb to drop,
MStart ==
    /\ mc.pc = "start"
    /\ mc' = [mc EXCEPT !.pc = IF frozen \in {None, 0} THEN "ack" ELSE "pause"]
    /\ frozen' = IF frozen = 0 THEN None ELSE frozen
    /\ UNCHANGED <<clientVars, lock, grp, mem, l0, journal, ce, locking, tc, closed, closeC, fails>>

\* or else it pauses the table compaction,
MPause ==
    /\ mc.pc = "pause"
    /\ \/ /\ tc.pc \in {"poll", "select", "run"} /\ ~tc.paused
          /\ tc' = [tc EXCEPT !.paused = TRUE]
          /\ mc' = [mc EXCEPT !.pc = "flush", !.pausing = TRUE]
       \/ ce = "perm" /\ mc' = [mc EXCEPT !.pc = "flush"] /\ UNCHANGED tc
    /\ UNCHANGED <<clientVars, lock, grp, dataVars, ce, locking, closed, closeC, fails>>

\* flushes and commits, again after each failure, until the database is
\* closed,
MRun ==
    /\ mc.pc = "flush"
    /\ IF closed THEN MExit /\ UNCHANGED <<frozen, l0, ce, fails>>
       ELSE \E o \in Outcomes :
            /\ ce' = o.ce
            /\ fails' = IF o.run = "ok" THEN fails ELSE fails + 1
            /\ IF o.exit THEN MExit /\ UNCHANGED <<frozen, l0>>
               ELSE IF o.run = "ok"
               THEN /\ frozen' = None /\ l0' = l0 + 1
                    /\ mc' = [mc EXCEPT !.pc = IF mc.pausing THEN "resume" ELSE "trigger"]
                    /\ UNCHANGED pc
               ELSE mc' = [mc EXCEPT !.pc = "backoff"] /\ UNCHANGED <<pc, frozen, l0>>
    /\ UNCHANGED <<op, res, aux, lock, grp, mem, journal, locking, tc, closed, closeC>>
MBackoff ==
    /\ mc.pc = "backoff"
    /\ mc' = [mc EXCEPT !.pc = "flush"]
    /\ UNCHANGED <<clientVars, lock, grp, dataVars, ce, locking, tc, closed, closeC, fails>>

\* and lets the table compaction go on.
MResume ==
    /\ mc.pc = "resume" /\ tc.paused
    /\ tc' = [tc EXCEPT !.paused = FALSE, !.pc = IF @ = "run" THEN "run" ELSE "check"]
    /\ mc' = [mc EXCEPT !.pc = "trigger", !.pausing = FALSE]
    /\ UNCHANGED <<clientVars, lock, grp, dataVars, ce, locking, closed, closeC, fails>>
MTrigger ==
    /\ mc.pc = "trigger"
    /\ mc' = [mc EXCEPT !.pc = "ack"]
    /\ \/ tc.pc = "select" /\ ~tc.paused /\ tc' = [tc EXCEPT !.pc = "auto"]
       \/ UNCHANGED tc
    /\ UNCHANGED <<clientVars, lock, grp, dataVars, ce, locking, closed, closeC, fails>>

\* Mutant: the acknowledgement is forgotten.
MAckLost ==
    /\ mc.pc = "ack"
    /\ mc' = [mc EXCEPT !.pc = "idle", !.cmd = None]
    /\ UNCHANGED <<clientVars, lock, grp, dataVars, ce, locking, tc, closed, closeC, fails>>

MAck ==
    /\ mc.pc = "ack"
    /\ pc' = Acked(mc.cmd, pc, TRUE)
    /\ mc' = [mc EXCEPT !.pc = "idle", !.cmd = None]
    /\ UNCHANGED <<op, res, aux, lock, grp, dataVars, ce, locking, tc, closed, closeC, fails>>

MStep == (\E c \in Clients : MReceive(c)) \/ MClosed \/ MStart \/ MPause \/ MRun \/ MBackoff
         \/ MResume \/ MTrigger \/ MAck

-----------------------------------------------------------------------------
(* tCompaction. *)

Need == l0 >= L0Trigger
ResumeWrite == l0 < PauseTrigger

TExit ==
    /\ tc' = [pc |-> "gone", cmd |-> None, waitQ |-> {}, paused |-> FALSE]
    /\ pc' = AckAll(tc.waitQ \cup {tc.cmd}, pc, FALSE)

\* The top of the loop: the waiting writers are let go when there is nothing
\* to compact.
TCheck ==
    /\ tc.pc = "check"
    /\ IF Need THEN tc' = [tc EXCEPT !.pc = "poll"] /\ UNCHANGED pc
       ELSE tc' = [tc EXCEPT !.pc = "select", !.waitQ = {}] /\ pc' = AckAll(tc.waitQ, pc, TRUE)
    /\ UNCHANGED <<op, res, aux, lock, grp, dataVars, ce, locking, mc, closed, closeC, fails>>

\* Between two compactions they are let go as soon as level 0 is small
\* enough.
TPoll ==
    /\ tc.pc = "poll" /\ ~tc.paused
    /\ tc' = [tc EXCEPT !.pc = "auto", !.waitQ = IF ResumeWrite THEN {} ELSE @]
    /\ pc' = IF ResumeWrite THEN AckAll(tc.waitQ, pc, TRUE) ELSE pc
    /\ UNCHANGED <<op, res, aux, lock, grp, dataVars, ce, locking, mc, closed, closeC, fails>>

\* A command is received: a writer waits in waitQ while level 0 is full.
TReceive(c) ==
    /\ tc.pc \in {"poll", "select"} /\ ~tc.paused /\ pc[c] = "send" /\ aux[c].ch = "t"
    /\ LET let == IF tc.pc = "poll" /\ ResumeWrite THEN tc.waitQ ELSE {}
           P == [AckAll(let, pc, TRUE) EXCEPT ![c] = "await"]
       IN  IF aux[c].kind = "range"
           THEN tc' = [tc EXCEPT !.pc = "run", !.cmd = c, !.waitQ = @ \ let] /\ pc' = P
           ELSE IF ResumeWrite
           THEN tc' = [tc EXCEPT !.pc = "auto", !.waitQ = @ \ let] /\ pc' = Acked(c, P, TRUE)
           ELSE tc' = [tc EXCEPT !.pc = "auto", !.waitQ = (@ \ let) \cup {c}] /\ pc' = P
    /\ UNCHANGED <<op, res, aux, lock, grp, dataVars, ce, locking, mc, closed, closeC, fails>>

TClosed ==
    /\ tc.pc \in {"poll", "select", "backoff"} \/ (tc.pc /= "gone" /\ tc.paused)
    /\ closeC
    /\ TExit
    /\ UNCHANGED <<op, res, aux, lock, grp, dataVars, ce, locking, mc, closed, closeC, fails>>

TAuto ==
    /\ tc.pc = "auto"
    /\ tc' = [tc EXCEPT !.pc = IF Need THEN "run" ELSE "check"]
    /\ UNCHANGED <<clientVars, lock, grp, dataVars, ce, locking, mc, closed, closeC, fails>>

\* A compaction of level 0; a range command is acknowledged after it.
TRun ==
    /\ tc.pc = "run" /\ ~tc.paused
    /\ IF closed THEN TExit /\ UNCHANGED <<l0, ce, fails>>
       ELSE \E o \in Outcomes :
            /\ ce' = o.ce
            /\ fails' = IF o.run = "ok" THEN fails ELSE fails + 1
            /\ IF o.exit THEN TExit /\ UNCHANGED l0
               ELSE IF o.run = "ok"
               THEN /\ l0' = 0
                    /\ tc' = [tc EXCEPT !.pc = IF @ = "run" /\ tc.cmd /= None THEN "auto" ELSE "check",
                                        !.cmd = None]
                    /\ pc' = Acked(tc.cmd, pc, TRUE)
               ELSE tc' = [tc EXCEPT !.pc = "backoff"] /\ UNCHANGED <<pc, l0>>
    /\ UNCHANGED <<op, res, aux, lock, grp, mem, frozen, journal, locking, mc, closed, closeC>>
TBackoff ==
    /\ tc.pc = "backoff"
    /\ tc' = [tc EXCEPT !.pc = "run"]
    /\ UNCHANGED <<clientVars, lock, grp, dataVars, ce, locking, mc, closed, closeC, fails>>

TStep == (\E c \in Clients : TReceive(c)) \/ TCheck \/ TPoll \/ TClosed \/ TAuto \/ TRun \/ TBackoff

-----------------------------------------------------------------------------

Init ==
    /\ pc = [c \in Clients |-> "idle"] /\ op = [c \in Clients |-> None]
    /\ res = [c \in Clients |-> None] /\ aux = [c \in Clients |-> NoAux]
    /\ lock = None /\ grp = NoGroup
    /\ mem \in {0, MemCap} /\ frozen = None /\ l0 \in {0, PauseTrigger} /\ journal = <<>>
    /\ ce = "no" /\ locking = FALSE
    /\ mc = [pc |-> "idle", cmd |-> None, pausing |-> FALSE]
    /\ tc = [pc |-> "check", cmd |-> None, waitQ |-> {}, paused |-> FALSE]
    /\ closed = FALSE /\ closeC = FALSE /\ fails = 0

Next ==
    \/ \E c \in Clients : \E o \in Calls[c] : Call(c, o)
    \/ \E c \in Clients : ClientStep(c)
    \/ ErrorLock \/ ErrorExit
    \/ MStep
    \/ TStep

Spec == Init /\ [][Next]_vars

\* Every goroutine that can take a step takes one in the end, which the Go
\* scheduler sees to.
FairSpec ==
    /\ Spec
    /\ \A c \in Clients : WF_vars(ClientStep(c))
    /\ WF_vars(ErrorExit) /\ WF_vars(MStep) /\ WF_vars(TStep)

-----------------------------------------------------------------------------
(* Properties. *)

Labels == {"idle", "wait", "merged", "over", "send", "await", "flush", "fresh", "merge", "write",
           "newmem", "unlock", "fail", "error", "leak", "range", "rangewait", "rangetable", "ok",
           "readonly", "tx", "txwait", "txopen", "txend", "close", "closelock", "closewait",
           "done", "panic"}

TypeOK ==
    /\ pc \in [Clients -> Labels] /\ op \in [Clients -> AllCalls \cup {None}]
    /\ res \in [Clients -> {None, "ok", "err", "closed"}]
    /\ lock \in Clients \cup {None, "error"}
    /\ mem \in Nat /\ frozen \in Nat \cup {None} /\ l0 \in Nat
    /\ ce \in {"no", "err", "perm", "gone"} /\ {locking, closed, closeC} \subseteq BOOLEAN
    /\ mc.pc \in {"idle", "start", "pause", "flush", "backoff", "resume", "trigger", "ack", "gone"}
    /\ tc.pc \in {"check", "poll", "select", "auto", "run", "backoff", "gone"}
    /\ fails \in 0 .. MaxFails

\* The part of a call that needs the write lock.
Inside(c) ==
    \/ pc[c] \in {"flush", "fresh", "merge", "write", "newmem", "unlock", "fail", "leak", "range",
                  "rangewait", "readonly", "tx", "txwait", "txopen", "txend", "closewait"}
    \/ pc[c] \in {"send", "await"} /\ aux[c].fail /= "error"

\* Whoever is in a part of its call that needs the write lock has it, also
\* after it was handed over by a writer that could not merge the write, and
\* while a compaction is awaited: so there is never a second one.
\* (writeLocked, unlockWrite, rotateMem, SetReadOnly, OpenTransaction)
OneWriter == \A c \in Clients : Inside(c) => lock = c

\* Where the write of c is in the journal.
Written(c) ==
    {p \in (DOMAIN journal) \X (1 .. Cardinality(Clients)) :
        p[2] \in DOMAIN journal[p[1]] /\ journal[p[1]][p[2]] = c}

\* A write that returns nil is in the journal once, in one group; one that
\* returns an error is there once at most (its Sync may have failed), and one
\* that the end of the database turned away is not.  The writes of one group
\* are told the same, whoever has written it for them: no result reaches a
\* writer of another group, no merged write is lost or written twice.
\* (writeJournal, writeLocked, unlockWrite, the ends of Write and putRec)
ResultsMatch ==
    /\ \A c \in Clients : pc[c] = "done" /\ op[c] \in {"put", "batch"} =>
          /\ res[c] = "ok" => Cardinality(Written(c)) = 1
          /\ res[c] = "err" => Cardinality(Written(c)) <= 1
          /\ res[c] = "closed" => Written(c) = {}
    /\ \A i \in DOMAIN journal : \A c, d \in ToSet(journal[i]) :
          pc[c] = "done" /\ pc[d] = "done" => res[c] = res[d]

\* rotateMem never finds, after waiting, that there is still a frozen memdb:
\* no retry, and not the panic "BUG: still has frozen memdb".  (rotateMem,
\* newMem, mCompaction)
NoRetry == \A c \in Clients : pc[c] = "newmem" => frozen = None

\* Every call returns: no writer waits for ever for the lock, for a merge,
\* for an acknowledgement or for a compaction, whatever fails and whoever
\* closes the database.  (Write, putRec, CompactRange, SetReadOnly,
\* OpenTransaction, Close)
EveryCallReturns == \A c \in Clients : pc[c] /= "idle" ~> pc[c] = "done"

=============================================================================

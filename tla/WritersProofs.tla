---------------------------- MODULE WritersProofs ----------------------------
(***************************************************************************)
(* Proofs about Writers, for any number of goroutines and any sizes and    *)
(* limits.                                                                 *)
(***************************************************************************)
EXTENDS Writers, FiniteSetTheorems, TLAPS

-----------------------------------------------------------------------------
(* Control. *)

Writes == {"put", "batch"}
Waiting == {"send", "await", "newmem"}

\* The places of each call.
Places(o, l) ==
    /\ o = None => l = "idle"
    /\ o \in Writes => l \in Waiting \cup {"wait", "flush", "fresh", "merge", "write", "unlock",
                                          "over", "merged", "fail", "done", "panic"}
    /\ o = "range" => l \in Waiting \cup {"wait", "range", "rangewait", "rangetable", "ok",
                                          "error", "fail", "done", "panic"}
    /\ o = "readonly" => l \in {"wait", "readonly", "done"}
    /\ o = "tx" => l \in Waiting \cup {"wait", "tx", "txwait", "txopen", "txend", "leak", "done", "panic"}
    /\ o = "close" => l \in {"close", "closelock", "closewait", "done"}

\* The waits of each call: the channel, and where they go on, after an
\* acknowledgement, after an error, and after newMem.
WaitsAs(o, ch, then, fail, after) ==
    /\ o \in Writes => \/ ch = "t" /\ then = "flush" /\ fail = "fail" /\ after = None
                       \/ ch = "m" /\ then = "newmem" /\ fail = "fail" /\ after = "fresh"
                       \/ ch = "m" /\ then = "newmem" /\ fail = "unlock" /\ after = "unlock"
    /\ o = "range" => \/ ch = "m" /\ then = "newmem" /\ fail = "fail" /\ after = "rangewait"
                      \/ ch = "m" /\ then = "rangetable" /\ fail = "error" /\ after = None
                      \/ ch = "t" /\ then = "ok" /\ fail = "error" /\ after = None
    /\ o = "tx" => \/ ch = "m" /\ then = "newmem" /\ fail = "leak" /\ after = "txwait"
                   \/ ch = "m" /\ then = "txwait" /\ fail = "leak" /\ after = None
                   \/ ch = "t" /\ then = "txopen" /\ fail = "leak" /\ after = None
                   \/ ch = "t" /\ then = "txend" /\ fail = "txend" /\ after = None
Waits(o, a) == WaitsAs(o, a.ch, a.then, a.fail, a.after)

\* The data.
DataInv ==
    /\ res \in [Clients -> {None, "ok", "err", "closed"}]
    /\ mem \in Nat /\ frozen \in Nat \cup {None} /\ l0 \in Nat
    /\ locking \in BOOLEAN /\ fails \in 0 .. MaxFails

\* Place l and wait a fit call o.
Fits(o, l, a) ==
    /\ Places(o, l)
    /\ l \in Waiting => Waits(o, a)
    /\ l = "newmem" => a.then = "newmem"

Aux == [ch : {None, "m", "t"}, kind : {None, "auto", "range"}, then : Labels \cup {None},
        fail : Labels \cup {None}, after : Labels \cup {None}, tries : 0 .. 2]

ControlInv ==
    /\ pc \in [Clients -> Labels] /\ op \in [Clients -> AllCalls \cup {None}]
    /\ aux \in [Clients -> Aux]
    /\ \A c \in Clients : Fits(op[c], pc[c], aux[c])

-----------------------------------------------------------------------------
(* The write lock. *)

\* Who is in a part of a call that needs the lock has it; but SetReadOnly,
\* when compactionError has given the lock back at the end of the database
\* and it has not yet noticed.
HolderInv ==
    /\ lock \in Clients \cup {None, "error"}
    /\ ce \in {"no", "err", "perm", "gone"}
    /\ \A c \in Clients : Inside(c) => lock = c \/ (pc[c] = "readonly" /\ ce = "gone")
    /\ locking /\ ce /= "gone" => lock = "error" \/ (lock \in Clients /\ op[lock] = "readonly")

\* Close.
CloseInv ==
    /\ {closed, closeC} \subseteq BOOLEAN
    /\ closeC => closed
    /\ ce = "gone" => closeC
    /\ \A c \in Clients : op[c] = "close" => closed
    /\ "closeInCall" \notin Allow => (closed => Opening = {})

-----------------------------------------------------------------------------
(* Commands and acknowledgements. *)

\* Where a call that has stopped waiting ends.
Ends == {"fail", "unlock", "error", "leak", "txend", "done"}

\* c waits for the goroutine behind channel ch, or has given up.
WaitsFor(c, ch) == (pc[c] = "await" /\ aux[c].ch = ch) \/ pc[c] \in Ends

CommandInv ==
    /\ mc \in [pc : {"idle", "start", "pause", "flush", "backoff", "resume", "trigger", "ack", "gone"},
               cmd : Clients \cup {None}, pausing : BOOLEAN]
    /\ tc \in [pc : {"check", "poll", "select", "auto", "run", "backoff", "gone"},
               cmd : Clients \cup {None}, waitQ : SUBSET Clients, paused : BOOLEAN]
    /\ mc.cmd /= None => WaitsFor(mc.cmd, "m")
    /\ \A c \in Clients : c \in tc.waitQ \cup {tc.cmd} => WaitsFor(c, "t")
    /\ tc.cmd \notin tc.waitQ

\* A memdb compaction that is done with has left no frozen memdb to a writer
\* that waits to make the next one.
FrozenInv ==
    /\ \A c \in Clients : pc[c] = "newmem" => frozen = None
    /\ mc.cmd /= None /\ mc.pc \in {"resume", "trigger", "ack"} =>
          (pc[mc.cmd] = "await" /\ aux[mc.cmd].then = "newmem" => frozen = None)

-----------------------------------------------------------------------------
(* Groups and the journal. *)

Absent(c) == \A i \in DOMAIN journal : \A j \in DOMAIN journal[i] : journal[i][j] /= c
Once(c) ==
    \E i \in DOMAIN journal : \E j \in DOMAIN journal[i] :
        /\ journal[i][j] = c
        /\ \A k \in DOMAIN journal : \A m \in DOMAIN journal[k] : journal[k][m] = c => k = i /\ m = j

\* What has become of the group of l, if it has been given to the journal.
Verdict(l) ==
    IF pc[l] = "unlock" THEN grp.err
    ELSE IF pc[l] \in Waiting /\ aux[l].fail = "unlock" THEN "ok" ELSE "none"
Grouping(l) == pc[l] \in {"merge", "write", "unlock"} \/ (pc[l] \in Waiting /\ aux[l].fail = "unlock")

\* What the journal has of a write that is told t: once what has succeeded, and
\* once or not at all what has failed.
Entry(c, t) ==
    /\ t = "ok" => Once(c)
    /\ t = "err" => Once(c) \/ Absent(c)
    /\ t \notin {"ok", "err"} => Absent(c)

IsInjectiveSeq(s) == \A i, j \in DOMAIN s : s[i] = s[j] => i = j

GroupInv ==
    /\ DOMAIN grp = DOMAIN NoGroup /\ grp.merged \in Seq(Clients)
    /\ grp.over \in Clients \cup {None} /\ grp.err \in {"ok", "err"}
    /\ IsInjectiveSeq(grp.merged)
    /\ \A c \in ToSet(grp.merged) : pc[c] \in {"merged", "done"}
    /\ \A c \in Clients : pc[c] = "merged" =>
          c \in ToSet(grp.merged) /\ lock \in Clients /\ Grouping(lock)
    /\ \A c \in Clients : pc[c] \in {"merge", "write"} =>
          \A d \in ToSet(grp.merged) : pc[d] = "merged"
    /\ \A c \in Clients : (pc[c] = "over" => grp.over = c) /\ (pc[c] = "merge" => grp.over = None)
    /\ grp.over /= None => pc[grp.over] = "over" /\ lock \in Clients /\ Grouping(lock)
    /\ \A c \in Clients : pc[c] \in {"merge", "write"} \/ (pc[c] \in Waiting /\ aux[c].fail = "unlock") =>
          grp.err = "ok"

\* What the write c has been told, or is going to be told.
Told(c) ==
    IF op[c] \notin Writes THEN "none"
    ELSE IF pc[c] = "done" THEN res[c] ELSE IF pc[c] = "merged" THEN Verdict(lock) ELSE Verdict(c)

JournalInv ==
    /\ journal \in Seq(Seq(Clients))
    /\ \A i \in DOMAIN journal : IsInjectiveSeq(journal[i])
    /\ \A c \in Clients : Entry(c, Told(c))
    /\ \A i \in DOMAIN journal : \A j, k \in DOMAIN journal[i] : Told(journal[i][j]) = Told(journal[i][k])

WInv == DataInv /\ ControlInv /\ HolderInv /\ CloseInv /\ CommandInv /\ FrozenInv /\ GroupInv /\ JournalInv

-----------------------------------------------------------------------------
(* Steps of the goroutines, as the clients see them: some waits begin or   *)
(* end, and nothing else of theirs changes.                                *)

Answers(c) ==
    pc'[c] = pc[c] \/ (pc[c] \in {"send", "await"} /\ pc'[c] \in {"await", aux[c].then, aux[c].fail})
Answered ==
    /\ UNCHANGED <<op, res, aux, lock, grp, journal, locking, closed, closeC>>
    /\ DOMAIN pc' = Clients /\ pc' = [c \in Clients |-> pc'[c]]
    /\ \A c \in Clients : Answers(c)
    /\ ce' = ce \/ (ce /= "gone" /\ ce' \in {"no", "err", "perm"})

\* What an outcome of a compaction does to compactionError: it never ends
\* it.  (compactionTransact)
LEMMA OutcomesOk ==
    ASSUME HolderInv, NEW o \in Outcomes
    PROVE  o.ce = ce \/ (ce /= "gone" /\ o.ce \in {"no", "err", "perm"})
  BY DEF HolderInv, Outcomes, ErrorState

\* Acknowledgements only end waits.  (cAuto.ack, cRange.ack)
LEMMA AckedOk ==
    ASSUME ControlInv, NEW x, NEW ok
    PROVE  /\ DOMAIN Acked(x, pc, ok) = Clients
           /\ \A c \in Clients :
                 Acked(x, pc, ok)[c] = pc[c] \/ (pc[c] \in {"send", "await"} /\ Acked(x, pc, ok)[c] \in {aux[c].then, aux[c].fail})
  BY DEF Acked

\* Every step of the memdb compaction is such a step.  (mCompaction)
LEMMA MStepAnswers ==
    ASSUME ControlInv, HolderInv, MStep
    PROVE  Answered
  <1>1. ASSUME NEW c \in Clients, MReceive(c) PROVE Answered
    BY <1>1 DEF MReceive, Answered, Answers, Goto, ControlInv, dataVars
  <1>2. CASE MClosed
    BY <1>2 DEF MClosed, MExit, Acked, Answered, Answers, dataVars
  <1>3. CASE MStart \/ MPause \/ MBackoff \/ MResume \/ MTrigger
    BY <1>3 DEF MStart, MPause, MBackoff, MResume, MTrigger, Answered, Answers, dataVars, clientVars, ControlInv
  <1>4. CASE MRun
    <2>1. CASE MExit /\ UNCHANGED ce
      BY <1>4, <2>1 DEF MRun, MExit, Acked, Answered, Answers
    <2>2. CASE \E o \in Outcomes : ce' = o.ce /\ (MExit \/ UNCHANGED pc)
      <3>1. ce' = ce \/ (ce /= "gone" /\ ce' \in {"no", "err", "perm"})
        BY <2>2, OutcomesOk
      <3>2. DOMAIN pc' = Clients /\ pc' = [c \in Clients |-> pc'[c]] /\ \A c \in Clients : Answers(c)
        BY <2>2 DEF MExit, Acked, Answers, ControlInv
      <3> QED
        BY <1>4, <3>1, <3>2 DEF MRun, Answered
    <2> QED
      BY <1>4, <2>1, <2>2 DEF MRun
  <1>5. CASE MAck
    BY <1>5 DEF MAck, Acked, Answered, Answers, dataVars
  <1> QED
    BY <1>1, <1>2, <1>3, <1>4, <1>5 DEF MStep

\* And of the table compaction.  (tCompaction)
LEMMA TStepAnswers ==
    ASSUME ControlInv, HolderInv, TStep
    PROVE  Answered
  <1>1. ASSUME NEW c \in Clients, TReceive(c) PROVE Answered
    <2>1. UNCHANGED <<op, res, aux, lock, grp, journal, locking, closed, closeC, ce>>
      BY <1>1 DEF TReceive, dataVars
    <2>2. ASSUME NEW let, pc' = [AckAll(let, pc, TRUE) EXCEPT ![c] = "await"]
          PROVE  DOMAIN pc' = Clients /\ pc' = [d \in Clients |-> pc'[d]] /\ \A d \in Clients : Answers(d)
      BY <1>1, <2>2 DEF AckAll, Acked, Answers, TReceive
    <2>3. ASSUME NEW let, pc' = Acked(c, [AckAll(let, pc, TRUE) EXCEPT ![c] = "await"], TRUE)
          PROVE  DOMAIN pc' = Clients /\ pc' = [d \in Clients |-> pc'[d]] /\ \A d \in Clients : Answers(d)
      BY <1>1, <2>3 DEF AckAll, Acked, Answers, TReceive
    <2>4. \E let : \/ pc' = [AckAll(let, pc, TRUE) EXCEPT ![c] = "await"]
                   \/ pc' = Acked(c, [AckAll(let, pc, TRUE) EXCEPT ![c] = "await"], TRUE)
      BY <1>1 DEF TReceive
    <2> QED
      BY <2>1, <2>2, <2>3, <2>4 DEF Answered
  <1>2. CASE TCheck \/ TPoll \/ TClosed
    BY <1>2 DEF TCheck, TPoll, TClosed, TExit, AckAll, Acked, Answered, Answers, dataVars, ControlInv
  <1>3. CASE TAuto \/ TBackoff
    BY <1>3 DEF TAuto, TBackoff, Answered, Answers, dataVars, clientVars, ControlInv
  <1>4. CASE TRun
    <2>1. CASE TExit /\ UNCHANGED ce
      BY <1>4, <2>1 DEF TRun, TExit, AckAll, Acked, Answered, Answers
    <2>2. CASE \E o \in Outcomes : ce' = o.ce /\ (TExit \/ UNCHANGED pc \/ pc' = Acked(tc.cmd, pc, TRUE))
      <3>1. ce' = ce \/ (ce /= "gone" /\ ce' \in {"no", "err", "perm"})
        BY <2>2, OutcomesOk
      <3>2. DOMAIN pc' = Clients /\ pc' = [c \in Clients |-> pc'[c]] /\ \A c \in Clients : Answers(c)
        BY <2>2 DEF TExit, AckAll, Acked, Answers, ControlInv
      <3> QED
        BY <1>4, <3>1, <3>2 DEF TRun, Answered
    <2> QED
      BY <1>4, <2>1, <2>2 DEF TRun
  <1> QED
    BY <1>1, <1>2, <1>3, <1>4 DEF TStep

\* As is the end of a wait by an error.  (compTriggerWait)
LEMMA AwaitFailsAnswers ==
    ASSUME ControlInv, NEW c \in Clients, AwaitFails(c)
    PROVE  Answered
  BY DEF AwaitFails, Goto, Answered, Answers, ControlInv, dataVars

-----------------------------------------------------------------------------
(* ControlInv.                                                             *)

\* A wait goes on at a place of the call.  (compTriggerWait, rotateMem)
LEMMA WaitGoesOn ==
    ASSUME NEW o \in AllCalls \cup {None}, NEW a \in Aux, NEW l \in Waiting, Fits(o, l, a)
    PROVE  /\ a.then \in Labels /\ a.fail \in Labels /\ a.fail \in Ends
           /\ Fits(o, a.then, a) /\ Fits(o, a.fail, a) /\ Fits(o, "await", a)
  <1>1. o \in Writes \cup {"range", "tx"} /\ Waits(o, a)
    BY DEF Fits, Places, Waiting, AllCalls, Writes
  <1>2. CASE o \in Writes
    BY <1>1, <1>2 DEF Fits, Places, Waiting, Waits, WaitsAs, Writes, Labels, Ends
  <1>3. CASE o = "range"
    BY <1>1, <1>3 DEF Fits, Places, Waiting, Waits, WaitsAs, Writes, Labels, Ends
  <1>4. CASE o = "tx"
    BY <1>1, <1>4 DEF Fits, Places, Waiting, Waits, WaitsAs, Writes, Labels, Ends
  <1> QED
    BY <1>1, <1>2, <1>3, <1>4

\* The goroutines leave every client at a place of its call.
LEMMA ControlAnswered ==
    ASSUME ControlInv, Answered
    PROVE  ControlInv'
  <1>1. ASSUME NEW c \in Clients
        PROVE  pc'[c] \in Labels /\ Fits(op[c], pc'[c], aux[c])
    <2>1. op[c] \in AllCalls \cup {None} /\ aux[c] \in Aux /\ pc[c] \in Labels /\ Fits(op[c], pc[c], aux[c])
      BY DEF ControlInv
    <2>2. CASE pc'[c] = pc[c]
      BY <2>1, <2>2
    <2>3. CASE pc[c] \in {"send", "await"} /\ pc'[c] \in {"await", aux[c].then, aux[c].fail}
      <3>1. pc[c] \in Waiting
        BY <2>3 DEF Waiting
      <3> QED
        BY <2>1, <2>3, <3>1, WaitGoesOn DEF Labels
    <2> QED
      BY <2>2, <2>3 DEF Answered, Answers
  <1>2. pc' \in [Clients -> Labels]
    BY <1>1 DEF Answered
  <1> QED
    BY <1>1, <1>2 DEF Answered, ControlInv

\* A step of one client, to a place of its call.
LEMMA ControlOne ==
    ASSUME ControlInv, NEW c \in Clients, NEW l \in Labels, NEW a \in Aux,
           pc' = [pc EXCEPT ![c] = l], UNCHANGED op,
           aux' = [aux EXCEPT ![c] = a],
           Fits(op[c], l, a)
    PROVE  ControlInv'
  BY DEF ControlInv

\* The same when it does not begin to wait.
LEMMA ControlMoves ==
    ASSUME ControlInv, NEW c \in Clients, NEW l \in Labels \ Waiting,
           pc' = [pc EXCEPT ![c] = l], UNCHANGED <<op, aux>>,
           Places(op[c], l)
    PROVE  ControlInv'
  BY DEF ControlInv, Fits, Waiting

\* And when it does.
Awaits(c) ==
    /\ pc' = [pc EXCEPT ![c] = "send"] /\ UNCHANGED op
    /\ aux' = [aux EXCEPT ![c] = aux'[c]]
    /\ aux'[c] \in Aux /\ Waits(op[c], aux'[c])
LEMMA ControlAwaits ==
    ASSUME WritersAssumption, ControlInv, NEW c \in Clients, op[c] \in Writes \cup {"range", "tx"},
           Awaits(c)
    PROVE  ControlInv'
  <1>1. Fits(op[c], "send", aux'[c]) /\ "send" \in Labels
    BY DEF Fits, Awaits, Labels, Places, Writes, Waiting, WritersAssumption, AllCalls
  <1> QED
    BY <1>1, ControlOne DEF Awaits

\* Every step of a client leads it to a place of its call.
LEMMA ControlClient ==
    ASSUME WritersAssumption, ControlInv, GroupInv, NEW c \in Clients, ClientStep(c)
    PROVE  ControlInv'
  <1> USE DEF Goto, Return, Fits, Places, Writes, Waiting, AllCalls, Labels, dataVars
  <1>0. /\ pc \in [Clients -> Labels] /\ op \in [Clients -> AllCalls \cup {None}] /\ aux \in [Clients -> Aux]
        /\ \A d \in Clients : Fits(op[d], pc[d], aux[d])
        /\ None \notin AllCalls
    BY DEF ControlInv, WritersAssumption
  <1>1. ASSUME TakeLock(c) PROVE ControlInv'
    <2>1. Locked(c) \in Labels \ Waiting /\ Places(op[c], Locked(c))
      BY <1>0, <1>1 DEF TakeLock, Locked
    <2> QED
      BY <1>1, <2>1, ControlMoves DEF TakeLock
  <1>2. ASSUME Refused(c) \/ Fail(c) \/ FailUnlocked(c) \/ Ok(c) \/ ReadOnly(c) \/ TxEnd(c) \/ Close3(c)
        PROVE  ControlInv'
    <2>1. pc' = [pc EXCEPT ![c] = "done"] /\ UNCHANGED <<op, aux>>
      BY <1>2 DEF Refused, Fail, FailUnlocked, Ok, ReadOnly, TxEnd, Close3
    <2>2. Places(op[c], "done")
      BY <1>0, <1>2 DEF Refused, Fail, FailUnlocked, Ok, ReadOnly, TxEnd, Close3
    <2> QED
      BY <2>1, <2>2, ControlMoves
  <1>3. ASSUME AwaitFails(c) PROVE ControlInv'
    BY <1>3, AwaitFailsAnswers, ControlAnswered
  <1>4. ASSUME Flush(c) PROVE ControlInv'
    <2>1. op[c] \in Writes
      BY <1>0, <1>4 DEF Flush
    <2>2. CASE Await(c, "t", "auto", "flush", "fail", None)
      <3>1. Awaits(c)
        BY <1>0, <1>4, <2>1, <2>2 DEF Await, Awaits, Aux, Waits, WaitsAs, Flush
      <3> QED
        BY <2>1, <3>1, ControlAwaits
    <2>3. CASE Await(c, "m", "auto", "newmem", "fail", "fresh")
      <3>1. Awaits(c)
        BY <1>0, <1>4, <2>1, <2>3 DEF Await, Awaits, Aux, Waits, WaitsAs, Flush
      <3> QED
        BY <2>1, <3>1, ControlAwaits
    <2>4. CASE Goto(c, "merge") /\ UNCHANGED aux
      BY <1>4, <2>1, <2>4, ControlMoves DEF Flush
    <2> QED
      BY <1>4, <2>2, <2>3, <2>4 DEF Flush
  <1>5. ASSUME Fresh(c) \/ MergeEnd(c) \/ Close2(c) PROVE ControlInv'
    <2>1. op[c] \in AllCalls
      BY <1>0, <1>5 DEF Fresh, MergeEnd, Close2
    <2> QED
      BY <1>0, <1>5, <2>1, ControlMoves DEF Fresh, MergeEnd, Close2
  <1>6. ASSUME Write(c) PROVE ControlInv'
    <2>1. op[c] \in Writes
      BY <1>0, <1>6 DEF Write
    <2>2. CASE Await(c, "m", "auto", "newmem", "unlock", "unlock")
      <3>1. Awaits(c)
        BY <1>0, <1>6, <2>1, <2>2 DEF Await, Awaits, Aux, Waits, WaitsAs, Write
      <3> QED
        BY <2>1, <3>1, ControlAwaits
    <2>3. CASE Goto(c, "unlock") /\ UNCHANGED aux
      BY <1>6, <2>1, <2>3, ControlMoves DEF Write
    <2> QED
      BY <1>6, <2>2, <2>3 DEF Write
  <1>7. ASSUME NewMem(c) PROVE ControlInv'
    <2>0. op[c] \in Writes \cup {"range", "tx"} /\ pc[c] = "newmem" /\ aux[c].then = "newmem"
          /\ Waits(op[c], aux[c]) /\ aux[c] \in Aux
      BY <1>0, <1>7 DEF NewMem
    <2>1. CASE frozen /= None /\ aux[c].tries = 2
      BY <1>7, <2>0, <2>1, ControlMoves DEF NewMem
    <2>2. CASE frozen /= None /\ aux[c].tries /= 2
      <3>1. PICK a : a = [aux[c] EXCEPT !.tries = @ + 1]
        OBVIOUS
      <3>2. a \in Aux /\ a.ch = aux[c].ch /\ a.then = aux[c].then /\ a.fail = aux[c].fail /\ a.after = aux[c].after
        BY <2>0, <2>2, <3>1 DEF Aux
      <3>3. Fits(op[c], "send", a)
        BY <2>0, <3>2 DEF Waits, WaitsAs
      <3>4. aux' = [aux EXCEPT ![c] = a] /\ pc' = [pc EXCEPT ![c] = "send"] /\ UNCHANGED op
        BY <1>7, <2>2, <3>1 DEF NewMem
      <3> QED
        BY <3>2, <3>3, <3>4, ControlOne
    <2>3. CASE frozen = None /\ aux[c].after = "txwait"
      <3>1. op[c] = "tx"
        BY <2>0, <2>3 DEF Waits, WaitsAs, WritersAssumption
      <3>2. Awaits(c)
        BY <1>0, <1>7, <2>3, <3>1 DEF NewMem, Await, Awaits, Aux, Waits, WaitsAs
      <3> QED
        BY <3>1, <3>2, ControlAwaits
    <2>4. CASE frozen = None /\ aux[c].after /= "txwait"
      <3>1. aux[c].after \in Labels \ Waiting /\ Places(op[c], aux[c].after)
        BY <2>0, <2>4 DEF Waits, WaitsAs
      <3>2. aux' = [aux EXCEPT ![c] = NoAux] /\ pc' = [pc EXCEPT ![c] = aux[c].after] /\ UNCHANGED op
        BY <1>7, <2>4 DEF NewMem
      <3>3. NoAux \in Aux
        BY DEF NoAux, Aux
      <3>4. Fits(op[c], aux[c].after, NoAux)
        BY <3>1
      <3> QED
        BY <3>1, <3>2, <3>3, <3>4, ControlOne
    <2> QED
      BY <2>1, <2>2, <2>3, <2>4
  <1>8. ASSUME Unlock(c) PROVE ControlInv'
    <2>1. UNCHANGED <<op, aux>> /\ pc' = [d \in Clients |-> IF d = c THEN "done" ELSE IF d = grp.over THEN "flush" ELSE pc[d]]
      BY <1>8 DEF Unlock
    <2>2. op[c] \in Writes
      BY <1>0, <1>8 DEF Unlock
    <2>3. grp.over \in Clients => op[grp.over] \in Writes
      BY <1>0 DEF GroupInv, WritersAssumption
    <2> QED
      BY <1>0, <2>1, <2>2, <2>3 DEF ControlInv
  <1>9. ASSUME NEW m \in Clients, Merge(c, m) PROVE ControlInv'
    <2>1. op[c] \in Writes /\ op[m] \in Writes /\ UNCHANGED <<op, aux>>
      BY <1>0, <1>9 DEF Merge
    <2>2. pc' = [pc EXCEPT ![m] = "merged"] \/ pc' = [pc EXCEPT ![m] = "over", ![c] = "write"]
      BY <1>9 DEF Merge
    <2>3. pc[c] = "merge" /\ pc[m] = "wait"
      BY <1>9 DEF Merge
    <2>4. CASE pc' = [pc EXCEPT ![m] = "merged"]
      BY <1>0, <2>1, <2>4, ControlMoves
    <2>5. CASE pc' = [pc EXCEPT ![m] = "over", ![c] = "write"]
      <3>1. pc' \in [Clients -> Labels] /\ \A d \in Clients : d \notin {c, m} => pc'[d] = pc[d]
        BY <1>0, <2>5
      <3>2. pc'[c] = "write" /\ pc'[m] = "over"
        BY <1>0, <2>3, <2>5
      <3> QED
        BY <1>0, <2>1, <3>1, <3>2 DEF ControlInv
    <2> QED
      BY <2>2, <2>4, <2>5
  <1>10. ASSUME NEW m \in Clients, Ack(c, m) PROVE ControlInv'
    BY <1>0, <1>10, ControlMoves DEF Ack
  <1>11. ASSUME Range1(c) \/ Range2(c) \/ Range3(c) PROVE ControlInv'
    <2>1. op[c] = "range" /\ UNCHANGED op
      BY <1>0, <1>11 DEF Range1, Range2, Range3
    <2>2. CASE Await(c, "m", "auto", "newmem", "fail", "rangewait")
      <3>1. Awaits(c)
        BY <1>0, <2>1, <2>2 DEF Await, Awaits, Aux, Waits, WaitsAs
      <3> QED
        BY <2>1, <3>1, ControlAwaits
    <2>3. CASE Await(c, "t", "range", "ok", "error", None)
      <3>1. Awaits(c)
        BY <1>0, <2>1, <2>3 DEF Await, Awaits, Aux, Waits, WaitsAs
      <3> QED
        BY <2>1, <3>1, ControlAwaits
    <2>4. CASE Await(c, "m", "auto", "rangetable", "error", None)
      <3>1. Awaits(c)
        BY <1>0, <2>1, <2>4 DEF Await, Awaits, Aux, Waits, WaitsAs
      <3> QED
        BY <2>1, <3>1, ControlAwaits
    <2> QED
      BY <1>11, <2>2, <2>3, <2>4 DEF Range1, Range2, Range3
  <1>12. ASSUME TxOpen(c) \/ TxCommit(c) PROVE ControlInv'
    <2>1. op[c] = "tx" /\ UNCHANGED op
      BY <1>0, <1>12 DEF TxOpen, TxCommit
    <2>2. CASE Await(c, "m", "auto", "newmem", "leak", "txwait")
      <3>1. Awaits(c)
        BY <1>0, <2>1, <2>2 DEF Await, Awaits, Aux, Waits, WaitsAs
      <3> QED
        BY <2>1, <3>1, ControlAwaits
    <2>3. CASE Await(c, "t", "auto", "txopen", "leak", None)
      <3>1. Awaits(c)
        BY <1>0, <2>1, <2>3 DEF Await, Awaits, Aux, Waits, WaitsAs
      <3> QED
        BY <2>1, <3>1, ControlAwaits
    <2>4. CASE Await(c, "t", "auto", "txend", "txend", None)
      <3>1. Awaits(c)
        BY <1>0, <2>1, <2>4 DEF Await, Awaits, Aux, Waits, WaitsAs
      <3> QED
        BY <2>1, <3>1, ControlAwaits
    <2>5. CASE (Goto(c, "txopen") \/ Goto(c, "txend")) /\ UNCHANGED aux
      BY <2>1, <2>5, ControlMoves
    <2> QED
      BY <1>12, <2>2, <2>3, <2>4, <2>5 DEF TxOpen, TxCommit
  <1>13. ASSUME Close1(c) PROVE ControlInv'
    <2>1. UNCHANGED <<op, aux>>
          /\ pc' = [x \in Clients |-> IF x = c THEN "closelock" ELSE IF pc[x] = "txopen" THEN "done" ELSE pc[x]]
      BY <1>13 DEF Close1
    <2>2. op[c] = "close" /\ \A x \in Clients : pc[x] = "txopen" => op[x] = "tx"
      BY <1>0, <1>13 DEF Close1
    <2> QED
      BY <1>0, <2>1, <2>2 DEF ControlInv
  <1> QED
    BY <1>1, <1>2, <1>3, <1>4, <1>5, <1>6, <1>7, <1>8, <1>9, <1>10, <1>11, <1>12, <1>13 DEF ClientStep

\* And so does a call.  (ok, setClosed)
LEMMA ControlCall ==
    ASSUME WritersAssumption, ControlInv, NEW c \in Clients, NEW o \in Calls[c], Call(c, o)
    PROVE  ControlInv'
  <1>1. o \in AllCalls /\ None \notin AllCalls
    BY DEF WritersAssumption
  <1>2. op' = [op EXCEPT ![c] = o] /\ UNCHANGED aux
    BY DEF Call
  <1>3. PICK l \in {"done", "close", "wait"} : pc' = [pc EXCEPT ![c] = l] /\ (l = "close" => o = "close") /\ (l = "wait" => o /= "close")
    BY DEF Call, Return, Goto
  <1>4. l \in Labels /\ Fits(o, l, aux[c])
    BY <1>1, <1>3 DEF Fits, Places, Writes, Waiting, AllCalls, Labels
  <1> QED
    BY <1>1, <1>2, <1>3, <1>4 DEF ControlInv

-----------------------------------------------------------------------------
(* HolderInv and CloseInv.                                                 *)

\* The goroutines lead nobody into a part that needs the lock.
LEMMA HolderAnswered ==
    ASSUME ControlInv, HolderInv, Answered
    PROVE  HolderInv'
  <1>1. ASSUME NEW c \in Clients, Inside(c)' PROVE lock = c \/ (pc'[c] = "readonly" /\ ce' = "gone")
    <2>1. CASE pc'[c] = pc[c]
      BY <1>1, <2>1 DEF Answered, Inside, HolderInv
    <2>2. CASE pc[c] \in {"send", "await"} /\ pc'[c] \in {"await", aux[c].then, aux[c].fail}
      <3>1. op[c] \in AllCalls \cup {None} /\ Places(op[c], pc[c]) /\ Waits(op[c], aux[c])
        BY <2>2 DEF ControlInv, Fits, Waiting
      <3>2. op[c] \in Writes \cup {"range", "tx"}
        BY <2>2, <3>1 DEF Places, AllCalls, Writes
      <3>3. aux[c].fail /= "error"
        BY <1>1, <2>2, <3>1, <3>2 DEF Waits, WaitsAs, Inside, Answered
      <3> QED
        BY <2>2, <3>3 DEF Inside, HolderInv
    <2> QED
      BY <2>1, <2>2 DEF Answered, Answers
  <1> QED
    BY <1>1 DEF Answered, HolderInv

\* The holder of the lock moves, and keeps it.
LEMMA HolderMoves ==
    ASSUME HolderInv, NEW c \in Clients, Inside(c), pc[c] /= "readonly",
           \A d \in Clients \ {c} : pc'[d] = pc[d] /\ aux'[d] = aux[d],
           UNCHANGED <<lock, ce, locking, op>>
    PROVE  HolderInv'
  <1>1. lock = c
    BY DEF HolderInv
  <1>2. ASSUME NEW d \in Clients, Inside(d)' PROVE lock = d \/ (pc'[d] = "readonly" /\ ce' = "gone")
    BY <1>1, <1>2 DEF Inside, HolderInv
  <1> QED
    BY <1>2 DEF HolderInv

\* Nobody enters a part that needs the lock.
LEMMA HolderKept ==
    ASSUME HolderInv, \A d \in Clients : Inside(d)' => Inside(d) /\ (pc[d] = "readonly" => pc'[d] = "readonly"),
           \A d \in Clients : Inside(d)' => op'[d] = op[d],
           lock \in Clients /\ op[lock] = "readonly" => op'[lock] = "readonly",
           UNCHANGED <<lock, ce, locking>>
    PROVE  HolderInv'
  BY DEF HolderInv

\* The holder gives the lock back, or hands it to the writer that it has
\* promised it to.
LEMMA HolderGives ==
    ASSUME WritersAssumption, HolderInv, NEW c \in Clients, Inside(c), op[c] /= "readonly",
           pc[c] /= "readonly",
           lock' \in Clients \cup {None},
           ~ Inside(c)',
           \A d \in Clients : Inside(d)' => Inside(d) \/ lock' = d,
           \A d \in Clients : pc[d] = "readonly" => pc'[d] = "readonly",
           UNCHANGED <<ce, locking, op>>
    PROVE  HolderInv'
  <1>1. lock = c
    BY DEF HolderInv
  <1>2. ASSUME NEW d \in Clients, Inside(d)' PROVE lock' = d \/ (pc'[d] = "readonly" /\ ce' = "gone")
    BY <1>1, <1>2 DEF HolderInv
  <1>3. ~ (locking /\ ce /= "gone")
    BY <1>1 DEF HolderInv, WritersAssumption
  <1> QED
    BY <1>2, <1>3 DEF HolderInv

\* The steps of a client respect the lock.
LEMMA HolderClient ==
    ASSUME WritersAssumption, ControlInv, HolderInv, GroupInv, NEW c \in Clients, ClientStep(c)
    PROVE  HolderInv'
  <1> USE DEF Goto, Return, dataVars
  <1>0. /\ pc \in [Clients -> Labels] /\ op \in [Clients -> AllCalls \cup {None}] /\ aux \in [Clients -> Aux]
        /\ \A d \in Clients : Fits(op[d], pc[d], aux[d])
        /\ None \notin AllCalls /\ None \notin Clients /\ "error" \notin Clients
    BY DEF ControlInv, WritersAssumption
  <1>1. ASSUME TakeLock(c) PROVE HolderInv'
    <2>1. \A d \in Clients : Inside(d) => pc[d] = "readonly" /\ ce = "gone"
      BY <1>0, <1>1 DEF TakeLock, HolderInv
    <2>2. \A d \in Clients \ {c} : Inside(d)' => pc'[d] = "readonly" /\ ce' = "gone"
      BY <1>0, <1>1, <2>1 DEF TakeLock, Inside
    <2> QED
      BY <1>0, <1>1, <2>2 DEF TakeLock, HolderInv
  <1>2. ASSUME Refused(c) \/ (FailUnlocked(c) /\ pc[c] = "error") \/ Ok(c) PROVE HolderInv'
    <2>1. pc' = [pc EXCEPT ![c] = "done"] /\ UNCHANGED <<op, aux, lock, ce, locking>>
          /\ pc[c] \in {"wait", "error", "ok"}
      BY <1>2 DEF Refused, FailUnlocked, Ok
    <2>2. \A d \in Clients : Inside(d)' => d /= c /\ Inside(d) /\ pc'[d] = pc[d]
      BY <1>0, <2>1 DEF Inside
    <2> QED
      BY <2>1, <2>2, HolderKept
  <1>3. ASSUME AwaitFails(c) PROVE HolderInv'
    BY <1>3, AwaitFailsAnswers, HolderAnswered
  <1>4. ASSUME Flush(c) \/ Fresh(c) \/ MergeEnd(c) \/ Write(c) \/ NewMem(c) \/ TxOpen(c) \/ TxCommit(c)
               \/ (FailUnlocked(c) /\ pc[c] = "leak") \/ Close3(c)
        PROVE  HolderInv'
    <2>1. Inside(c) /\ pc[c] /= "readonly"
      BY <1>4 DEF Flush, Fresh, MergeEnd, Write, NewMem, TxOpen, TxCommit, FailUnlocked, Close3, Inside
    <2>2. UNCHANGED <<lock, ce, locking, op>>
      BY <1>4 DEF Flush, Fresh, MergeEnd, Write, NewMem, TxOpen, TxCommit, FailUnlocked, Close3
    <2>3. \A d \in Clients \ {c} : pc'[d] = pc[d]
      BY <1>0, <1>4 DEF Flush, Fresh, MergeEnd, Write, NewMem, TxOpen, TxCommit, FailUnlocked, Close3, Await
    <2>4. \A d \in Clients \ {c} : aux'[d] = aux[d]
      BY <1>0, <1>4 DEF Flush, Fresh, MergeEnd, Write, NewMem, TxOpen, TxCommit, FailUnlocked, Close3, Await
    <2> QED
      BY <2>1, <2>2, <2>3, <2>4, HolderMoves
  <1>5. ASSUME NEW m \in Clients, Merge(c, m) PROVE HolderInv'
    <2>1. UNCHANGED <<lock, ce, locking, op, aux>> /\ pc[c] = "merge" /\ pc[m] = "wait"
      BY <1>5 DEF Merge
    <2>2. \A d \in Clients : pc'[d] = pc[d] \/ (d = c /\ pc'[d] = "write") \/ (d = m /\ pc'[d] \in {"merged", "over"})
      BY <1>0, <1>5 DEF Merge
    <2>3. \A d \in Clients : Inside(d)' => Inside(d) /\ (pc[d] = "readonly" => pc'[d] = "readonly")
      BY <2>1, <2>2 DEF Inside
    <2> QED
      BY <2>1, <2>3, HolderKept
  <1>6. ASSUME NEW m \in Clients, Ack(c, m) PROVE HolderInv'
    <2>1. UNCHANGED <<lock, ce, locking, op, aux>> /\ pc[m] = "merged" /\ pc' = [pc EXCEPT ![m] = "done"]
      BY <1>6 DEF Ack
    <2>3. \A d \in Clients : Inside(d)' => Inside(d) /\ (pc[d] = "readonly" => pc'[d] = "readonly")
      BY <1>0, <2>1 DEF Inside
    <2> QED
      BY <2>1, <2>3, HolderKept
  <1>7. ASSUME Unlock(c) PROVE HolderInv'
    <2>1. UNCHANGED <<ce, locking, op, aux>> /\ pc[c] = "unlock" /\ lock' = grp.over
          /\ pc' = [d \in Clients |-> IF d = c THEN "done" ELSE IF d = grp.over THEN "flush" ELSE pc[d]]
      BY <1>7 DEF Unlock
    <2>2. op[c] /= "readonly" /\ Inside(c)
      BY <1>0, <2>1 DEF Fits, Places, Inside
    <2>3. lock' \in Clients \cup {None} /\ (grp.over /= None => pc[grp.over] = "over")
      BY <2>1 DEF GroupInv
    <2>4. ~ Inside(c)' /\ \A d \in Clients : Inside(d)' => Inside(d) \/ lock' = d
      BY <1>0, <2>1 DEF Inside
    <2>5. \A d \in Clients : pc[d] = "readonly" => pc'[d] = "readonly"
      BY <1>0, <2>1, <2>3
    <2> QED
      BY <2>1, <2>2, <2>3, <2>4, <2>5, HolderGives
  <1>8. ASSUME Fail(c) \/ TxEnd(c) PROVE HolderInv'
    <2>1. UNCHANGED <<ce, locking, op, aux>> /\ pc[c] \in {"fail", "txend", "txopen"} /\ lock' = None
          /\ pc' = [pc EXCEPT ![c] = "done"]
      BY <1>8 DEF Fail, TxEnd
    <2>2. op[c] /= "readonly" /\ Inside(c)
      BY <1>0, <2>1 DEF Fits, Places, Inside
    <2>3. ~ Inside(c)' /\ \A d \in Clients : Inside(d)' => Inside(d)
      BY <1>0, <2>1 DEF Inside
    <2>4. \A d \in Clients : pc[d] = "readonly" => pc'[d] = "readonly"
      BY <1>0, <2>1
    <2> QED
      BY <2>1, <2>2, <2>3, <2>4, HolderGives
  <1>9. ASSUME Range1(c) \/ Range2(c) PROVE HolderInv'
    <2>1. UNCHANGED <<ce, locking, op>> /\ pc[c] \in {"range", "rangewait"} /\ pc' = [pc EXCEPT ![c] = "send"]
          /\ aux' = [aux EXCEPT ![c] = aux'[c]] /\ (lock' = lock \/ (lock' = None /\ aux'[c].fail = "error"))
      BY <1>0, <1>9 DEF Range1, Range2, Await
    <2>2. op[c] /= "readonly" /\ Inside(c) /\ pc[c] /= "readonly"
      BY <1>0, <2>1 DEF Fits, Places, Inside
    <2>3. CASE lock' = lock
      BY <1>0, <2>1, <2>2, <2>3, HolderMoves
    <2>4. CASE lock' = None /\ aux'[c].fail = "error"
      <3>1. ~ Inside(c)' /\ \A d \in Clients : Inside(d)' => Inside(d)
        BY <1>0, <2>1, <2>4 DEF Inside
      <3>2. \A d \in Clients : pc[d] = "readonly" => pc'[d] = "readonly"
        BY <1>0, <2>1
      <3> QED
        BY <2>1, <2>2, <2>4, <3>1, <3>2, HolderGives
    <2> QED
      BY <2>1, <2>3, <2>4
  <1>10. ASSUME Range3(c) PROVE HolderInv'
    <2>1. UNCHANGED <<lock, ce, locking, op>> /\ pc' = [pc EXCEPT ![c] = "send"]
          /\ aux' = [aux EXCEPT ![c] = aux'[c]] /\ aux'[c].fail = "error"
      BY <1>0, <1>10 DEF Range3, Await
    <2>2. \A d \in Clients : Inside(d)' => d /= c /\ Inside(d) /\ pc'[d] = pc[d]
      BY <1>0, <2>1 DEF Inside
    <2> QED
      BY <2>1, <2>2, HolderKept
  <1>11. ASSUME ReadOnly(c) PROVE HolderInv'
    <2>1. UNCHANGED <<lock, locking, op, aux>> /\ pc' = [pc EXCEPT ![c] = "done"] /\ (ce = "gone" => ce' = "gone")
          /\ ce' \in {"no", "err", "perm", "gone"} /\ (ce' = "gone" => ce = "gone")
      BY <1>0, <1>11 DEF ReadOnly, HolderInv
    <2>2. \A d \in Clients : Inside(d)' => d /= c /\ Inside(d) /\ pc'[d] = pc[d]
      BY <1>0, <2>1 DEF Inside
    <2> QED
      BY <2>1, <2>2 DEF HolderInv
  <1>12. ASSUME Close1(c) PROVE HolderInv'
    <2>1. UNCHANGED <<ce, locking, op, aux>> /\ pc[c] = "close"
          /\ pc' = [x \in Clients |-> IF x = c THEN "closelock" ELSE IF pc[x] = "txopen" THEN "done" ELSE pc[x]]
          /\ lock' = IF {x \in Clients : pc[x] = "txopen"} = {} THEN lock ELSE None
      BY <1>12 DEF Close1
    <2>2. \A d \in Clients : Inside(d)' => Inside(d) /\ pc'[d] = pc[d]
      BY <1>0, <2>1 DEF Inside
    <2>3. CASE lock' = lock
      <3>1. \A d \in Clients : Inside(d)' => Inside(d) /\ (pc[d] = "readonly" => pc'[d] = "readonly")
        BY <2>2
      <3> QED
        BY <2>1, <2>3, <3>1, HolderKept
    <2>4. CASE lock' = None /\ \E x \in Clients : pc[x] = "txopen"
      <3>1. PICK x \in Clients : pc[x] = "txopen"
        BY <2>4
      <3>2. Inside(x) /\ op[x] /= "readonly" /\ ~ Inside(x)'
        BY <1>0, <2>1, <3>1 DEF Inside, Fits, Places
      <3>3. \A d \in Clients : pc[d] = "readonly" => pc'[d] = "readonly"
        BY <1>0, <2>1
      <3> QED
        BY <2>1, <2>2, <2>4, <3>1, <3>2, <3>3, HolderGives
    <2> QED
      BY <2>1, <2>3, <2>4
  <1>13. ASSUME Close2(c) PROVE HolderInv'
    <2>1. UNCHANGED <<ce, locking, op, aux>> /\ lock = None /\ lock' = c /\ pc' = [pc EXCEPT ![c] = "closewait"]
      BY <1>13 DEF Close2
    <2>2. \A d \in Clients \ {c} : Inside(d)' => pc'[d] = "readonly" /\ ce' = "gone"
      BY <1>0, <2>1 DEF Inside, HolderInv
    <2>3. ~ (locking /\ ce /= "gone")
      BY <1>0, <2>1 DEF HolderInv
    <2> QED
      BY <2>1, <2>2, <2>3 DEF HolderInv
  <1> QED
    <2>1. FailUnlocked(c) => pc[c] = "error" \/ pc[c] = "leak"
      BY DEF FailUnlocked
    <2> QED
      BY <2>1, <1>1, <1>2, <1>3, <1>4, <1>5, <1>6, <1>7, <1>8, <1>9, <1>10, <1>11, <1>12, <1>13 DEF ClientStep

\* So do a call and the steps of compactionError.  (compactionError)
LEMMA HolderOthers ==
    ASSUME WritersAssumption, ControlInv, HolderInv,
           (\E c \in Clients : \E o \in Calls[c] : Call(c, o)) \/ ErrorLock \/ ErrorExit
    PROVE  HolderInv'
  <1>0. /\ pc \in [Clients -> Labels] /\ op \in [Clients -> AllCalls \cup {None}]
        /\ \A d \in Clients : Fits(op[d], pc[d], aux[d])
        /\ None \notin AllCalls /\ None \notin Clients /\ "error" \notin Clients
    BY DEF ControlInv, WritersAssumption
  <1>1. ASSUME NEW c \in Clients, NEW o \in Calls[c], Call(c, o) PROVE HolderInv'
    <2>1. UNCHANGED <<aux, lock, ce, locking>> /\ pc[c] = "idle" /\ op' = [op EXCEPT ![c] = o]
      BY <1>1 DEF Call
    <2>2. pc'[c] \in {"done", "close", "wait"} /\ \A d \in Clients \ {c} : pc'[d] = pc[d]
      BY <1>0, <1>1 DEF Call, Return, Goto
    <2>3. \A d \in Clients : Inside(d)' => d /= c /\ Inside(d) /\ pc'[d] = pc[d]
      BY <1>0, <2>1, <2>2 DEF Inside
    <2>4. op[c] /= "readonly"
      BY <1>0, <2>1 DEF Fits, Places
    <2> QED
      BY <1>0, <2>1, <2>3, <2>4, HolderKept
  <1>2. ASSUME ErrorLock PROVE HolderInv'
    <2>1. UNCHANGED <<op, pc, aux, ce>> /\ lock = None /\ ce = "perm" /\ lock' = "error"
      BY <1>2 DEF ErrorLock, clientVars
    <2>2. \A d \in Clients : ~ Inside(d)
      BY <1>0, <2>1 DEF HolderInv
    <2>3. \A d \in Clients : ~ Inside(d)'
      BY <2>1, <2>2 DEF Inside
    <2> QED
      BY <2>1, <2>3 DEF HolderInv
  <1>3. ASSUME ErrorExit PROVE HolderInv'
    <2>1. UNCHANGED <<op, pc, aux>> /\ ce /= "gone" /\ ce' = "gone"
          /\ lock' = IF ce = "perm" /\ locking THEN None ELSE lock
      BY <1>3 DEF ErrorExit, clientVars
    <2>2. ASSUME NEW d \in Clients, Inside(d)' PROVE lock' = d \/ (pc'[d] = "readonly" /\ ce' = "gone")
      <3>1. lock = d /\ Inside(d)
        BY <2>1, <2>2 DEF HolderInv, Inside
      <3>2. CASE lock' /= lock
        <4>1. op[d] = "readonly"
          BY <1>0, <2>1, <3>1, <3>2 DEF HolderInv
        <4>2. pc[d] = "readonly"
          BY <1>0, <4>1, <3>1 DEF Fits, Places, Inside, Writes
        <4> QED
          BY <2>1, <4>2
      <3> QED
        BY <3>1, <3>2
    <2> QED
      BY <2>1, <2>2 DEF HolderInv
  <1> QED
    BY <1>1, <1>2, <1>3

\* Close is known to all before compactionError ends, and comes when no call
\* is opening that must not meet it, nor begins to afterwards.  (setClosed, ok)
LEMMA CloseKept ==
    ASSUME CloseInv, UNCHANGED <<op, closed>>, closeC' \in BOOLEAN, closeC' => closed, closeC => closeC',
           ce' = "gone" => ce = "gone" \/ closeC,
           closed => \A d \in Clients : pc[d] \in {"done", "txopen", "txend"} => pc'[d] \in {"done", "txopen", "txend"}
    PROVE  CloseInv'
  <1>1. closed /\ Opening = {} => Opening' = {}
    BY DEF Opening
  <1> QED
    BY <1>1 DEF CloseInv

\* The steps of the clients and of the goroutines keep it.
LEMMA CloseClient ==
    ASSUME WritersAssumption, ControlInv, GroupInv, HolderInv, CloseInv, NEW c \in Clients, ClientStep(c)
    PROVE  CloseInv'
  <1> USE DEF Goto, Return, dataVars
  <1>0. /\ pc \in [Clients -> Labels] /\ op \in [Clients -> AllCalls \cup {None}]
        /\ UNCHANGED <<op, closed>> /\ (ce' = "gone" => ce = "gone")
        /\ (grp.over \in Clients => pc[grp.over] = "over")
        /\ None \notin Clients
    BY DEF ControlInv, GroupInv, WritersAssumption, ClientStep, TakeLock, Refused, AwaitFails, Flush, Fresh, MergeEnd, Write, NewMem, Unlock,
           Merge, Ack, Fail, FailUnlocked, Range1, Range2, Range3, Ok, ReadOnly, TxOpen, TxCommit, TxEnd,
           Close1, Close2, Close3
  <1>1. closeC' = closeC \/ (closeC' = TRUE /\ op[c] = "close")
    BY DEF ControlInv, Fits, Places, ClientStep, TakeLock, Refused, AwaitFails, Flush, Fresh, MergeEnd, Write, NewMem, Unlock,
           Merge, Ack, Fail, FailUnlocked, Range1, Range2, Range3, Ok, ReadOnly, TxOpen, TxCommit, TxEnd,
           Close1, Close2, Close3, Writes, Waiting, AllCalls
  <1>2. ASSUME closed, NEW d \in Clients, pc[d] \in {"done", "txopen", "txend"}
        PROVE  pc'[d] \in {"done", "txopen", "txend"}
    <2>1. d /= c => pc'[d] = pc[d] \/ pc'[d] = "done"
      BY <1>0, <1>2 DEF ClientStep, TakeLock, Refused, AwaitFails, Flush, Fresh, MergeEnd, Write, NewMem, Unlock,
           Merge, Ack, Fail, FailUnlocked, Range1, Range2, Range3, Ok, ReadOnly, TxOpen, TxCommit, TxEnd,
           Close1, Close2, Close3, Await
    <2>2. d = c => TxEnd(c)
      BY <1>0, <1>2 DEF ClientStep, TakeLock, Refused, AwaitFails, Flush, Fresh, MergeEnd, Write, NewMem, Unlock,
           Merge, Ack, Fail, FailUnlocked, Range1, Range2, Range3, Ok, ReadOnly, TxOpen, TxCommit, TxEnd,
           Close1, Close2, Close3
    <2> QED
      BY <1>0, <1>2, <2>1, <2>2 DEF TxEnd
  <1>3. closeC' \in BOOLEAN /\ (closeC' => closed) /\ (closeC => closeC')
    <2>1. closed \in BOOLEAN /\ closeC \in BOOLEAN /\ (closeC => closed) /\ (op[c] = "close" => closed)
      BY DEF CloseInv
    <2>2. CASE closeC' = closeC
      BY <2>1, <2>2
    <2>3. CASE closeC' = TRUE /\ op[c] = "close"
      BY <2>1, <2>3
    <2> QED
      BY <1>1, <2>2, <2>3
  <1>4. closed => \A d \in Clients : pc[d] \in {"done", "txopen", "txend"} => pc'[d] \in {"done", "txopen", "txend"}
    BY <1>2
  <1> QED
    BY <1>0, <1>3, <1>4, CloseKept

\* So do the goroutines,
LEMMA CloseAnswered ==
    ASSUME CloseInv, Answered
    PROVE  CloseInv'
  <1>1. \A d \in Clients : pc[d] \in {"done", "txopen", "txend"} => pc'[d] = pc[d]
    BY DEF Answered, Answers
  <1> QED
    BY <1>1, CloseKept DEF Answered, CloseInv

\* and compactionError and the calls.
LEMMA CloseOthers ==
    ASSUME WritersAssumption, ControlInv, CloseInv,
           (\E c \in Clients : \E o \in Calls[c] : Call(c, o)) \/ ErrorLock \/ ErrorExit
    PROVE  CloseInv'
  <1>1. ASSUME NEW c \in Clients, NEW o \in Calls[c], Call(c, o) PROVE CloseInv'
    <2>0. pc \in [Clients -> Labels] /\ op \in [Clients -> AllCalls \cup {None}]
      BY DEF ControlInv
    <2>1. op' = [op EXCEPT ![c] = o] /\ UNCHANGED <<closeC, ce>> /\ closed' = (closed \/ o = "close")
          /\ pc' = [pc EXCEPT ![c] = IF closed THEN "done" ELSE IF o = "close" THEN "close" ELSE "wait"]
          /\ (o = "close" => "closeInCall" \in Allow \/ Opening = {})
      BY <1>1 DEF Call, Goto, Return
    <2>2. closed' /\ "closeInCall" \notin Allow => Opening' = {}
      BY <2>0, <2>1 DEF CloseInv, Opening
    <2> QED
      BY <2>0, <2>1, <2>2 DEF CloseInv
  <1>2. CASE ErrorLock \/ ErrorExit
    BY <1>2, CloseKept DEF ErrorLock, ErrorExit, clientVars, dataVars, CloseInv
  <1> QED
    BY <1>1, <1>2

-----------------------------------------------------------------------------
(* CommandInv and FrozenInv.                                               *)

\* What a client step leaves as it is: whoever awaits an acknowledgement
\* goes on to do so, or stops for good, and nobody reaches newMem or an
\* acknowledgement by itself.
Calm(c) ==
    /\ pc[c] \in Ends \cup {"await"} => (pc'[c] = pc[c] /\ aux'[c] = aux[c]) \/ pc'[c] \in Ends
    /\ pc'[c] \in {"newmem", "await"} => pc'[c] = pc[c] /\ aux'[c] = aux[c]

\* The steps of the clients are calm.
LEMMA ClientCalm ==
    ASSUME WritersAssumption, ControlInv, GroupInv, FrozenInv, NEW c \in Clients, ClientStep(c)
    PROVE  \A d \in Clients : Calm(d)
  <1> USE DEF Goto, Return, dataVars, Calm, Ends
  <1>0. /\ pc \in [Clients -> Labels] /\ aux \in [Clients -> Aux]
        /\ \A d \in Clients : Fits(op[d], pc[d], aux[d])
        /\ None \notin Clients
    BY DEF ControlInv, WritersAssumption
  <1>1. CASE TakeLock(c) \/ Refused(c) \/ Fresh(c) \/ MergeEnd(c) \/ Fail(c) \/ FailUnlocked(c) \/ Ok(c)
             \/ ReadOnly(c) \/ TxEnd(c) \/ Close1(c) \/ Close2(c) \/ Close3(c)
    <2>1. TakeLock(c) => Locked(c) \notin {"newmem", "await"}
      BY <1>0 DEF TakeLock, Locked, Fits, Places, ControlInv, AllCalls, Writes
    <2> QED
      BY <1>0, <1>1, <2>1 DEF TakeLock, Refused, Fresh, MergeEnd, Fail, FailUnlocked, Ok, ReadOnly, TxEnd, Close1, Close2, Close3
  <1>2. CASE AwaitFails(c)
    <2>1. aux[c].fail \in Ends
      BY <1>0, <1>2, WaitGoesOn DEF AwaitFails, ControlInv, Waiting
    <2> QED
      BY <1>0, <1>2, <2>1 DEF AwaitFails
  <1>3. CASE Flush(c) \/ Write(c) \/ Range1(c) \/ Range2(c) \/ Range3(c) \/ TxOpen(c) \/ TxCommit(c)
    BY <1>0, <1>3 DEF Flush, Write, Range1, Range2, Range3, TxOpen, TxCommit, Await
  <1>4. CASE NewMem(c)
    <2>1. frozen = None /\ aux[c].after \notin {"newmem", "await"}
      BY <1>0, <1>4 DEF NewMem, FrozenInv, ControlInv, Fits, Places, Waits, WaitsAs, Waiting, Writes, AllCalls, WritersAssumption
    <2> QED
      BY <1>0, <1>4, <2>1 DEF NewMem, Await
  <1>5. CASE Unlock(c)
    BY <1>0, <1>5 DEF Unlock, GroupInv
  <1>6. ASSUME NEW m \in Clients, Merge(c, m) \/ Ack(c, m) PROVE \A d \in Clients : Calm(d)
    BY <1>0, <1>6 DEF Merge, Ack
  <1> QED
    BY <1>1, <1>2, <1>3, <1>4, <1>5, <1>6 DEF ClientStep

\* Calm steps keep both invariants, when they leave the compactions and the
\* frozen memdb alone,
LEMMA CalmKeeps ==
    ASSUME CommandInv, FrozenInv, \A d \in Clients : Calm(d), UNCHANGED <<frozen, mc>>,
           tc' \in [pc : {"check", "poll", "select", "auto", "run", "backoff", "gone"},
                    cmd : Clients \cup {None}, waitQ : SUBSET Clients, paused : BOOLEAN],
           tc'.waitQ = tc.waitQ, tc'.cmd = tc.cmd
    PROVE  CommandInv' /\ FrozenInv'
  <1>1. \A d \in Clients, ch \in {"m", "t"} : WaitsFor(d, ch) => WaitsFor(d, ch)'
    BY DEF WaitsFor, Calm
  <1>2. CommandInv'
    BY <1>1 DEF CommandInv
  <1>3. FrozenInv'
    BY DEF Calm, FrozenInv, CommandInv
  <1> QED
    BY <1>2, <1>3

\* and also when the holder of the lock makes a new memdb.  (newMem)
LEMMA NewMemKeeps ==
    ASSUME WritersAssumption, ControlInv, HolderInv, GroupInv, CommandInv, FrozenInv, NEW c \in Clients, NewMem(c)
    PROVE  CommandInv' /\ FrozenInv'
  <1>0. \A d \in Clients : Calm(d)
    BY ClientCalm DEF ClientStep
  <1>1. \A d \in Clients, ch \in {"m", "t"} : WaitsFor(d, ch) => WaitsFor(d, ch)'
    BY <1>0 DEF WaitsFor, Calm
  <1>2. UNCHANGED tc /\ (mc' = mc \/ (mc.pc = "idle" /\ mc' = [mc EXCEPT !.pc = "start", !.cmd = None]))
    BY DEF NewMem, FrozenInv
  <1>3. CommandInv'
    <2>1. CASE mc' = mc
      BY <1>1, <1>2, <2>1 DEF CommandInv
    <2>2. CASE mc' = [mc EXCEPT !.pc = "start", !.cmd = None]
      BY <1>1, <1>2, <2>2 DEF CommandInv
    <2> QED
      BY <1>2, <2>1, <2>2
  <1>4. lock = c /\ pc[c] = "newmem" /\ pc'[c] /= "newmem" /\ pc'[c] /= "await"
    <2>1. pc[c] = "newmem" /\ Waits(op[c], aux[c]) /\ aux[c].then = "newmem" /\ op[c] \in Writes \cup {"range", "tx"}
      BY DEF NewMem, ControlInv, Fits, Waiting, Places, Writes, AllCalls
    <2>2. lock = c
      BY <2>1 DEF HolderInv, Inside
    <2>3. pc' = [pc EXCEPT ![c] = aux[c].after] \/ pc' = [pc EXCEPT ![c] = "send"]
      BY <2>1 DEF NewMem, FrozenInv, Goto, Await
    <2>4. aux[c].after \notin {"newmem", "await"}
      BY <2>1 DEF Waits, WaitsAs, WritersAssumption
    <2> QED
      BY <2>1, <2>2, <2>3, <2>4 DEF ControlInv
  <1>5. FrozenInv'
    <2>1. ASSUME NEW d \in Clients, pc'[d] = "newmem" PROVE FALSE
      BY <1>0, <1>4, <2>1 DEF Calm, HolderInv, Inside
    <2>2. ASSUME mc'.cmd /= None, mc'.pc \in {"resume", "trigger", "ack"}, pc'[mc'.cmd] = "await", aux'[mc'.cmd].then = "newmem"
          PROVE  FALSE
      <3>1. mc' = mc /\ mc.cmd \in Clients
        BY <1>2, <2>2 DEF CommandInv
      <3>2. pc[mc.cmd] = "await" /\ aux[mc.cmd].then = "newmem"
        BY <1>0, <2>2, <3>1 DEF Calm
      <3>3. aux[mc.cmd].fail /= "error"
        BY <3>1, <3>2 DEF ControlInv, Fits, Waits, WaitsAs, Waiting, Places, AllCalls, Writes
      <3>4. lock = mc.cmd
        BY <3>1, <3>2, <3>3 DEF HolderInv, Inside
      <3> QED
        BY <1>4, <3>2, <3>4
    <2> QED
      BY <2>1, <2>2 DEF FrozenInv
  <1> QED
    BY <1>3, <1>5

\* The memdb compaction hears one command at a time, and leaves no frozen
\* memdb to the writer that it acknowledges.  (mCompaction, memCompaction)
LEMMA MStepKeeps ==
    ASSUME WritersAssumption, ControlInv, HolderInv, CommandInv, FrozenInv, MStep
    PROVE  CommandInv' /\ FrozenInv'
  <1>0. /\ pc \in [Clients -> Labels] /\ aux \in [Clients -> Aux] /\ None \notin Clients /\ UNCHANGED aux
        /\ \A d \in Clients : pc[d] \in {"send", "await"} => aux[d].fail \in Ends /\ aux[d].then \notin {"await", "send"}
    <2>1. ASSUME NEW d \in Clients, pc[d] \in {"send", "await"}
          PROVE  aux[d].fail \in Ends /\ aux[d].then \notin {"await", "send"}
      <3>1. op[d] \in Writes \cup {"range", "tx"} /\ Waits(op[d], aux[d])
        BY <2>1 DEF ControlInv, Fits, Places, Waiting, Writes, AllCalls
      <3> QED
        BY <3>1 DEF Waits, WaitsAs, Ends
    <2>2. UNCHANGED aux
      BY MStepAnswers DEF Answered
    <2> QED
      BY <2>1, <2>2 DEF ControlInv, WritersAssumption
  <1>1. ASSUME NEW c \in Clients, MReceive(c) PROVE CommandInv' /\ FrozenInv'
    <2>1. /\ UNCHANGED <<tc, frozen>> /\ pc[c] = "send" /\ aux[c].ch = "m"
          /\ pc' = [pc EXCEPT ![c] = "await"] /\ mc' = [mc EXCEPT !.pc = "start", !.cmd = c]
      BY <1>1 DEF MReceive, Goto, dataVars
    <2>2. ~ WaitsFor(c, "t")
      BY <2>1 DEF WaitsFor, Ends
    <2>3. WaitsFor(c, "m")' /\ \A d \in Clients : WaitsFor(d, "t") => WaitsFor(d, "t")'
      BY <1>0, <2>1, <2>2 DEF WaitsFor
    <2>4. CommandInv'
      BY <2>1, <2>3 DEF CommandInv
    <2>5. FrozenInv'
      BY <1>0, <2>1 DEF FrozenInv, CommandInv
    <2> QED
      BY <2>4, <2>5
  <1>2. ASSUME MExit, UNCHANGED <<tc, frozen>> PROVE CommandInv' /\ FrozenInv'
    <2>1. mc' = [pc |-> "gone", cmd |-> None, pausing |-> FALSE]
          /\ pc' = [d \in Clients |-> IF d = mc.cmd /\ pc[d] = "await" THEN aux[d].fail ELSE pc[d]]
      BY <1>2 DEF MExit, Acked
    <2>2. \A d \in Clients : (WaitsFor(d, "t") => WaitsFor(d, "t")') /\ (pc'[d] = "newmem" => pc[d] = "newmem")
      BY <1>0, <2>1 DEF WaitsFor, Ends
    <2>3. CommandInv'
      BY <1>2, <2>1, <2>2 DEF CommandInv
    <2>4. FrozenInv'
      BY <1>2, <2>1, <2>2 DEF FrozenInv
    <2> QED
      BY <2>3, <2>4
  <1>3. ASSUME NEW l \in {"start", "pause", "flush", "backoff", "resume", "trigger", "ack"},
               NEW b \in BOOLEAN,
               mc' = [mc EXCEPT !.pc = l, !.pausing = b], UNCHANGED pc,
               tc' \in [pc : {"check", "poll", "select", "auto", "run", "backoff", "gone"},
                        cmd : Clients \cup {None}, waitQ : SUBSET Clients, paused : BOOLEAN],
               tc'.waitQ = tc.waitQ, tc'.cmd = tc.cmd,
               frozen' = frozen \/ frozen' = None,
               l \in {"resume", "trigger", "ack"} => mc.pc \in {"resume", "trigger"} \/ frozen' = None
        PROVE  CommandInv' /\ FrozenInv'
    <2>1. mc'.cmd = mc.cmd /\ mc'.pc = l
      BY <1>3 DEF CommandInv
    <2>2. CommandInv'
      BY <1>0, <1>3, <2>1 DEF CommandInv, WaitsFor
    <2>3. FrozenInv'
      BY <1>0, <1>3, <2>1 DEF FrozenInv
    <2> QED
      BY <2>2, <2>3
  <1>4. CASE MClosed
    BY <1>2, <1>4 DEF MClosed, dataVars
  <1>5. CASE MStart
    <2>1. PICK l \in {"ack", "pause"} : mc' = [mc EXCEPT !.pc = l] /\ (l = "ack" <=> frozen \in {None, 0})
      BY <1>5 DEF MStart
    <2>2. mc' = [mc EXCEPT !.pc = l, !.pausing = mc.pausing] /\ mc.pausing \in BOOLEAN
      BY <2>1 DEF CommandInv
    <2>3. UNCHANGED <<pc, tc>> /\ (frozen' = frozen \/ frozen' = None) /\ (l = "ack" => frozen' = None)
      BY <1>5, <2>1 DEF MStart, clientVars
    <2> QED
      BY <1>3, <2>1, <2>2, <2>3 DEF CommandInv
  <1>6. CASE MPause \/ MBackoff
    <2>1. PICK b \in BOOLEAN : mc' = [mc EXCEPT !.pc = "flush", !.pausing = b]
      BY <1>6 DEF MPause, MBackoff, CommandInv
    <2>2. UNCHANGED <<pc, frozen>> /\ (tc' = tc \/ tc' = [tc EXCEPT !.paused = TRUE])
      BY <1>6 DEF MPause, MBackoff, clientVars, dataVars
    <2> QED
      BY <1>3, <2>1, <2>2 DEF CommandInv
  <1>7. CASE MResume \/ MTrigger
    <2>1. PICK l \in {"trigger", "ack"}, b \in BOOLEAN : mc' = [mc EXCEPT !.pc = l, !.pausing = b]
      BY <1>7 DEF MResume, MTrigger, CommandInv
    <2>2. UNCHANGED <<pc, frozen>> /\ mc.pc \in {"resume", "trigger"}
      BY <1>7 DEF MResume, MTrigger, clientVars, dataVars
    <2>3. /\ tc' \in [pc : {"check", "poll", "select", "auto", "run", "backoff", "gone"},
                      cmd : Clients \cup {None}, waitQ : SUBSET Clients, paused : BOOLEAN]
          /\ tc'.waitQ = tc.waitQ /\ tc'.cmd = tc.cmd
      BY <1>7 DEF MResume, MTrigger, CommandInv
    <2> QED
      BY <1>3, <2>1, <2>2, <2>3
  <1>8. CASE MRun
    <2>1. CASE MExit /\ UNCHANGED frozen
      BY <1>2, <1>8, <2>1 DEF MRun
    <2>2. CASE UNCHANGED pc /\ frozen' = None /\ mc' = [mc EXCEPT !.pc = IF mc.pausing THEN "resume" ELSE "trigger"]
      <3>1. PICK l \in {"resume", "trigger"} : mc' = [mc EXCEPT !.pc = l, !.pausing = mc.pausing] /\ mc.pausing \in BOOLEAN
        BY <2>2 DEF CommandInv
      <3>2. UNCHANGED tc
        BY <1>8 DEF MRun
      <3> QED
        BY <1>3, <2>2, <3>1, <3>2 DEF CommandInv
    <2>3. CASE UNCHANGED <<pc, frozen>> /\ mc' = [mc EXCEPT !.pc = "backoff"]
      <3>1. mc' = [mc EXCEPT !.pc = "backoff", !.pausing = mc.pausing] /\ mc.pausing \in BOOLEAN
        BY <2>3 DEF CommandInv
      <3>2. UNCHANGED tc
        BY <1>8 DEF MRun
      <3> QED
        BY <1>3, <2>3, <3>1, <3>2 DEF CommandInv
    <2> QED
      BY <1>8, <2>1, <2>2, <2>3 DEF MRun
  <1>9. CASE MAck
    <2>1. /\ UNCHANGED <<tc, frozen>> /\ mc.pc = "ack" /\ mc' = [mc EXCEPT !.pc = "idle", !.cmd = None]
          /\ pc' = [d \in Clients |-> IF d = mc.cmd /\ pc[d] = "await" THEN aux[d].then ELSE pc[d]]
      BY <1>9 DEF MAck, Acked, dataVars
    <2>2. ASSUME NEW d \in Clients, WaitsFor(d, "t") PROVE WaitsFor(d, "t")'
      <3>1. CASE d = mc.cmd /\ pc[d] = "await"
        BY <1>0, <2>2, <3>1 DEF WaitsFor, CommandInv, Ends
      <3>2. CASE ~ (d = mc.cmd /\ pc[d] = "await")
        BY <1>0, <2>1, <2>2, <3>2 DEF WaitsFor
      <3> QED
        BY <3>1, <3>2
    <2>3. CommandInv'
      BY <2>1, <2>2 DEF CommandInv
    <2>4. ASSUME NEW d \in Clients, pc'[d] = "newmem" PROVE frozen = None
      <3>1. CASE d = mc.cmd /\ pc[d] = "await"
        BY <1>0, <2>1, <2>4, <3>1 DEF FrozenInv
      <3>2. CASE ~ (d = mc.cmd /\ pc[d] = "await")
        BY <2>1, <2>4, <3>2 DEF FrozenInv
      <3> QED
        BY <3>1, <3>2
    <2>5. FrozenInv'
      BY <2>1, <2>4 DEF FrozenInv, CommandInv
    <2> QED
      BY <2>3, <2>5
  <1> QED
    BY <1>1, <1>4, <1>5, <1>6, <1>7, <1>8, <1>9 DEF MStep

\* What the table compaction does to a client: only who waits for it is let
\* go.
LEMMA TAnswers ==
    ASSUME WritersAssumption, ControlInv, CommandInv, FrozenInv, UNCHANGED <<aux, frozen, mc>>,
           DOMAIN pc' = Clients,
           \A d \in Clients : \/ pc'[d] = pc[d]
                              \/ /\ pc[d] \in {"send", "await"} /\ aux[d].ch = "t"
                                 /\ pc'[d] \in {"await", aux[d].then, aux[d].fail},
           tc' \in [pc : {"check", "poll", "select", "auto", "run", "backoff", "gone"},
                    cmd : Clients \cup {None}, waitQ : SUBSET Clients, paused : BOOLEAN],
           \A d \in Clients : d \in tc'.waitQ \cup {tc'.cmd} => WaitsFor(d, "t")',
           tc'.cmd \notin tc'.waitQ
    PROVE  CommandInv' /\ FrozenInv'
  <1>1. ASSUME NEW d \in Clients, WaitsFor(d, "m") PROVE WaitsFor(d, "m")' /\ pc'[d] = pc[d]
    BY <1>1 DEF WaitsFor, Ends
  <1>2. ASSUME NEW d \in Clients, pc'[d] = "newmem" PROVE pc[d] = "newmem"
    <2>1. CASE pc[d] \in {"send", "await"} /\ aux[d].ch = "t" /\ pc'[d] \in {"await", aux[d].then, aux[d].fail}
      <3>1. op[d] \in Writes \cup {"range", "tx"} /\ Waits(op[d], aux[d])
        BY <2>1 DEF ControlInv, Fits, Places, Waiting, Writes, AllCalls
      <3> QED
        BY <1>2, <2>1, <3>1 DEF Waits, WaitsAs
    <2> QED
      BY <1>2, <2>1
  <1>3. CommandInv'
    BY <1>1 DEF CommandInv
  <1>4. FrozenInv'
    BY <1>1, <1>2 DEF FrozenInv, CommandInv
  <1> QED
    BY <1>3, <1>4

\* The table compaction lets go whom it has received.  (tCompaction)
LEMMA TStepKeeps ==
    ASSUME WritersAssumption, ControlInv, HolderInv, CommandInv, FrozenInv, TStep
    PROVE  CommandInv' /\ FrozenInv'
  <1> DEFINE Tc == [pc : {"check", "poll", "select", "auto", "run", "backoff", "gone"},
                    cmd : Clients \cup {None}, waitQ : SUBSET Clients, paused : BOOLEAN]
  <1>0. /\ pc \in [Clients -> Labels] /\ aux \in [Clients -> Aux] /\ None \notin Clients /\ UNCHANGED aux
        /\ tc \in Tc
        /\ \A d \in Clients : d \in tc.waitQ \cup {tc.cmd} => WaitsFor(d, "t")
        /\ tc.cmd \notin tc.waitQ
    BY TStepAnswers DEF Answered, ControlInv, WritersAssumption, CommandInv
  <1>1. ASSUME NEW d \in Clients, pc[d] \in {"send", "await"}, aux[d].ch = "t"
        PROVE  aux[d].fail \in Ends
    BY <1>1, WaitGoesOn DEF ControlInv, Waiting
  \* Acknowledgements of waiters, and of nobody else.
  <1>2. ASSUME NEW X \in SUBSET Clients, NEW ok \in BOOLEAN, UNCHANGED <<frozen, mc>>,
               X \subseteq tc.waitQ \cup {tc.cmd},
               pc' = [d \in Clients |-> IF d \in X /\ pc[d] = "await"
                                        THEN IF ok THEN aux[d].then ELSE aux[d].fail
                                        ELSE pc[d]],
               tc' \in Tc, tc'.waitQ \subseteq tc.waitQ, tc'.cmd \in {tc.cmd, None},
               ok => tc'.waitQ \cap X = {} /\ tc'.cmd \notin X
        PROVE  CommandInv' /\ FrozenInv'
    <2>1. ASSUME NEW d \in Clients
          PROVE  \/ pc'[d] = pc[d]
                 \/ pc[d] \in {"send", "await"} /\ aux[d].ch = "t" /\ pc'[d] \in {"await", aux[d].then, aux[d].fail}
      BY <1>0, <1>2, <2>1 DEF WaitsFor, Ends
    <2>3. tc'.cmd \notin tc'.waitQ
      BY <1>0, <1>2
    <2>2. ASSUME NEW d \in Clients, d \in tc'.waitQ \cup {tc'.cmd} PROVE WaitsFor(d, "t")'
      <3>1. WaitsFor(d, "t") /\ d \in tc.waitQ \cup {tc.cmd}
        BY <1>0, <1>2, <2>2
      <3>2. CASE d \in X /\ pc[d] = "await"
        BY <1>0, <1>1, <1>2, <2>2, <3>1, <3>2 DEF WaitsFor, Ends
      <3>3. CASE ~ (d \in X /\ pc[d] = "await")
        BY <1>0, <1>2, <3>1, <3>3 DEF WaitsFor
      <3> QED
        BY <3>2, <3>3
    <2> QED
      BY <1>0, <1>2, <2>1, <2>2, <2>3, TAnswers
  <1>3. ASSUME TExit, UNCHANGED <<frozen, mc>> PROVE CommandInv' /\ FrozenInv'
    <2>1. PICK X \in SUBSET Clients : X = (tc.waitQ \cup {tc.cmd}) \cap Clients
      OBVIOUS
    <2>2. pc' = [d \in Clients |-> IF d \in X /\ pc[d] = "await"
                                   THEN IF FALSE THEN aux[d].then ELSE aux[d].fail
                                   ELSE pc[d]]
      BY <1>3, <2>1 DEF TExit, AckAll, Acked
    <2>3. tc' \in Tc /\ tc'.waitQ = {} /\ tc'.cmd = None
      BY <1>3 DEF TExit
    <2> QED
      BY <1>2, <1>3, <2>1, <2>2, <2>3
  <1>4. CASE TCheck
    <2>1. UNCHANGED <<frozen, mc>>
      BY <1>4 DEF TCheck, dataVars
    <2>2. CASE Need
      <3>1. tc' \in Tc /\ tc'.waitQ = tc.waitQ /\ tc'.cmd = tc.cmd /\ UNCHANGED pc
        BY <1>0, <1>4, <2>2 DEF TCheck
      <3> QED
        BY <1>0, <2>1, <3>1, TAnswers DEF WaitsFor
    <2>3. CASE ~ Need
      <3>1. tc' \in Tc /\ tc'.waitQ = {} /\ tc'.cmd = tc.cmd
        BY <1>0, <1>4, <2>3 DEF TCheck
      <3>2. pc' = [d \in Clients |-> IF d \in tc.waitQ /\ pc[d] = "await"
                                     THEN IF TRUE THEN aux[d].then ELSE aux[d].fail
                                     ELSE pc[d]]
        BY <1>4, <2>3 DEF TCheck, AckAll, Acked
      <3> QED
        BY <1>0, <1>2, <2>1, <3>1, <3>2
    <2> QED
      BY <2>2, <2>3
  <1>5. CASE TPoll
    <2>1. UNCHANGED <<frozen, mc>>
      BY <1>5 DEF TPoll, dataVars
    <2>2. CASE ~ ResumeWrite
      <3>1. tc' \in Tc /\ tc'.waitQ = tc.waitQ /\ tc'.cmd = tc.cmd /\ UNCHANGED pc
        BY <1>0, <1>5, <2>2 DEF TPoll
      <3> QED
        BY <1>0, <2>1, <3>1, TAnswers DEF WaitsFor
    <2>3. CASE ResumeWrite
      <3>1. tc' \in Tc /\ tc'.waitQ = {} /\ tc'.cmd = tc.cmd
        BY <1>0, <1>5, <2>3 DEF TPoll
      <3>2. pc' = [d \in Clients |-> IF d \in tc.waitQ /\ pc[d] = "await"
                                     THEN IF TRUE THEN aux[d].then ELSE aux[d].fail
                                     ELSE pc[d]]
        BY <1>5, <2>3 DEF TPoll, AckAll, Acked
      <3> QED
        BY <1>0, <1>2, <2>1, <3>1, <3>2
    <2> QED
      BY <2>2, <2>3
  <1>6. CASE TClosed
    BY <1>3, <1>6 DEF TClosed, dataVars
  <1>7. CASE TAuto \/ TBackoff
    <2>1. UNCHANGED <<frozen, mc, pc>>
      BY <1>7 DEF TAuto, TBackoff, dataVars, clientVars
    <2>2. tc' \in Tc /\ tc'.waitQ = tc.waitQ /\ tc'.cmd = tc.cmd
      BY <1>0, <1>7 DEF TAuto, TBackoff
    <2> QED
      BY <1>0, <2>1, <2>2, TAnswers DEF WaitsFor
  <1>8. CASE TRun
    <2>1. UNCHANGED <<frozen, mc>>
      BY <1>8 DEF TRun
    <2>2. CASE TExit
      BY <1>3, <2>1, <2>2
    <2>3. CASE pc' = Acked(tc.cmd, pc, TRUE)
               /\ tc' = [tc EXCEPT !.pc = IF @ = "run" /\ tc.cmd /= None THEN "auto" ELSE "check", !.cmd = None]
      <3>1. tc' \in Tc /\ tc'.waitQ = tc.waitQ /\ tc'.cmd = None
        BY <1>0, <2>3
      <3>2. PICK X \in SUBSET Clients : X = {tc.cmd} \cap Clients
        OBVIOUS
      <3>3. pc' = [d \in Clients |-> IF d \in X /\ pc[d] = "await"
                                     THEN IF TRUE THEN aux[d].then ELSE aux[d].fail
                                     ELSE pc[d]]
        BY <2>3, <3>2 DEF Acked
      <3>4. X \subseteq tc.waitQ \cup {tc.cmd} /\ tc'.waitQ \cap X = {} /\ tc'.cmd \notin X
        BY <1>0, <3>1, <3>2
      <3> QED
        BY <1>0, <1>2, <2>1, <3>1, <3>3, <3>4
    <2>4. CASE UNCHANGED pc /\ tc' = [tc EXCEPT !.pc = "backoff"]
      <3>1. tc' \in Tc /\ tc'.waitQ = tc.waitQ /\ tc'.cmd = tc.cmd
        BY <1>0, <2>4
      <3> QED
        BY <1>0, <2>1, <2>4, <3>1, TAnswers DEF WaitsFor
    <2> QED
      BY <1>8, <2>2, <2>3, <2>4 DEF TRun
  <1>9. ASSUME NEW c \in Clients, TReceive(c) PROVE CommandInv' /\ FrozenInv'
    <2>1. UNCHANGED <<frozen, mc>> /\ pc[c] = "send" /\ aux[c].ch = "t"
      BY <1>9 DEF TReceive, dataVars
    <2>2. c \notin tc.waitQ /\ c /= tc.cmd
      BY <1>0, <2>1 DEF WaitsFor, Ends
    <2>3. PICK X \in SUBSET Clients :
            /\ X \in {{}, tc.waitQ}
            /\ \/ /\ tc' = [tc EXCEPT !.pc = "run", !.cmd = c, !.waitQ = @ \ X]
                  /\ pc' = [AckAll(X, pc, TRUE) EXCEPT ![c] = "await"]
               \/ /\ tc' = [tc EXCEPT !.pc = "auto", !.waitQ = @ \ X]
                  /\ pc' = Acked(c, [AckAll(X, pc, TRUE) EXCEPT ![c] = "await"], TRUE)
               \/ /\ tc' = [tc EXCEPT !.pc = "auto", !.waitQ = (@ \ X) \cup {c}]
                  /\ pc' = [AckAll(X, pc, TRUE) EXCEPT ![c] = "await"]
      BY <1>0, <1>9 DEF TReceive
    <2>4. AckAll(X, pc, TRUE) = [d \in Clients |-> IF d \in X /\ pc[d] = "await" THEN aux[d].then ELSE pc[d]]
      BY DEF AckAll, Acked
    <2>5. /\ pc' = [d \in Clients |-> IF d = c THEN pc'[c] ELSE IF d \in X /\ pc[d] = "await" THEN aux[d].then ELSE pc[d]]
          /\ pc'[c] \in {"await", aux[c].then}
          /\ tc' \in Tc
          /\ \/ tc'.cmd = c /\ tc'.waitQ = tc.waitQ \ X /\ pc'[c] = "await"
             \/ tc'.cmd = tc.cmd /\ tc'.waitQ = tc.waitQ \ X
             \/ tc'.cmd = tc.cmd /\ tc'.waitQ = (tc.waitQ \ X) \cup {c} /\ pc'[c] = "await"
      <3>1. CASE /\ tc' = [tc EXCEPT !.pc = "run", !.cmd = c, !.waitQ = @ \ X]
                 /\ pc' = [AckAll(X, pc, TRUE) EXCEPT ![c] = "await"]
        <4>1. tc' \in Tc /\ tc'.cmd = c /\ tc'.waitQ = tc.waitQ \ X
          BY <1>0, <3>1
        <4> QED
          BY <2>4, <3>1, <4>1
      <3>2. CASE /\ tc' = [tc EXCEPT !.pc = "auto", !.waitQ = @ \ X]
                 /\ pc' = Acked(c, [AckAll(X, pc, TRUE) EXCEPT ![c] = "await"], TRUE)
        <4>1. tc' \in Tc /\ tc'.cmd = tc.cmd /\ tc'.waitQ = tc.waitQ \ X
          BY <1>0, <3>2
        <4> QED
          BY <2>4, <3>2, <4>1 DEF Acked
      <3>3. CASE /\ tc' = [tc EXCEPT !.pc = "auto", !.waitQ = (@ \ X) \cup {c}]
                 /\ pc' = [AckAll(X, pc, TRUE) EXCEPT ![c] = "await"]
        <4>1. tc' \in Tc /\ tc'.cmd = tc.cmd /\ tc'.waitQ = (tc.waitQ \ X) \cup {c}
          BY <1>0, <3>3
        <4> QED
          BY <2>4, <3>3, <4>1
      <3> QED
        BY <2>3, <3>1, <3>2, <3>3
    <2>6. ASSUME NEW d \in Clients
          PROVE  \/ pc'[d] = pc[d]
                 \/ pc[d] \in {"send", "await"} /\ aux[d].ch = "t" /\ pc'[d] \in {"await", aux[d].then, aux[d].fail}
      BY <1>0, <2>1, <2>3, <2>5 DEF WaitsFor, Ends
    <2>7. tc' \in Tc /\ tc'.cmd \notin tc'.waitQ
      BY <1>0, <2>2, <2>5
    <2>8. ASSUME NEW d \in Clients, d \in tc'.waitQ \cup {tc'.cmd} PROVE WaitsFor(d, "t")'
      <3>1. CASE d = c
        <4>1. pc'[c] = "await"
          BY <1>0, <2>2, <2>5, <2>8, <3>1
        <4> QED
          BY <1>0, <2>1, <3>1, <4>1 DEF WaitsFor
      <3>2. CASE d /= c
        <4>1. d \in tc.waitQ \cup {tc.cmd} /\ d \notin X
          BY <1>0, <2>3, <2>5, <2>8, <3>2
        <4> QED
          BY <1>0, <2>5, <3>2, <4>1 DEF WaitsFor
      <3> QED
        BY <3>1, <3>2
    <2> QED
      BY <1>0, <2>1, <2>5, <2>6, <2>7, <2>8, TAnswers
  <1> QED
    BY <1>4, <1>5, <1>6, <1>7, <1>8, <1>9 DEF TStep

\* The other steps leave the compactions alone.
LEMMA OthersKeep ==
    ASSUME WritersAssumption, ControlInv, CommandInv, FrozenInv,
           (\E c \in Clients : \E o \in Calls[c] : Call(c, o)) \/ ErrorLock \/ ErrorExit
    PROVE  CommandInv' /\ FrozenInv'
  <1>1. UNCHANGED <<frozen, mc, tc, aux>>
    BY DEF Call, ErrorLock, ErrorExit, dataVars, clientVars
  <1>2. ASSUME NEW d \in Clients PROVE pc'[d] = pc[d] \/ (pc[d] = "idle" /\ pc'[d] \in {"done", "close", "wait"})
    BY DEF Call, ErrorLock, ErrorExit, dataVars, clientVars, Goto, Return, ControlInv
  <1>3. \A d \in Clients : Calm(d)
    BY <1>1, <1>2 DEF Calm, Ends
  <1>4. tc \in [pc : {"check", "poll", "select", "auto", "run", "backoff", "gone"},
                cmd : Clients \cup {None}, waitQ : SUBSET Clients, paused : BOOLEAN]
    BY DEF CommandInv
  <1> QED
    BY <1>1, <1>3, <1>4, CalmKeeps

\* And the steps of the clients.
LEMMA ClientKeeps ==
    ASSUME WritersAssumption, ControlInv, HolderInv, GroupInv, CommandInv, FrozenInv, NEW c \in Clients, ClientStep(c)
    PROVE  CommandInv' /\ FrozenInv'
  <1>1. CASE NewMem(c)
    BY <1>1, NewMemKeeps
  <1>2. CASE ~ NewMem(c)
    <2>1. UNCHANGED <<frozen, mc>> /\ (tc' = tc \/ tc' = [tc EXCEPT !.pc = "auto"])
      BY <1>2 DEF dataVars, ClientStep, TakeLock, Refused, AwaitFails, Flush, Fresh, MergeEnd, Write, NewMem, Unlock,
           Merge, Ack, Fail, FailUnlocked, Range1, Range2, Range3, Ok, ReadOnly, TxOpen, TxCommit, TxEnd,
           Close1, Close2, Close3
    <2>2. /\ tc' \in [pc : {"check", "poll", "select", "auto", "run", "backoff", "gone"},
                      cmd : Clients \cup {None}, waitQ : SUBSET Clients, paused : BOOLEAN]
          /\ tc'.waitQ = tc.waitQ /\ tc'.cmd = tc.cmd
      BY <2>1 DEF CommandInv
    <2> QED
      BY <2>1, <2>2, ClientCalm, CalmKeeps
  <1> QED
    BY <1>1, <1>2

-----------------------------------------------------------------------------
(* GroupInv and JournalInv.                                                *)

\* A client that has no part in a group, or goes on with its part in it.
Quiet(d) ==
    /\ pc[d] \in {"merged", "over", "done"} \/ pc'[d] \in {"merged", "over", "idle"} =>
          pc'[d] = pc[d] /\ res'[d] = res[d]
    /\ pc'[d] \in {"merge", "write"} => pc[d] \in {"merge", "write"}
    /\ pc'[d] = "merge" => pc[d] = "merge"
    /\ pc'[d] \in Waiting /\ aux'[d].fail = "unlock" => pc[d] \in Waiting /\ aux[d].fail = "unlock"
    /\ Grouping(d) => Grouping(d)'
    /\ op[d] \in Writes /\ pc[d] /= "done" =>
          IF pc'[d] = "done" THEN res'[d] /= "ok" /\ Verdict(d) = "none" ELSE Verdict(d)' = Verdict(d)

\* What is told stays, and who has been told nothing is not told of success.
Steady(d) == Told(d)' = Told(d) \/ (Told(d) \notin {"ok", "err"} /\ Told(d)' /= "ok")

\* The journal stays, and so does what it has of every write.
LEMMA JournalSame ==
    ASSUME JournalInv, UNCHANGED journal, \A d \in Clients : Steady(d)
    PROVE  JournalInv'
  <1>1. ASSUME NEW d \in Clients PROVE Entry(d, Told(d))'
    <2>1. (Absent(d)' <=> Absent(d)) /\ (Once(d)' <=> Once(d))
      BY DEF Absent, Once
    <2>2. Entry(d, Told(d)) /\ Steady(d)
      BY DEF JournalInv
    <2> QED
      BY <2>1, <2>2 DEF Entry, Steady
  <1>2. ASSUME NEW i \in DOMAIN journal, NEW j \in DOMAIN journal[i], NEW k \in DOMAIN journal[i]
        PROVE  Told(journal[i][j])' = Told(journal[i][k])'
    <2>1. journal[i] \in Seq(Clients)
      BY DEF JournalInv
    <2>2. PICK d \in Clients : d = journal[i][j]
      BY <2>1
    <2>3. PICK e \in Clients : e = journal[i][k]
      BY <2>1
    <2>4. ~ Absent(d) /\ ~ Absent(e) /\ Told(d) = Told(e)
      BY <2>2, <2>3 DEF Absent, JournalInv
    <2>5. Told(d) \in {"ok", "err"} /\ Told(e) \in {"ok", "err"}
      BY <2>4 DEF JournalInv, Entry
    <2>6. Told(d)' = Told(d) /\ Told(e)' = Told(e)
      BY <2>5 DEF Steady
    <2>7. Told(journal[i][j])' = Told(d)' /\ Told(journal[i][k])' = Told(e)'
      BY <2>2, <2>3 DEF Told, Verdict
    <2> QED
      BY <2>4, <2>6, <2>7
  <1>3. journal' \in Seq(Seq(Clients)) /\ \A i \in DOMAIN journal' : IsInjectiveSeq(journal'[i])
    BY DEF JournalInv
  <1>4. \A d \in Clients : Entry(d, Told(d))'
    BY <1>1
  <1>5. \A i \in DOMAIN journal' : \A j, k \in DOMAIN journal'[i] : Told(journal[i][j])' = Told(journal[i][k])'
    BY <1>2
  <1> QED
    BY <1>3, <1>4, <1>5 DEF JournalInv

\* Steps of such clients keep the group and what the journal has to say.
LEMMA QuietKeeps ==
    ASSUME WritersAssumption, ControlInv, GroupInv, JournalInv, UNCHANGED <<grp, journal, op>>,
           \A d \in Clients : Quiet(d),
           lock \in Clients /\ Grouping(lock) => lock' = lock
    PROVE  GroupInv' /\ JournalInv'
  <1>1. GroupInv'
    <2>1. \A d \in Clients : pc[d] \in {"merged", "over", "done"} => pc'[d] = pc[d]
      BY DEF Quiet
    <2>2. \A d \in Clients : pc'[d] \in {"merged", "over"} => pc'[d] = pc[d]
      BY DEF Quiet
    <2>3. lock \in Clients /\ Grouping(lock) => lock' \in Clients /\ Grouping(lock)'
      <3>1. \A d \in Clients : Grouping(d) => Grouping(d)'
        BY DEF Quiet
      <3> QED
        BY <3>1
    <2>4. \A c \in ToSet(grp.merged) : c \in Clients /\ pc'[c] \in {"merged", "done"}
      BY <2>1 DEF GroupInv, ToSet
    <2>5. \A c \in Clients : pc'[c] \in {"merge", "write"} => \A d \in ToSet(grp.merged) : pc'[d] = "merged"
      BY <2>1, <2>4 DEF Quiet, GroupInv
    <2>6. \A c \in Clients : pc'[c] = "merged" => c \in ToSet(grp.merged) /\ lock' \in Clients /\ Grouping(lock)'
      BY <2>2, <2>3 DEF GroupInv
    <2>7. \A c \in Clients : (pc'[c] = "over" => grp.over = c) /\ (pc'[c] = "merge" => grp.over = None)
      BY <2>2 DEF GroupInv, Quiet
    <2>8. grp.over /= None => pc'[grp.over] = "over" /\ lock' \in Clients /\ Grouping(lock)'
      BY <2>1, <2>3 DEF GroupInv
    <2>9. \A c \in Clients : pc'[c] \in {"merge", "write"} \/ (pc'[c] \in Waiting /\ aux'[c].fail = "unlock") =>
             grp.err = "ok"
      BY DEF GroupInv, Quiet
    <2> QED
      BY <2>4, <2>5, <2>6, <2>7, <2>8, <2>9 DEF GroupInv
  <1>2. ASSUME NEW c \in Clients PROVE Steady(c)
    <2>1. CASE op[c] \notin Writes
      BY <2>1 DEF Told, Steady
    <2>2. CASE op[c] \in Writes /\ pc[c] = "done"
      BY <2>2 DEF Told, Steady, Quiet
    <2>3. CASE op[c] \in Writes /\ pc[c] = "merged"
      <3>1. lock \in Clients /\ lock' = lock /\ Grouping(lock)
        BY <2>3 DEF GroupInv
      <3>2. op[lock] \in Writes /\ pc[lock] /= "done" /\ Grouping(lock)'
        BY <3>1 DEF Grouping, Quiet, ControlInv, Fits, Places, Waits, WaitsAs, Writes, AllCalls, Waiting
      <3>3. pc'[lock] /= "done"
        BY <3>2, <3>1 DEF Grouping, Waiting
      <3>4. Verdict(lock)' = Verdict(lock)
        BY <3>1, <3>2, <3>3 DEF Quiet
      <3>5. pc'[c] = "merged"
        BY <2>3 DEF Quiet
      <3> QED
        BY <2>3, <3>1, <3>4, <3>5 DEF Told, Steady
    <2>4. CASE op[c] \in Writes /\ pc[c] \notin {"done", "merged"}
      <3>1. pc'[c] /= "merged"
        BY <2>4 DEF Quiet
      <3>2. CASE pc'[c] = "done"
        BY <2>4, <3>2 DEF Told, Steady, Quiet
      <3>3. CASE pc'[c] /= "done"
        BY <2>4, <3>1, <3>3 DEF Told, Steady, Quiet
      <3> QED
        BY <3>2, <3>3
    <2> QED
      BY <2>1, <2>2, <2>3, <2>4
  <1>3. JournalInv'
    BY <1>2, JournalSame
  <1> QED
    BY <1>1, <1>3

\* The goroutines are such.
LEMMA GroupAnswered ==
    ASSUME WritersAssumption, ControlInv, GroupInv, JournalInv, Answered
    PROVE  GroupInv' /\ JournalInv'
  <1>1. ASSUME NEW d \in Clients PROVE Quiet(d)
    <2>1. CASE pc'[d] = pc[d]
      BY <2>1 DEF Quiet, Answered, Grouping, Verdict
    <2>2. CASE pc[d] \in {"send", "await"} /\ pc'[d] \in {"await", aux[d].then, aux[d].fail}
      <3>1. op[d] \in Writes \cup {"range", "tx"} /\ Waits(op[d], aux[d])
        BY <2>2 DEF ControlInv, Fits, Places, Waiting, Writes, AllCalls
      <3>2. IF aux[d].fail = "unlock" THEN pc'[d] \in {"await", "newmem", "unlock"}
            ELSE pc'[d] \in {"await", "flush", "newmem", "fail", "rangetable", "ok", "error", "leak", "txwait", "txopen", "txend"}
        BY <2>2, <3>1 DEF Waits, WaitsAs
      <3>3. aux[d].fail = "unlock" => grp.err = "ok"
        BY <2>2 DEF GroupInv, Waiting
      <3> QED
        BY <2>2, <3>2, <3>3 DEF Quiet, Answered, Grouping, Verdict, Waiting
    <2> QED
      BY <2>1, <2>2 DEF Answered, Answers
  <1> QED
    BY <1>1, QuietKeeps DEF Answered

\* A step of one such client.
LEMMA QuietOne ==
    ASSUME WritersAssumption, ControlInv, GroupInv, JournalInv, UNCHANGED <<grp, journal, op>>,
           NEW c \in Clients, Quiet(c),
           \A d \in Clients \ {c} : pc'[d] = pc[d] /\ aux'[d] = aux[d] /\ res'[d] = res[d],
           lock \in Clients /\ Grouping(lock) => lock' = lock
    PROVE  GroupInv' /\ JournalInv'
  <1>1. ASSUME NEW d \in Clients \ {c} PROVE Quiet(d)
    BY DEF Quiet, Grouping, Verdict
  <1> QED
    BY <1>1, QuietKeeps

\* Most steps of the clients are.
LEMMA GroupQuiet ==
    ASSUME WritersAssumption, DataInv, ControlInv, HolderInv, FrozenInv, GroupInv, JournalInv, NEW c \in Clients,
           \/ TakeLock(c) \/ Refused(c) \/ AwaitFails(c) \/ (Flush(c) /\ pc'[c] = "send") \/ MergeEnd(c) \/ NewMem(c)
           \/ Fail(c) \/ FailUnlocked(c) \/ Range1(c) \/ Range2(c) \/ Range3(c) \/ Ok(c) \/ ReadOnly(c)
           \/ TxOpen(c) \/ TxCommit(c) \/ TxEnd(c) \/ Close1(c) \/ Close2(c) \/ Close3(c)
    PROVE  GroupInv' /\ JournalInv'
  <1> USE DEF Goto, Return, dataVars
  <1>0. /\ pc \in [Clients -> Labels] /\ aux \in [Clients -> Aux] /\ op \in [Clients -> AllCalls \cup {None}]
        /\ res \in [Clients -> {None, "ok", "err", "closed"}]
        /\ \A d \in Clients : Fits(op[d], pc[d], aux[d])
        /\ None \notin AllCalls /\ None \notin Clients /\ "error" \notin Clients
    BY DEF ControlInv, DataInv, WritersAssumption
  \* Who has the lock and has no group.
  <1>00. ASSUME lock = c, ~ Grouping(c) PROVE lock \in Clients /\ Grouping(lock) => lock' = lock
    BY <1>00
  <1>1. CASE TakeLock(c)
    <2>1. UNCHANGED <<grp, journal, op, aux, res>> /\ pc[c] = "wait" /\ lock = None /\ pc' = [pc EXCEPT ![c] = Locked(c)]
      BY <1>1 DEF TakeLock
    <2>2. Locked(c) \in {"flush", "range", "readonly", "tx"}
      BY <1>0, <2>1 DEF Locked, Fits, Places, AllCalls, Writes
    <2>3. Quiet(c)
      BY <1>0, <2>1, <2>2 DEF Quiet, Grouping, Verdict, Waiting
    <2> QED
      BY <1>0, <2>1, <2>3, QuietOne
  <1>2. CASE Refused(c) \/ Fail(c) \/ FailUnlocked(c) \/ Ok(c) \/ ReadOnly(c) \/ TxEnd(c) \/ Close3(c)
    <2>1. UNCHANGED <<grp, journal, op, aux>> /\ pc' = [pc EXCEPT ![c] = "done"] /\ (lock' = lock \/ pc[c] \in {"fail", "txend", "txopen"})
          /\ pc[c] \in {"wait", "fail", "error", "leak", "ok", "readonly", "txend", "txopen", "closewait"}
      BY <1>2 DEF Refused, Fail, FailUnlocked, Ok, ReadOnly, TxEnd, Close3
    <2>2. /\ \A d \in Clients \ {c} : res'[d] = res[d]
          /\ pc[c] \in {"wait", "fail"} => res'[c] /= "ok"
      BY <1>0, <1>2 DEF Refused, Fail, FailUnlocked, Ok, ReadOnly, TxEnd, Close3
    <2>3. op[c] \in Writes => pc[c] \in {"wait", "fail"}
      BY <1>0, <2>1 DEF Fits, Places, Waiting
    <2>4. Quiet(c)
      BY <1>0, <2>1, <2>2, <2>3 DEF Quiet, Grouping, Verdict, Waiting
    <2>5. lock \in Clients /\ Grouping(lock) => lock' = lock
      <3>1. CASE lock' = lock
        BY <3>1
      <3>2. CASE pc[c] \in {"fail", "txend", "txopen"}
        BY <1>00, <3>2 DEF HolderInv, Inside, Grouping, Waiting
      <3> QED
        BY <2>1, <3>1, <3>2
    <2>6. \A d \in Clients \ {c} : pc'[d] = pc[d] /\ aux'[d] = aux[d] /\ res'[d] = res[d]
      BY <1>0, <2>1, <2>2
    <2> QED
      BY <2>1, <2>4, <2>5, <2>6, QuietOne
  <1>3. CASE AwaitFails(c)
    BY <1>3, AwaitFailsAnswers, GroupAnswered
  \* A wait begins that is not for the rotation after a write.
  <1>4. ASSUME pc' = [pc EXCEPT ![c] = "send"], aux' = [aux EXCEPT ![c] = aux'[c]], aux'[c].fail /= "unlock",
               UNCHANGED <<grp, journal, op, res>>, pc[c] \notin {"merge", "write", "unlock", "merged", "over", "done"},
               pc[c] \in Waiting => aux[c].fail /= "unlock",
               lock \in Clients /\ Grouping(lock) => lock' = lock
        PROVE  GroupInv' /\ JournalInv'
    <2>1. Quiet(c)
      BY <1>0, <1>4 DEF Quiet, Grouping, Verdict, Waiting
    <2> QED
      BY <1>0, <1>4, <2>1, QuietOne
  \* A step to a place that has nothing to do with groups, from one like it.
  <1>5. ASSUME NEW l \in {"rangewait", "fresh", "txopen", "txend", "closelock", "closewait"},
               pc' = [pc EXCEPT ![c] = l], UNCHANGED <<grp, journal, op, res>>,
               \A d \in Clients \ {c} : aux'[d] = aux[d],
               pc[c] \notin {"merge", "write", "unlock", "merged", "over", "done"},
               pc[c] \in Waiting => aux[c].fail /= "unlock",
               lock \in Clients /\ Grouping(lock) => lock' = lock
        PROVE  GroupInv' /\ JournalInv'
    <2>1. Quiet(c)
      BY <1>0, <1>5 DEF Quiet, Grouping, Verdict, Waiting
    <2> QED
      BY <1>0, <1>5, <2>1, QuietOne
  <1>6. CASE Flush(c) /\ pc'[c] = "send"
    <2>1. pc[c] = "flush" /\ UNCHANGED <<op, res, lock, journal, grp>>
      BY <1>0, <1>6 DEF Flush
    <2>2. pc' = [pc EXCEPT ![c] = "send"] /\ aux' = [aux EXCEPT ![c] = aux'[c]] /\ aux'[c].fail = "fail"
      BY <1>0, <1>6 DEF Flush, Await
    <2> QED
      BY <1>4, <2>1, <2>2 DEF Waiting
  <1>7. CASE MergeEnd(c)
    <2>1. pc[c] = "merge" /\ pc' = [pc EXCEPT ![c] = "write"] /\ UNCHANGED <<op, res, aux, lock, grp, journal>>
      BY <1>7 DEF MergeEnd
    <2>2. Quiet(c)
      BY <1>0, <2>1 DEF Quiet, Grouping, Verdict, Waiting
    <2> QED
      BY <1>0, <2>1, <2>2, QuietOne
  <1>8. CASE NewMem(c)
    <2>1. frozen = None /\ pc[c] = "newmem" /\ UNCHANGED <<op, res, lock, journal, grp>>
      BY <1>8 DEF NewMem, FrozenInv
    <2>2. op[c] \in Writes \cup {"range", "tx"} /\ Waits(op[c], aux[c]) /\ aux[c].then = "newmem"
      BY <1>0, <2>1 DEF Fits, Places, Waiting, Writes, AllCalls
    <2>3. CASE aux[c].after = "txwait"
      <3>1. aux' = [aux EXCEPT ![c] = aux'[c]] /\ aux'[c].fail = "leak" /\ pc' = [pc EXCEPT ![c] = "send"] /\ aux[c].fail = "leak"
        BY <1>0, <1>8, <2>1, <2>2, <2>3 DEF NewMem, Await, Waits, WaitsAs, WritersAssumption
      <3> QED
        BY <2>1, <3>1, <1>4
    <2>4. CASE aux[c].after /= "txwait"
      <3>1. pc' = [pc EXCEPT ![c] = aux[c].after] /\ aux' = [aux EXCEPT ![c] = NoAux]
        BY <1>8, <2>1, <2>4 DEF NewMem
      <3>2. CASE aux[c].after = "unlock"
        <4>1. aux[c].fail = "unlock" /\ grp.err = "ok"
          BY <2>1, <2>2, <3>2 DEF Waits, WaitsAs, GroupInv, Waiting, WritersAssumption
        <4>2. Quiet(c)
          BY <1>0, <2>1, <3>1, <3>2, <4>1 DEF Quiet, Grouping, Verdict, Waiting
        <4> QED
          BY <1>0, <2>1, <3>1, <4>2, QuietOne
      <3>3. CASE aux[c].after \in {"fresh", "rangewait"} /\ aux[c].fail /= "unlock"
        BY <1>0, <1>5, <2>1, <3>1, <3>3
      <3>4. aux[c].after = "unlock" \/ (aux[c].after \in {"fresh", "rangewait"} /\ aux[c].fail /= "unlock")
        BY <2>2, <2>4 DEF Waits, WaitsAs, WritersAssumption
      <3> QED
        BY <3>2, <3>3, <3>4
    <2> QED
      BY <2>3, <2>4
  <1>9. CASE Range1(c) \/ Range2(c) \/ Range3(c)
    <2>1. pc[c] \in {"range", "rangewait", "rangetable"} /\ UNCHANGED <<op, res, journal, grp>>
          /\ pc' = [pc EXCEPT ![c] = "send"]
      BY <1>9 DEF Range1, Range2, Range3, Await
    <2>2. aux' = [aux EXCEPT ![c] = aux'[c]] /\ aux'[c].fail \in {"fail", "error"}
      BY <1>0, <1>9 DEF Range1, Range2, Range3, Await
    <2>3. lock' = lock \/ pc[c] \in {"range", "rangewait"}
      BY <1>9 DEF Range1, Range2, Range3
    <2>4. lock \in Clients /\ Grouping(lock) => lock' = lock
      BY <1>00, <2>1, <2>3 DEF HolderInv, Inside, Grouping, Waiting
    <2> QED
      BY <1>4, <2>1, <2>2, <2>4 DEF Waiting
  <1>10. CASE TxOpen(c) \/ TxCommit(c)
    <2>1. pc[c] \in {"tx", "txwait", "txopen"} /\ UNCHANGED <<op, res, journal, grp, lock>>
      BY <1>10 DEF TxOpen, TxCommit
    <2>2. CASE pc'[c] = "send"
      <3>1. pc' = [pc EXCEPT ![c] = "send"] /\ aux' = [aux EXCEPT ![c] = aux'[c]] /\ aux'[c].fail \in {"leak", "txend"}
        BY <1>0, <1>10, <2>2 DEF TxOpen, TxCommit, Await
      <3> QED
        BY <1>4, <2>1, <3>1 DEF Waiting
    <2>3. CASE pc'[c] /= "send"
      <3>1. (pc' = [pc EXCEPT ![c] = "txopen"] \/ pc' = [pc EXCEPT ![c] = "txend"]) /\ UNCHANGED aux
        BY <1>0, <1>10, <2>3 DEF TxOpen, TxCommit, Await
      <3> QED
        BY <1>5, <2>1, <3>1 DEF Waiting
    <2> QED
      BY <2>2, <2>3
  <1>11. CASE Close2(c)
    <2>1. pc[c] = "closelock" /\ lock = None /\ pc' = [pc EXCEPT ![c] = "closewait"] /\ UNCHANGED <<op, res, aux, grp, journal>>
      BY <1>11 DEF Close2
    <2> QED
      BY <1>0, <1>5, <2>1 DEF Waiting
  <1>12. CASE Close1(c)
    <2>1. UNCHANGED <<op, aux, grp, journal>> /\ pc[c] = "close"
          /\ pc' = [x \in Clients |-> IF x = c THEN "closelock" ELSE IF pc[x] = "txopen" THEN "done" ELSE pc[x]]
          /\ res' = [x \in Clients |-> IF pc[x] = "txopen" THEN "closed" ELSE res[x]]
          /\ lock' = IF {x \in Clients : pc[x] = "txopen"} = {} THEN lock ELSE None
      BY <1>12 DEF Close1
    <2>2. \A d \in Clients : Quiet(d)
      BY <1>0, <2>1 DEF Quiet, Grouping, Verdict, Waiting
    <2>3. ASSUME lock \in Clients, Grouping(lock) PROVE lock' = lock
      <3>1. \A x \in Clients : pc[x] = "txopen" => lock = x
        BY DEF HolderInv, Inside
      <3>2. pc[lock] /= "txopen"
        BY <2>3 DEF Grouping, Waiting
      <3>3. {x \in Clients : pc[x] = "txopen"} = {}
        BY <3>1, <3>2
      <3> QED
        BY <2>1, <3>3
    <2> QED
      BY <2>1, <2>2, <2>3, QuietKeeps
  <1> QED
    BY <1>1, <1>2, <1>3, <1>6, <1>7, <1>8, <1>9, <1>10, <1>11, <1>12

\* A new group begins when nobody is left of another.  (flush, writeLocked)
LEMMA GroupBegins ==
    ASSUME WritersAssumption, DataInv, ControlInv, HolderInv, FrozenInv, GroupInv, JournalInv, NEW c \in Clients,
           Fresh(c) \/ (Flush(c) /\ pc'[c] /= "send")
    PROVE  GroupInv' /\ JournalInv'
  <1>0. /\ pc \in [Clients -> Labels] /\ None \notin Clients
    BY DEF ControlInv, WritersAssumption
  <1>1. /\ UNCHANGED <<op, res, aux, lock, journal>> /\ pc[c] \in {"flush", "fresh"} /\ pc' = [pc EXCEPT ![c] = "merge"]
    BY <1>0 DEF Fresh, Flush, Goto, Await, dataVars
  <1>2. \E f, m : grp' = [NoGroup EXCEPT !.free = f, !.limit = m]
    BY <1>0, <1>1 DEF Fresh, Flush, Goto, Await
  <1>3. DOMAIN grp' = DOMAIN NoGroup /\ grp'.merged = <<>> /\ grp'.over = None /\ grp'.err = "ok"
    BY <1>2 DEF NoGroup
  <1>4. lock = c /\ ~ Grouping(c) /\ Inside(c)
    BY <1>1 DEF HolderInv, Inside, Grouping, Waiting
  <1>5. grp.over = None /\ \A d \in Clients : pc[d] \notin {"merged", "over"}
    BY <1>0, <1>4 DEF GroupInv
  <1>6. \A d \in Clients : Inside(d) => d = c \/ pc[d] = "readonly"
    BY <1>4 DEF HolderInv
  <1>7. GroupInv'
    <2>1. ToSet(grp'.merged) = {} /\ IsInjectiveSeq(grp'.merged) /\ grp'.merged \in Seq(Clients)
      BY <1>3 DEF ToSet, IsInjectiveSeq
    <2>2. \A d \in Clients : pc'[d] \notin {"merged", "over"}
      BY <1>0, <1>1, <1>5
    <2>3. /\ \A d \in ToSet(grp.merged)' : pc'[d] \in {"merged", "done"}
          /\ \A e \in Clients : pc'[e] \in {"merge", "write"} => \A d \in ToSet(grp.merged)' : pc'[d] = "merged"
      BY <2>1
    <2> QED
      BY <1>3, <2>1, <2>2, <2>3 DEF GroupInv
  <1>8. ASSUME NEW d \in Clients PROVE Told(d)' = Told(d)
    <2>1. CASE d = c
      BY <1>0, <1>1, <2>1 DEF Told, Verdict, Waiting
    <2>2. CASE d /= c
      <3>1. pc[d] /= "unlock" /\ pc'[d] = pc[d] /\ pc[d] /= "merged"
        BY <1>0, <1>1, <1>5, <1>6, <2>2 DEF Inside
      <3> QED
        BY <1>1, <3>1 DEF Told, Verdict
    <2> QED
      BY <2>1, <2>2
  <1>9. JournalInv'
    BY <1>1, <1>8, JournalSame DEF Steady
  <1> QED
    BY <1>7, <1>9

\* One more element at the end of a sequence.
LEMMA AppendOne ==
    ASSUME NEW S, NEW s \in Seq(S), NEW e \in S
    PROVE  /\ Append(s, e) \in Seq(S) /\ ToSet(Append(s, e)) = ToSet(s) \cup {e}
           /\ IsInjectiveSeq(s) /\ e \notin ToSet(s) => IsInjectiveSeq(Append(s, e))
  <1>1. PICK t : t = Append(s, e)
    OBVIOUS
  <1>2. t \in Seq(S) /\ Len(t) = Len(s) + 1 /\ DOMAIN t = 1 .. Len(s) + 1 /\ DOMAIN s = 1 .. Len(s) /\ Len(s) \in Nat
    BY <1>1
  <1>3. \A i \in DOMAIN s : t[i] = s[i]
    BY <1>1
  <1>4. t[Len(s) + 1] = e
    BY <1>1
  <1>5. ToSet(t) = ToSet(s) \cup {e}
    <2>1. ASSUME NEW x \in ToSet(t) PROVE x \in ToSet(s) \cup {e}
      BY <1>2, <1>3, <1>4, <2>1 DEF ToSet
    <2>2. ASSUME NEW x \in ToSet(s) \cup {e} PROVE x \in ToSet(t)
      <3>1. CASE x = e
        BY <1>2, <1>4, <3>1 DEF ToSet
      <3>2. CASE x \in ToSet(s)
        BY <1>2, <1>3, <3>2 DEF ToSet
      <3> QED
        BY <2>2, <3>1, <3>2
    <2> QED
      BY <2>1, <2>2
  <1>6. ASSUME IsInjectiveSeq(s), e \notin ToSet(s), NEW i \in DOMAIN t, NEW j \in DOMAIN t, t[i] = t[j] PROVE i = j
    <2>1. \A k \in DOMAIN s : s[k] /= e
      BY <1>6 DEF ToSet
    <2> QED
      BY <1>2, <1>3, <1>4, <1>6, <2>1 DEF IsInjectiveSeq
  <1>7. IsInjectiveSeq(s) /\ e \notin ToSet(s) => IsInjectiveSeq(t)
    BY <1>6 DEF IsInjectiveSeq
  <1> QED
    BY <1>1, <1>2, <1>5, <1>7

\* A write joins a group, or is the one that did not fit.  (writeLocked)
LEMMA GroupMerges ==
    ASSUME WritersAssumption, DataInv, ControlInv, HolderInv, GroupInv, JournalInv,
           NEW l \in Clients, NEW c \in Clients, Merge(l, c)
    PROVE  GroupInv' /\ JournalInv'
  <1>0. /\ pc \in [Clients -> Labels] /\ None \notin Clients
    BY DEF ControlInv, WritersAssumption
  <1>1. /\ UNCHANGED <<op, res, aux, lock, journal>> /\ pc[l] = "merge" /\ pc[c] = "wait" /\ op[c] \in Writes /\ l /= c
    BY <1>0 DEF Merge, dataVars, Writes
  <1>2. lock = l /\ Inside(l) /\ Grouping(l) /\ grp.over = None /\ grp.err = "ok"
    BY <1>1 DEF HolderInv, Inside, Grouping, GroupInv
  <1>3. /\ \A d \in Clients : Inside(d) => d = l \/ pc[d] = "readonly"
        /\ \A d \in Clients : pc[d] /= "over"
        /\ c \notin ToSet(grp.merged)
    BY <1>0, <1>1, <1>2 DEF HolderInv, GroupInv
  <1>4. \/ grp' = [grp EXCEPT !.merged = Append(@, c), !.limit = @ - Size(op[c])] /\ pc' = [pc EXCEPT ![c] = "merged"]
        \/ grp' = [grp EXCEPT !.over = c] /\ pc' = [pc EXCEPT ![c] = "over", ![l] = "write"]
    BY DEF Merge, Goto
  <1>5. ASSUME grp' = [grp EXCEPT !.merged = Append(@, c), !.limit = @ - Size(op[c])], pc' = [pc EXCEPT ![c] = "merged"]
        PROVE  GroupInv'
    <2>1. DOMAIN grp' = DOMAIN NoGroup /\ grp'.merged = Append(grp.merged, c) /\ grp'.over = None /\ grp'.err = "ok"
      BY <1>2, <1>5 DEF GroupInv, NoGroup
    <2>2. grp.merged \in Seq(Clients) /\ IsInjectiveSeq(grp.merged)
      BY DEF GroupInv
    <2>3. grp'.merged \in Seq(Clients) /\ ToSet(grp'.merged) = ToSet(grp.merged) \cup {c} /\ IsInjectiveSeq(grp'.merged)
      BY <1>3, <2>1, <2>2, AppendOne
    <2>5. \A d \in ToSet(grp'.merged) : pc'[d] = "merged"
      BY <1>0, <1>1, <1>5, <2>3 DEF GroupInv
    <2>6. \A d \in Clients : pc'[d] = "merged" => d \in ToSet(grp'.merged)
      BY <1>0, <1>5, <2>3 DEF GroupInv
    <2>7. lock \in Clients /\ Grouping(lock)'
      BY <1>0, <1>1, <1>2, <1>5 DEF Grouping
    <2>8. \A d \in Clients : pc'[d] /= "over"
      BY <1>0, <1>3, <1>5
    <2>9. \A e \in Clients : pc'[e] \in {"merge", "write"} => \A d \in ToSet(grp'.merged) : pc'[d] = "merged"
      BY <2>5
    <2> QED
      BY <1>1, <1>2, <2>1, <2>3, <2>5, <2>6, <2>7, <2>8, <2>9 DEF GroupInv
  <1>6. ASSUME grp' = [grp EXCEPT !.over = c], pc' = [pc EXCEPT ![c] = "over", ![l] = "write"]
        PROVE  GroupInv'
    <2>1. DOMAIN grp' = DOMAIN NoGroup /\ grp'.merged = grp.merged /\ grp'.over = c /\ grp'.err = "ok"
      BY <1>2, <1>6 DEF GroupInv, NoGroup
    <2>2. pc' = [d \in Clients |-> IF d = c THEN "over" ELSE IF d = l THEN "write" ELSE pc[d]]
      BY <1>0, <1>1, <1>6
    <2>3. ToSet(grp.merged) \subseteq Clients
      BY DEF GroupInv, ToSet
    <2>4. \A d \in ToSet(grp.merged) : pc[d] = "merged"
      BY <1>1 DEF GroupInv
    <2>5. \A d \in ToSet(grp.merged) : pc'[d] = "merged"
      BY <1>1, <2>2, <2>3, <2>4
    <2>6. \A d \in Clients : pc'[d] = "merged" => d \in ToSet(grp.merged)
      BY <2>2 DEF GroupInv
    <2>7. lock \in Clients /\ Grouping(lock)'
      BY <1>1, <1>2, <2>2 DEF Grouping
    <2>8. \A d \in Clients : (pc'[d] = "over" => d = c) /\ pc'[d] /= "merge"
      BY <1>2, <1>3, <2>2 DEF Inside
    <2>9. pc'[c] = "over"
      BY <2>2
    <2>10. grp.merged \in Seq(Clients) /\ IsInjectiveSeq(grp.merged)
      BY DEF GroupInv
    <2> QED
      BY <1>1, <1>2, <2>1, <2>5, <2>6, <2>7, <2>8, <2>9, <2>10 DEF GroupInv
  <1>7. grp'.err = grp.err
    BY <1>4, <1>2 DEF GroupInv, NoGroup
  <1>8. ASSUME NEW d \in Clients PROVE Told(d)' = Told(d)
    <2>1. pc'[c] \in {"merged", "over"} /\ pc'[l] \in {"merge", "write"} /\ \A e \in Clients \ {c, l} : pc'[e] = pc[e]
      BY <1>0, <1>1, <1>4
    <2>2. /\ Verdict(l) = "none" /\ Verdict(l)' = "none"
          /\ Verdict(c) = "none" /\ Verdict(c)' = "none"
      BY <1>1, <2>1 DEF Verdict, Waiting
    <2>3. CASE d \in {c, l}
      BY <1>1, <1>2, <2>1, <2>2, <2>3 DEF Told
    <2>4. CASE d \notin {c, l}
      BY <1>1, <1>2, <1>7, <2>1, <2>2, <2>4 DEF Told, Verdict
    <2> QED
      BY <2>3, <2>4
  <1>9. JournalInv'
    BY <1>1, <1>8, JournalSame DEF Steady
  <1> QED
    BY <1>4, <1>5, <1>6, <1>9

\* The result of a group is handed out, and the lock goes on to the write
\* that did not fit.  (unlockWrite)
LEMMA GroupAcks ==
    ASSUME WritersAssumption, DataInv, ControlInv, HolderInv, GroupInv, JournalInv,
           NEW l \in Clients, NEW c \in Clients, Ack(l, c)
    PROVE  GroupInv' /\ JournalInv'
  <1>0. /\ pc \in [Clients -> Labels] /\ None \notin Clients /\ res \in [Clients -> {None, "ok", "err", "closed"}]
    BY DEF ControlInv, WritersAssumption, DataInv
  <1>1. /\ UNCHANGED <<op, aux, lock, grp, journal>> /\ pc[l] = "unlock" /\ pc[c] = "merged"
        /\ pc' = [pc EXCEPT ![c] = "done"] /\ res' = [res EXCEPT ![c] = grp.err] /\ l /= c
    BY DEF Ack, dataVars, Return
  <1>2. lock = l /\ Inside(l) /\ Grouping(l)
    BY <1>1 DEF HolderInv, Inside, Grouping
  <1>3. \A d \in Clients : pc[d] \notin {"merge", "write"}
    BY <1>1, <1>2 DEF HolderInv, Inside
  <1>4. \A d \in Clients : pc'[d] = IF d = c THEN "done" ELSE pc[d]
    BY <1>0, <1>1
  <1>5. Grouping(lock)' /\ Verdict(l) = grp.err /\ Verdict(l)' = grp.err
    BY <1>1, <1>2, <1>4 DEF Grouping, Verdict, Waiting
  <1>6. GroupInv'
    <2>1. ToSet(grp.merged) \subseteq Clients
      BY DEF GroupInv, ToSet
    <2>2. \A d \in ToSet(grp.merged) : pc'[d] \in {"merged", "done"}
      BY <1>4, <2>1 DEF GroupInv
    <2>3. \A d \in Clients : pc'[d] \notin {"merge", "write"}
      BY <1>3, <1>4
    <2>4. \A d \in Clients : pc'[d] = "merged" => d \in ToSet(grp.merged)
      BY <1>4 DEF GroupInv
    <2>5. (\A d \in Clients : pc'[d] = "over" => grp.over = d) /\ (grp.over /= None => pc'[grp.over] = "over")
      BY <1>1, <1>4 DEF GroupInv
    <2>6. \A d \in Clients : pc'[d] \in Waiting /\ aux'[d].fail = "unlock" => grp.err = "ok"
      BY <1>1, <1>4 DEF GroupInv, Waiting
    <2> QED
      BY <1>1, <1>2, <1>5, <2>2, <2>3, <2>4, <2>5, <2>6 DEF GroupInv
  <1>7. ASSUME NEW d \in Clients PROVE Told(d)' = Told(d)
    <2>1. CASE d = c
      BY <1>0, <1>1, <1>2, <1>4, <1>5, <2>1 DEF Told
    <2>2. CASE d /= c
      <3>1. Verdict(d)' = Verdict(d) /\ pc'[d] = pc[d] /\ res'[d] = res[d]
        BY <1>0, <1>1, <1>4, <2>2 DEF Verdict
      <3> QED
        BY <1>1, <1>2, <1>5, <3>1 DEF Told
    <2> QED
      BY <2>1, <2>2
  <1>8. JournalInv'
    BY <1>1, <1>7, JournalSame DEF Steady
  <1> QED
    BY <1>6, <1>8

LEMMA GroupUnlocks ==
    ASSUME WritersAssumption, DataInv, ControlInv, HolderInv, GroupInv, JournalInv,
           NEW l \in Clients, Unlock(l)
    PROVE  GroupInv' /\ JournalInv'
  <1>0. /\ pc \in [Clients -> Labels] /\ None \notin Clients /\ res \in [Clients -> {None, "ok", "err", "closed"}]
    BY DEF ControlInv, WritersAssumption, DataInv
  <1>1. /\ UNCHANGED <<op, aux, journal>> /\ pc[l] = "unlock" /\ grp' = NoGroup /\ lock' = grp.over
        /\ pc' = [d \in Clients |-> IF d = l THEN "done" ELSE IF d = grp.over THEN "flush" ELSE pc[d]]
        /\ res' = [res EXCEPT ![l] = grp.err]
        /\ \A c \in ToSet(grp.merged) : pc[c] /= "merged"
    BY DEF Unlock, dataVars
  <1>2. lock = l /\ Inside(l)
    BY <1>1 DEF HolderInv, Inside
  <1>3. \A d \in Clients : pc[d] \notin {"merge", "write", "merged"} /\ (pc[d] = "unlock" => d = l)
    BY <1>1, <1>2 DEF HolderInv, Inside, GroupInv
  <1>4. /\ grp.over \in Clients => pc[grp.over] = "over"
        /\ \A d \in Clients : pc[d] = "over" => d = grp.over
        /\ grp.err \in {"ok", "err"} /\ grp.over \in Clients \cup {None}
    BY <1>0 DEF GroupInv
  <1>5. \A d \in Clients : pc'[d] \notin {"merge", "write", "merged", "over"}
    BY <1>1, <1>3, <1>4
  <1>6. GroupInv'
    <2>1. NoGroup.merged = <<>> /\ NoGroup.over = None /\ NoGroup.err = "ok"
      BY DEF NoGroup
    <2>2. ToSet(<<>>) = {} /\ IsInjectiveSeq(<<>>)
      BY DEF ToSet, IsInjectiveSeq
    <2> QED
      BY <1>1, <1>5, <2>1, <2>2 DEF GroupInv
  <1>7. ASSUME NEW d \in Clients PROVE Told(d)' = Told(d)
    <2>1. CASE d = l
      BY <1>0, <1>1, <1>4, <2>1 DEF Told, Verdict, Waiting
    <2>2. CASE d /= l /\ d = grp.over
      BY <1>0, <1>1, <1>4, <2>2 DEF Told, Verdict, Waiting
    <2>3. CASE d /= l /\ d /= grp.over
      BY <1>0, <1>1, <1>3, <2>3 DEF Told, Verdict, Waiting
    <2> QED
      BY <2>1, <2>2, <2>3
  <1>8. JournalInv'
    BY <1>1, <1>7, JournalSame DEF Steady
  <1> QED
    BY <1>6, <1>8

\* A call that begins has nothing in the journal.
LEMMA GroupOthers ==
    ASSUME WritersAssumption, DataInv, ControlInv, HolderInv, GroupInv, JournalInv,
           (\E c \in Clients : \E o \in Calls[c] : Call(c, o)) \/ ErrorLock \/ ErrorExit
    PROVE  GroupInv' /\ JournalInv'
  <1>0. /\ pc \in [Clients -> Labels] /\ None \notin Clients /\ "error" \notin Clients
        /\ res \in [Clients -> {None, "ok", "err", "closed"}] /\ op \in [Clients -> AllCalls \cup {None}]
        /\ \A d \in Clients : Fits(op[d], pc[d], aux[d])
    BY DEF ControlInv, WritersAssumption, DataInv
  <1>1. ASSUME NEW c \in Clients, NEW o \in Calls[c], Call(c, o) PROVE GroupInv' /\ JournalInv'
    <2>1. /\ UNCHANGED <<aux, lock, grp, journal>> /\ pc[c] = "idle" /\ op' = [op EXCEPT ![c] = o]
          /\ pc' = [pc EXCEPT ![c] = pc'[c]] /\ pc'[c] \in {"done", "close", "wait"}
          /\ res' = [res EXCEPT ![c] = res'[c]] /\ (pc'[c] = "done" => res'[c] = "closed")
      BY <1>0, <1>1 DEF Call, Return, Goto, dataVars
    <2>2. \A d \in Clients : d /= c => pc'[d] = pc[d] /\ res'[d] = res[d] /\ op'[d] = op[d]
      BY <1>0, <2>1
    <2>3. lock \in Clients /\ Grouping(lock) => Grouping(lock)'
      BY <1>0, <2>1, <2>2 DEF Grouping, Waiting
    <2>4. GroupInv'
      <3>1. ToSet(grp.merged) \subseteq Clients /\ grp.over \in Clients \cup {None}
        BY DEF GroupInv, ToSet
      <3>2. \A d \in ToSet(grp.merged) : pc'[d] = pc[d]
        BY <2>1, <2>2, <3>1 DEF GroupInv
      <3>3. \A d \in ToSet(grp.merged) : pc'[d] \in {"merged", "done"}
        BY <3>2 DEF GroupInv
      <3>4. \A d \in Clients : pc'[d] \in {"merge", "write"} => \A e \in ToSet(grp.merged) : pc'[e] = "merged"
        BY <2>1, <2>2, <3>2 DEF GroupInv
      <3>5. \A d \in Clients : pc'[d] = "merged" => d \in ToSet(grp.merged) /\ lock \in Clients /\ Grouping(lock)'
        BY <2>1, <2>2, <2>3 DEF GroupInv
      <3>6. \A d \in Clients : (pc'[d] = "over" => grp.over = d) /\ (pc'[d] = "merge" => grp.over = None)
        BY <2>1, <2>2 DEF GroupInv
      <3>7. grp.over /= None => pc'[grp.over] = "over" /\ lock \in Clients /\ Grouping(lock)'
        BY <2>1, <2>2, <2>3, <3>1 DEF GroupInv
      <3>8. \A d \in Clients : pc'[d] \in {"merge", "write"} \/ (pc'[d] \in Waiting /\ aux'[d].fail = "unlock") => grp.err = "ok"
        BY <2>1, <2>2 DEF GroupInv, Waiting
      <3> QED
        BY <2>1, <3>3, <3>4, <3>5, <3>6, <3>7, <3>8 DEF GroupInv
    <2>5. ASSUME NEW d \in Clients PROVE Steady(d)
      <3>1. CASE d = c
        <4>1. Told(c) = "none"
          BY <2>1 DEF Told, Verdict, Waiting
        <4>2. Told(c)' \in {"none", "closed"}
          BY <2>1 DEF Told, Verdict, Waiting
        <4> QED
          BY <3>1, <4>1, <4>2 DEF Steady
      <3>2. CASE d /= c
        <4>1. CASE pc[d] = "merged"
          <5>1. lock \in Clients /\ Grouping(lock)
            BY <4>1 DEF GroupInv
          <5>2. lock /= c
            BY <2>1, <5>1 DEF Grouping, Waiting
          <5> QED
            BY <2>1, <2>2, <3>2, <4>1, <5>1, <5>2 DEF Told, Verdict, Steady
        <4>2. CASE pc[d] /= "merged"
          BY <2>1, <2>2, <3>2, <4>2 DEF Told, Verdict, Steady
        <4> QED
          BY <4>1, <4>2
      <3> QED
        BY <3>1, <3>2
    <2>6. JournalInv'
      BY <2>1, <2>5, JournalSame
    <2> QED
      BY <2>4, <2>6
  <1>2. CASE ErrorLock \/ ErrorExit
    <2>1. UNCHANGED <<grp, journal, op, pc, aux, res>> /\ (lock' = lock \/ lock = None \/ (ce /= "gone" /\ locking))
      BY <1>2 DEF ErrorLock, ErrorExit, clientVars, dataVars
    <2>2. \A d \in Clients : Quiet(d)
      BY <2>1 DEF Quiet, Grouping, Verdict
    <2>3. lock \in Clients /\ Grouping(lock) => lock' = lock
      <3>1. ASSUME lock \in Clients, op[lock] = "readonly" PROVE ~ Grouping(lock)
        BY <1>0, <3>1 DEF Fits, Places, Grouping, Waiting, Writes
      <3> QED
        BY <1>0, <2>1, <3>1 DEF HolderInv
    <2> QED
      BY <2>1, <2>2, <2>3, QuietKeeps
  <1> QED
    BY <1>1, <1>2

\* The group of c.
LEMMA GroupOfOne ==
    ASSUME NEW c \in Clients, NEW s \in Seq(Clients)
    PROVE  /\ <<c>> \o s \in Seq(Clients) /\ ToSet(<<c>> \o s) = {c} \cup ToSet(s)
           /\ IsInjectiveSeq(s) /\ c \notin ToSet(s) => IsInjectiveSeq(<<c>> \o s)
  <1>1. PICK t : t = <<c>> \o s
    OBVIOUS
  <1>2. t \in Seq(Clients) /\ DOMAIN t = 1 .. Len(s) + 1 /\ DOMAIN s = 1 .. Len(s) /\ Len(s) \in Nat
    BY <1>1
  <1>3. t[1] = c /\ \A i \in DOMAIN s : t[i + 1] = s[i]
    BY <1>1
  <1>4. \A i \in DOMAIN t : i = 1 \/ (i - 1 \in DOMAIN s /\ t[i] = s[i - 1])
    <2>1. ASSUME NEW i \in DOMAIN t, i /= 1 PROVE i - 1 \in DOMAIN s /\ t[i] = s[i - 1]
      <3>1. i - 1 \in DOMAIN s /\ (i - 1) + 1 = i
        BY <1>2, <2>1
      <3> QED
        BY <1>3, <3>1
    <2> QED
      BY <2>1
  <1>5. ToSet(t) = {c} \cup ToSet(s)
    <2>1. ASSUME NEW x \in ToSet(t) PROVE x \in {c} \cup ToSet(s)
      BY <1>3, <1>4, <2>1 DEF ToSet
    <2>2. c \in ToSet(t)
      BY <1>2, <1>3 DEF ToSet
    <2>3. ASSUME NEW i \in DOMAIN s PROVE s[i] \in ToSet(t)
      <3>1. i + 1 \in DOMAIN t
        BY <1>2
      <3> QED
        BY <1>3, <3>1 DEF ToSet
    <2> QED
      BY <2>1, <2>2, <2>3 DEF ToSet
  <1>6. ASSUME IsInjectiveSeq(s), c \notin ToSet(s), NEW i \in DOMAIN t, NEW j \in DOMAIN t, t[i] = t[j] PROVE i = j
    <2>1. \A k \in DOMAIN s : s[k] /= c
      BY <1>6 DEF ToSet
    <2>2. CASE i = 1 \/ j = 1
      BY <1>3, <1>4, <1>6, <2>1, <2>2
    <2>3. CASE i /= 1 /\ j /= 1
      <3>1. i - 1 \in DOMAIN s /\ j - 1 \in DOMAIN s /\ s[i - 1] = s[j - 1]
        BY <1>4, <1>6, <2>3
      <3>2. i - 1 = j - 1
        BY <1>6, <3>1 DEF IsInjectiveSeq
      <3> QED
        BY <1>2, <3>2
    <2> QED
      BY <2>2, <2>3
  <1>7. IsInjectiveSeq(s) /\ c \notin ToSet(s) => IsInjectiveSeq(t)
    BY <1>6 DEF IsInjectiveSeq
  <1> QED
    BY <1>1, <1>2, <1>5, <1>7

\* What a group adds to the journal.
LEMMA JournalGrows ==
    ASSUME journal \in Seq(Seq(Clients)), NEW g \in Seq(Clients), IsInjectiveSeq(g), journal' = Append(journal, g),
           NEW d \in Clients
    PROVE  /\ Absent(d) /\ d \in ToSet(g) => Once(d)'
           /\ Absent(d) /\ d \notin ToSet(g) => Absent(d)'
           /\ Once(d) /\ d \notin ToSet(g) => Once(d)'
  <1> DEFINE n == Len(journal) + 1
  <1>1. /\ DOMAIN journal = 1 .. Len(journal) /\ DOMAIN journal' = 1 .. n /\ Len(journal) \in Nat
        /\ journal'[n] = g /\ \A i \in DOMAIN journal : journal'[i] = journal[i]
    OBVIOUS
  <1>2. \A i \in DOMAIN journal' : i \in DOMAIN journal \/ i = n
    BY <1>1
  <1>3. n \in DOMAIN journal' /\ n \notin DOMAIN journal /\ DOMAIN journal \subseteq DOMAIN journal'
    BY <1>1
  <1> HIDE DEF n
  <1>4. ASSUME Absent(d), d \in ToSet(g) PROVE Once(d)'
    <2>1. PICK j \in DOMAIN g : g[j] = d
      BY <1>4 DEF ToSet
    <2>2. ASSUME NEW k \in DOMAIN journal', NEW m \in DOMAIN journal'[k], journal'[k][m] = d PROVE k = n /\ m = j
      <3>1. k = n
        BY <1>1, <1>2, <1>4, <2>2 DEF Absent
      <3> QED
        BY <1>1, <2>1, <2>2, <3>1 DEF IsInjectiveSeq
    <2>3. j \in DOMAIN journal'[n] /\ journal'[n][j] = d
      BY <1>1, <2>1
    <2> QED
      BY <1>3, <2>2, <2>3 DEF Once
  <1>5. ASSUME d \notin ToSet(g), NEW m \in DOMAIN g PROVE g[m] /= d
    BY <1>5 DEF ToSet
  <1>6. ASSUME Absent(d), d \notin ToSet(g) PROVE Absent(d)'
    BY <1>1, <1>2, <1>5, <1>6 DEF Absent
  <1>7. ASSUME Once(d), d \notin ToSet(g) PROVE Once(d)'
    <2>0. PICK i \in DOMAIN journal : \E j \in DOMAIN journal[i] :
            /\ journal[i][j] = d
            /\ \A k \in DOMAIN journal : \A m \in DOMAIN journal[k] : journal[k][m] = d => k = i /\ m = j
      BY <1>7 DEF Once
    <2>1. PICK j \in DOMAIN journal[i] :
            /\ journal[i][j] = d
            /\ \A k \in DOMAIN journal : \A m \in DOMAIN journal[k] : journal[k][m] = d => k = i /\ m = j
      BY <2>0
    <2>2. ASSUME NEW k \in DOMAIN journal', NEW m \in DOMAIN journal'[k], journal'[k][m] = d PROVE k = i /\ m = j
      <3>1. k \in DOMAIN journal
        BY <1>1, <1>2, <1>5, <1>7, <2>2
      <3> QED
        BY <1>1, <2>1, <2>2, <3>1
    <2>3. i \in DOMAIN journal' /\ j \in DOMAIN journal'[i] /\ journal'[i][j] = d
      BY <1>1, <1>3, <2>1
    <2>4. \A k \in DOMAIN journal' : \A m \in DOMAIN journal'[k] : journal'[k][m] = d => k = i /\ m = j
      BY <2>2
    <2>5. Once(d)' <=> \E x \in DOMAIN journal' : \E y \in DOMAIN journal'[x] :
            /\ journal'[x][y] = d
            /\ \A k \in DOMAIN journal' : \A m \in DOMAIN journal'[k] : journal'[k][m] = d => k = x /\ m = y
      BY DEF Once
    <2> HIDE DEF Once
    <2> QED
      BY ONLY <2>3, <2>4, <2>5
  <1> QED
    BY <1>4, <1>6, <1>7

\* A group is written, each of its writes once, or none of it.  (writeLocked)
LEMMA GroupWrites ==
    ASSUME WritersAssumption, DataInv, ControlInv, HolderInv, GroupInv, JournalInv,
           NEW c \in Clients, Write(c)
    PROVE  GroupInv' /\ JournalInv'
  <1>0. /\ pc \in [Clients -> Labels] /\ None \notin Clients /\ aux \in [Clients -> Aux]
        /\ grp.merged \in Seq(Clients) /\ IsInjectiveSeq(grp.merged) /\ DOMAIN grp = DOMAIN NoGroup
        /\ ToSet(grp.merged) \subseteq Clients
    BY DEF ControlInv, WritersAssumption, GroupInv, ToSet
  <1>1. UNCHANGED <<op, res, lock>> /\ pc[c] = "write"
    BY DEF Write
  <1>2. lock = c /\ Inside(c) /\ grp.err = "ok" /\ \A d \in ToSet(grp.merged) : pc[d] = "merged"
    BY <1>1 DEF HolderInv, Inside, GroupInv
  <1>3. \A d \in Clients : Inside(d) => d = c \/ pc[d] = "readonly"
    BY <1>2 DEF HolderInv
  <1>4. \A d \in Clients : d /= c => pc[d] \notin {"merge", "write", "unlock"} /\ ~ (pc[d] \in Waiting /\ aux[d].fail = "unlock")
    BY <1>3 DEF Inside, Waiting
  <1>5. ASSUME pc' = [pc EXCEPT ![c] = pc'[c]], pc'[c] = "unlock" \/ (pc'[c] = "send" /\ aux'[c].fail = "unlock"),
               \A d \in Clients : d /= c => aux'[d] = aux[d],
               grp' = grp \/ (grp' = [grp EXCEPT !.err = "err"] /\ pc'[c] = "unlock")
        PROVE  GroupInv'
    <2>1. DOMAIN grp' = DOMAIN NoGroup /\ grp'.merged = grp.merged /\ grp'.over = grp.over /\ grp'.err \in {"ok", "err"}
          /\ (pc'[c] = "send" => grp'.err = "ok")
      BY <1>0, <1>2, <1>5 DEF NoGroup
    <2>2. \A d \in Clients : d /= c => pc'[d] = pc[d]
      BY <1>0, <1>5
    <2>3. Grouping(lock)' /\ lock \in Clients
      BY <1>1, <1>2, <1>5 DEF Grouping, Waiting
    <2>4. \A d \in ToSet(grp.merged) : pc'[d] = "merged"
      BY <1>0, <1>1, <1>2, <2>2
    <2>5. \A d \in Clients : pc'[d] = "merged" => d \in ToSet(grp.merged)
      BY <1>5, <2>2 DEF GroupInv
    <2>6. (\A d \in Clients : pc'[d] = "over" => grp.over = d) /\ (grp.over /= None => pc'[grp.over] = "over" /\ grp.over \in Clients)
      BY <1>1, <1>5, <2>2 DEF GroupInv
    <2>7. \A d \in Clients : pc'[d] \notin {"merge", "write"}
      BY <1>4, <1>5, <2>2
    <2>8. \A d \in Clients : pc'[d] \in Waiting /\ aux'[d].fail = "unlock" => grp'.err = "ok"
      BY <1>4, <1>5, <2>1, <2>2 DEF Waiting
    <2>9. grp.over \in Clients \cup {None}
      BY DEF GroupInv
    <2> QED
      BY <1>0, <1>1, <2>1, <2>3, <2>4, <2>5, <2>6, <2>7, <2>8, <2>9 DEF GroupInv
  <1>6. CASE journal' = Append(journal, Group(c))
    <2>0. UNCHANGED grp \/ (grp' = [grp EXCEPT !.err = "err"] /\ Goto(c, "unlock") /\ UNCHANGED aux)
      BY DEF Write
    <2>1. /\ pc' = [pc EXCEPT ![c] = pc'[c]] /\ \A d \in Clients : d /= c => aux'[d] = aux[d]
          /\ pc'[c] = "unlock" \/ (pc'[c] = "send" /\ aux'[c].fail = "unlock")
          /\ grp' = grp \/ (grp' = [grp EXCEPT !.err = "err"] /\ pc'[c] = "unlock")
      BY <1>0, <1>2, <1>6, <2>0 DEF Write, Await, Goto
    <2>2. PICK g : g = Group(c)
      OBVIOUS
    <2>3. c \notin ToSet(grp.merged)
      BY <1>1, <1>2
    <2>4. g \in Seq(Clients) /\ IsInjectiveSeq(g) /\ ToSet(g) = {c} \cup ToSet(grp.merged)
      BY <1>0, <2>2, <2>3, GroupOfOne DEF Group
    <2>5. journal \in Seq(Seq(Clients)) /\ journal' = Append(journal, g)
      BY <1>6, <2>2 DEF JournalInv
    <2>6. \A d \in Clients : d /= c => pc'[d] = pc[d]
      BY <1>0, <2>1
    <2>7. PICK v \in {"ok", "err"} : Verdict(c)' = v
      <3>1. grp'.err \in {"ok", "err"}
        BY <1>0, <1>2, <2>1 DEF NoGroup
      <3> QED
        BY <2>1, <3>1 DEF Verdict, Waiting
    <2>8. Verdict(c) = "none"
      BY <1>1 DEF Verdict, Waiting
    <2>9. ASSUME NEW d \in ToSet(g) PROVE d \in Clients /\ Absent(d) /\ Told(d)' = v
      <3>1. d \in Clients /\ (d = c \/ pc[d] = "merged") /\ pc'[d] /= "done" /\ (d /= c => pc'[d] = "merged")
            /\ (d = c => pc'[d] /= "merged")
        BY <1>0, <1>2, <2>1, <2>4, <2>6
      <3>2. op[d] \in Writes
        BY <1>1, <3>1 DEF ControlInv, Fits, Places, AllCalls, Writes, Waiting
      <3>3. Told(d) = "none"
        BY <1>1, <1>2, <2>8, <3>1, <3>2 DEF Told
      <3>4. Told(d)' = v
        BY <1>1, <1>2, <2>7, <3>1, <3>2 DEF Told
      <3>5. Absent(d)
        BY <3>1, <3>3 DEF JournalInv, Entry
      <3> QED
        BY <3>1, <3>4, <3>5
    <2>10. ASSUME NEW d \in Clients, d \notin ToSet(g) PROVE Told(d)' = Told(d)
      <3>1. d /= c /\ pc[d] /= "merged" /\ pc'[d] = pc[d]
        BY <2>4, <2>6, <2>10 DEF GroupInv
      <3>2. Verdict(d) = "none" /\ Verdict(d)' = "none"
        BY <1>4, <2>1, <3>1 DEF Verdict
      <3> QED
        BY <1>1, <3>1, <3>2 DEF Told
    <2>11. ASSUME NEW d \in Clients PROVE Entry(d, Told(d))'
      <3>1. CASE d \in ToSet(g)
        <4>1. Once(d)'
          BY <2>4, <2>5, <2>9, <3>1, JournalGrows
        <4>2. Told(d)' \in {"ok", "err"}
          BY <2>9, <3>1
        <4> QED
          BY <4>1, <4>2 DEF Entry
      <3>2. CASE d \notin ToSet(g)
        <4>1. (Absent(d) => Absent(d)') /\ (Once(d) => Once(d)')
          BY <2>4, <2>5, <3>2, JournalGrows
        <4>2. Told(d)' = Told(d) /\ Entry(d, Told(d))
          BY <2>10, <3>2 DEF JournalInv
        <4> QED
          BY <4>1, <4>2 DEF Entry
      <3> QED
        BY <3>1, <3>2
    <2>12. ASSUME NEW i \in DOMAIN journal'
           PROVE  IsInjectiveSeq(journal'[i])
                  /\ \A j, k \in DOMAIN journal'[i] : Told(journal[i][j])' = Told(journal[i][k])'
      <3>1. CASE i \in DOMAIN journal /\ journal'[i] = journal[i]
        <4>1. ASSUME NEW j \in DOMAIN journal[i] PROVE Told(journal[i][j])' = Told(journal[i][j])
          <5>1. PICK d \in Clients : d = journal[i][j]
            BY <2>5, <3>1
          <5>2. ~ Absent(d)
            BY <3>1, <5>1 DEF Absent
          <5>3. Told(d)' = Told(d)
            BY <2>9, <2>10, <5>2
          <5>4. Told(journal[i][j])' = Told(d)'
            BY <3>1, <5>1 DEF Told, Verdict
          <5> QED
            BY <5>1, <5>3, <5>4
        <4>2. \A j, k \in DOMAIN journal[i] : Told(journal[i][j]) = Told(journal[i][k])
          BY <3>1 DEF JournalInv
        <4>3. IsInjectiveSeq(journal[i])
          BY <3>1 DEF JournalInv
        <4> QED
          BY <3>1, <4>1, <4>2, <4>3
      <3>2. CASE journal'[i] = g
        <4>1. ASSUME NEW j \in DOMAIN g PROVE Told(journal[i][j])' = v
          <5>1. g[j] \in ToSet(g)
            BY DEF ToSet
          <5>2. PICK d \in ToSet(g) : d = g[j]
            BY <5>1
          <5>3. Told(journal[i][j])' = Told(d)'
            BY <3>2, <5>2 DEF Told, Verdict
          <5> QED
            BY <2>9, <5>3
        <4> QED
          BY <2>4, <3>2, <4>1
      <3> QED
        BY <2>4, <2>5, <3>1, <3>2
    <2>13. journal' \in Seq(Seq(Clients))
      BY <2>4, <2>5
    <2>14. JournalInv'
      BY <2>11, <2>12, <2>13 DEF JournalInv
    <2> QED
      BY <1>5, <2>1, <2>14
  <1>7. CASE grp' = [grp EXCEPT !.err = "err"] /\ Goto(c, "unlock") /\ UNCHANGED <<journal, aux>>
    <2>1. pc' = [pc EXCEPT ![c] = "unlock"] /\ pc'[c] = "unlock" /\ \A d \in Clients : d /= c => pc'[d] = pc[d]
      BY <1>0, <1>7 DEF Goto
    <2>2. grp'.err = "err"
      BY <1>0, <1>7 DEF NoGroup
    <2>3. Verdict(c) = "none" /\ Verdict(c)' = "err" /\ \A d \in Clients : d /= c => Verdict(d)' = Verdict(d)
      BY <1>1, <1>4, <1>7, <2>1, <2>2 DEF Verdict, Waiting
    <2>4. ASSUME NEW d \in Clients PROVE Steady(d)
      BY <1>1, <1>2, <2>1, <2>3 DEF Told, Steady
    <2>5. JournalInv'
      BY <1>7, <2>4, JournalSame
    <2>6. GroupInv'
      BY <1>5, <1>7, <2>1
    <2> QED
      BY <2>5, <2>6
  <1> QED
    BY <1>6, <1>7 DEF Write

-----------------------------------------------------------------------------
(* DataInv.                                                                *)

\* The units of a group.
LEMMA UnitsNat ==
    ASSUME NEW g \in Seq(Clients)
    PROVE  Units(g) \in Nat
  <1>0. Len(g) \in Int /\ DOMAIN g = 1 .. Len(g)
    OBVIOUS
  <1>1. IsFiniteSet(1 .. Len(g)) /\ IsFiniteSet(1 .. 2)
    <2>1. \A a, b \in Int : IsFiniteSet(a .. b)
      BY FS_Interval
    <2>2. 1 \in Int /\ 2 \in Int /\ Len(g) \in Int
      BY <1>0
    <2> QED
      BY <2>1, <2>2, Zenon
  <1>2. IsFiniteSet((DOMAIN g) \X (1 .. 2))
    BY <1>0, <1>1, FS_Product
  <1>3. IsFiniteSet({u \in (DOMAIN g) \X (1 .. 2) : u[2] <= Size(op[g[u[1]]])})
    BY <1>2, FS_Subset
  <1> QED
    BY <1>3, FS_CardinalityType DEF Units

\* The clients leave counts and results.
LEMMA DataClient ==
    ASSUME WritersAssumption, DataInv, ControlInv, GroupInv, NEW c \in Clients, ClientStep(c)
    PROVE  DataInv'
  <1> USE DEF Goto, Return, dataVars
  <1>1. res' = res \/ (\E r \in {"ok", "err", "closed"}, d \in Clients : res' = [res EXCEPT ![d] = r])
        \/ res' = [x \in Clients |-> IF x \in {y \in Clients : pc[y] = "txopen"} THEN "closed" ELSE res[x]]
    BY DEF ClientStep, TakeLock, Refused, AwaitFails, Flush, Fresh, MergeEnd, Write, NewMem, Unlock,
           Merge, Ack, Fail, FailUnlocked, Range1, Range2, Range3, Ok, ReadOnly, TxOpen, TxCommit, TxEnd,
           Close1, Close2, Close3, GroupInv
  <1>2. UNCHANGED <<mem, frozen>> \/ NewMem(c) \/ Write(c)
    BY DEF ClientStep, TakeLock, Refused, AwaitFails, Flush, Fresh, MergeEnd, Unlock,
           Merge, Ack, Fail, FailUnlocked, Range1, Range2, Range3, Ok, ReadOnly, TxOpen, TxCommit, TxEnd,
           Close1, Close2, Close3
  <1>3. l0' = l0 \/ l0' = l0 + 1
    BY DEF ClientStep, TakeLock, Refused, AwaitFails, Flush, Fresh, MergeEnd, Write, NewMem, Unlock,
           Merge, Ack, Fail, FailUnlocked, Range1, Range2, Range3, Ok, ReadOnly, TxOpen, TxCommit, TxEnd,
           Close1, Close2, Close3
  <1>4. locking' = locking \/ locking' = (locking \/ op[c] = "readonly")
    BY DEF ClientStep, TakeLock, Refused, AwaitFails, Flush, Fresh, MergeEnd, Write, NewMem, Unlock,
           Merge, Ack, Fail, FailUnlocked, Range1, Range2, Range3, Ok, ReadOnly, TxOpen, TxCommit, TxEnd,
           Close1, Close2, Close3
  <1>5. fails' = fails \/ (fails < MaxFails /\ fails' = fails + 1)
    BY DEF ClientStep, TakeLock, Refused, AwaitFails, Flush, Fresh, MergeEnd, Write, NewMem, Unlock,
           Merge, Ack, Fail, FailUnlocked, Range1, Range2, Range3, Ok, ReadOnly, TxOpen, TxCommit, TxEnd,
           Close1, Close2, Close3
  <1>6. mem' \in Nat /\ frozen' \in Nat \cup {None}
    <2>1. CASE NewMem(c)
      BY <2>1 DEF NewMem, DataInv
    <2>2. CASE Write(c)
      <3>1. Units(Group(c)) \in Nat
        BY UnitsNat, GroupOfOne DEF Group, GroupInv
      <3>2. frozen' = frozen /\ (mem' = mem \/ mem' = mem + Units(Group(c)))
        BY <2>2 DEF Write
      <3> QED
        BY <3>1, <3>2 DEF DataInv
    <2> QED
      BY <1>2, <2>1, <2>2 DEF DataInv
  <1>7. res' \in [Clients -> {None, "ok", "err", "closed"}]
    BY <1>1 DEF DataInv
  <1>8. l0' \in Nat /\ fails' \in 0 .. MaxFails
    BY <1>3, <1>5 DEF DataInv, WritersAssumption
  <1>9. locking' \in BOOLEAN
    BY <1>4 DEF DataInv
  <1> QED
    BY <1>6, <1>7, <1>8, <1>9 DEF DataInv

\* And the other steps.
LEMMA DataOthers ==
    ASSUME WritersAssumption, DataInv, ControlInv,
           \/ \E c \in Clients : \E o \in Calls[c] : Call(c, o)
           \/ ErrorLock \/ ErrorExit \/ MStep \/ TStep
    PROVE  DataInv'
  <1>0. \A o \in Outcomes : o.run = "ok" \/ fails < MaxFails
    BY DEF Outcomes
  <1>1. res' = res \/ \E d \in Clients : res' = [res EXCEPT ![d] = "closed"]
    BY DEF Call, Return, ErrorLock, ErrorExit, clientVars, MStep, MReceive, MClosed, MStart, MPause, MRun, MBackoff, MResume,
           MTrigger, MAck, TStep, TReceive, TCheck, TPoll, TClosed, TAuto, TRun, TBackoff
  <1>2. mem' = mem /\ (frozen' = frozen \/ frozen' = None) /\ (l0' = l0 \/ l0' = l0 + 1 \/ l0' = 0)
    BY DEF dataVars, Call, ErrorLock, ErrorExit, clientVars, MStep, MReceive, MClosed, MStart, MPause, MRun, MBackoff, MResume,
           MTrigger, MAck, TStep, TReceive, TCheck, TPoll, TClosed, TAuto, TRun, TBackoff
  <1>3. locking' = locking \/ locking' = TRUE
    BY DEF Call, ErrorLock, ErrorExit, clientVars, MStep, MReceive, MClosed, MStart, MPause, MRun, MBackoff, MResume,
           MTrigger, MAck, TStep, TReceive, TCheck, TPoll, TClosed, TAuto, TRun, TBackoff
  <1>4. fails' = fails \/ (fails < MaxFails /\ fails' = fails + 1)
    BY <1>0 DEF Call, ErrorLock, ErrorExit, clientVars, MStep, MReceive, MClosed, MStart, MPause, MRun, MBackoff, MResume,
           MTrigger, MAck, TStep, TReceive, TCheck, TPoll, TClosed, TAuto, TRun, TBackoff
  <1>5. res' \in [Clients -> {None, "ok", "err", "closed"}]
    BY <1>1 DEF DataInv
  <1>6. mem' \in Nat /\ frozen' \in Nat \cup {None} /\ l0' \in Nat
    BY <1>2 DEF DataInv
  <1>7. locking' \in BOOLEAN
    BY <1>3 DEF DataInv
  <1>8. fails' \in 0 .. MaxFails
    BY <1>4 DEF DataInv, WritersAssumption
  <1> QED
    BY <1>5, <1>6, <1>7, <1>8 DEF DataInv

-----------------------------------------------------------------------------
(* The inductive invariant.                                                *)

\* Every state that the database starts in satisfies it.  (openDB)
LEMMA WInvInit ==
    ASSUME WritersAssumption, Init
    PROVE  WInv
  <1>0. None \notin Clients
    BY DEF WritersAssumption
  <1>1. DataInv
    <2>1. MemCap \in Nat /\ PauseTrigger \in Nat /\ MaxFails \in Nat
      BY DEF WritersAssumption
    <2>2. res \in [Clients -> {None, "ok", "err", "closed"}]
      BY DEF Init
    <2>3. mem \in Nat /\ frozen = None /\ l0 \in Nat
      BY <2>1 DEF Init
    <2>4. locking = FALSE /\ fails \in 0 .. MaxFails
      BY <2>1 DEF Init
    <2> QED
      BY <2>2, <2>3, <2>4 DEF DataInv
  <1>6. CloseInv
    BY <1>0 DEF Init, WritersAssumption, CloseInv, Opening, AllCalls
  <1>7. CommandInv
    BY <1>0 DEF Init, CommandInv
  <1>8. FrozenInv
    BY DEF Init, FrozenInv
  <1>2. ControlInv
    BY DEF Init, WritersAssumption, ControlInv, Fits, Places, Waiting, Writes, AllCalls, NoAux, Aux, Labels
  <1>3. HolderInv
    BY DEF Init, HolderInv, Inside
  <1>4. GroupInv
    BY <1>0 DEF Init, GroupInv, NoGroup, ToSet, IsInjectiveSeq, Waiting
  <1>5. JournalInv
    BY DEF Init, JournalInv, Entry, Absent, Told, WritersAssumption, AllCalls, Writes, IsInjectiveSeq
  <1> QED
    BY <1>1, <1>2, <1>3, <1>4, <1>5, <1>6, <1>7, <1>8 DEF WInv

\* And every step keeps it.
LEMMA WInvNext ==
    ASSUME WritersAssumption, WInv, [Next]_vars
    PROVE  WInv'
  <1> USE DEF WInv
  <1>1. ASSUME NEW c \in Clients, ClientStep(c) PROVE WInv'
    <2>1. DataInv' /\ ControlInv' /\ HolderInv' /\ CloseInv' /\ CommandInv' /\ FrozenInv'
      BY <1>1, DataClient, ControlClient, HolderClient, CloseClient, ClientKeeps
    <2>2. CASE \E m \in Clients : Merge(c, m) \/ Ack(c, m)
      BY <2>1, <2>2, GroupMerges, GroupAcks
    <2>3. CASE Unlock(c) \/ Write(c)
      BY <2>1, <2>3, GroupUnlocks, GroupWrites
    <2>4. CASE Fresh(c) \/ (Flush(c) /\ pc'[c] /= "send")
      BY <2>1, <2>4, GroupBegins
    <2>5. CASE \/ TakeLock(c) \/ Refused(c) \/ AwaitFails(c) \/ (Flush(c) /\ pc'[c] = "send") \/ MergeEnd(c) \/ NewMem(c)
               \/ Fail(c) \/ FailUnlocked(c) \/ Range1(c) \/ Range2(c) \/ Range3(c) \/ Ok(c) \/ ReadOnly(c)
               \/ TxOpen(c) \/ TxCommit(c) \/ TxEnd(c) \/ Close1(c) \/ Close2(c) \/ Close3(c)
      BY <2>1, <2>5, GroupQuiet
    <2> QED
      BY <1>1, <2>2, <2>3, <2>4, <2>5 DEF ClientStep
  <1>2. ASSUME (\E c \in Clients : \E o \in Calls[c] : Call(c, o)) \/ ErrorLock \/ ErrorExit PROVE WInv'
    <2>1. ControlInv'
      <3>1. CASE ErrorLock \/ ErrorExit
        BY <3>1 DEF ErrorLock, ErrorExit, clientVars, ControlInv
      <3> QED
        BY <1>2, <3>1, ControlCall
    <2> QED
      BY <1>2, <2>1, DataOthers, HolderOthers, CloseOthers, OthersKeep, GroupOthers
  <1>3. ASSUME MStep PROVE WInv'
    <2>1. Answered
      BY <1>3, MStepAnswers
    <2> QED
      BY <1>3, <2>1, DataOthers, ControlAnswered, HolderAnswered, CloseAnswered, MStepKeeps, GroupAnswered
  <1>4. ASSUME TStep PROVE WInv'
    <2>1. Answered
      BY <1>4, TStepAnswers
    <2> QED
      BY <1>4, <2>1, DataOthers, ControlAnswered, HolderAnswered, CloseAnswered, TStepKeeps, GroupAnswered
  <1>5. ASSUME UNCHANGED vars PROVE WInv'
    <2>1. DataInv' /\ ControlInv' /\ FrozenInv' /\ CommandInv'
      BY <1>5 DEF vars, DataInv, ControlInv, FrozenInv, CommandInv, WaitsFor
    <2>2. HolderInv' /\ CloseInv'
      BY <1>5 DEF vars, HolderInv, CloseInv, Inside, Opening
    <2>3. GroupInv' /\ JournalInv'
      BY <1>5 DEF vars, GroupInv, JournalInv, Grouping, Entry, Told, Verdict, Absent, Once
    <2> QED
      BY <2>1, <2>2, <2>3
  <1> QED
    BY <1>1, <1>2, <1>3, <1>4, <1>5 DEF Next

\* At every step, WInv.
THEOREM Inductive == Spec => []WInv
  <1>1. Init => WInv
    BY WInvInit, WritersAssumption
  <1>2. WInv /\ [Next]_vars => WInv'
    BY WInvNext, WritersAssumption
  <1> QED
    BY <1>1, <1>2, PTL DEF Spec

-----------------------------------------------------------------------------
(* What follows from it.                                                   *)

\* The variables have their types.
THEOREM TypesHold == Spec => []TypeOK
  <1>1. WInv => TypeOK
    <2>1. ControlInv /\ DataInv => pc \in [Clients -> Labels] /\ op \in [Clients -> AllCalls \cup {None}]
            /\ res \in [Clients -> {None, "ok", "err", "closed"}]
            /\ mem \in Nat /\ frozen \in Nat \cup {None} /\ l0 \in Nat /\ locking \in BOOLEAN /\ fails \in 0 .. MaxFails
      BY DEF ControlInv, DataInv
    <2>2. HolderInv /\ CloseInv => lock \in Clients \cup {None, "error"} /\ ce \in {"no", "err", "perm", "gone"}
            /\ closed \in BOOLEAN /\ closeC \in BOOLEAN
      BY DEF HolderInv, CloseInv
    <2>3. CommandInv => mc.pc \in {"idle", "start", "pause", "flush", "backoff", "resume", "trigger", "ack", "gone"}
            /\ tc.pc \in {"check", "poll", "select", "auto", "run", "backoff", "gone"}
      BY DEF CommandInv
    <2> QED
      BY <2>1, <2>2, <2>3 DEF WInv, TypeOK
  <1> QED
    BY <1>1, Inductive, WritersAssumption, PTL

\* Whoever is in a part of its call that needs the write lock has it; but
\* SetReadOnly, after compactionError has ended, which gives back the lock
\* that it takes for persistent errors whoever has it by then.  (writeLocked,
\* unlockWrite, rotateMem, SetReadOnly, OpenTransaction, compactionError)
HolderOrEnded == \A c \in Clients : Inside(c) => lock = c \/ (op[c] = "readonly" /\ ce = "gone" /\ closed)

\* Every reachable state is one of these: who is inside holds the write lock.
THEOREM HolderHolds == Spec => []HolderOrEnded
  <1>1. WritersAssumption /\ WInv => HolderOrEnded
    <2>1. ASSUME WritersAssumption, WInv, NEW c \in Clients, pc[c] = "readonly" PROVE op[c] = "readonly"
      BY <2>1 DEF WInv, ControlInv, Fits, Places, AllCalls, Writes, Waiting
    <2> QED
      BY <2>1 DEF WInv, HolderInv, CloseInv, HolderOrEnded
  <1> QED
    BY <1>1, Inductive, WritersAssumption, PTL

\* So there is never a second one, when Close does not come during
\* SetReadOnly.  (writeLocked, unlockWrite, SetReadOnly, Close)
THEOREM OneWriterHolds == ASSUME "closeInCall" \notin Allow PROVE Spec => []OneWriter
  <1>1. WInv => OneWriter
    <2>1. ASSUME WInv, NEW c \in Clients, pc[c] = "readonly", ce = "gone" PROVE FALSE
      <3>1. op[c] = "readonly"
        BY <2>1, WritersAssumption DEF WInv, ControlInv, Fits, Places, AllCalls, Writes, Waiting
      <3>2. Opening = {}
        BY <2>1 DEF WInv, CloseInv
      <3>3. c \in Opening
        BY <2>1, <3>1 DEF Opening
      <3> QED
        BY <3>2, <3>3
    <2> QED
      BY <2>1 DEF WInv, HolderInv, OneWriter
  <1> QED
    BY <1>1, Inductive, WritersAssumption, PTL

\* A new memdb is never made while there is a frozen one.  (rotateMem, newMem,
\* mCompaction)
THEOREM NoRetryHolds == Spec => []NoRetry
  <1>1. WInv => NoRetry
    BY DEF WInv, FrozenInv, NoRetry
  <1> QED
    BY <1>1, Inductive, WritersAssumption, PTL

\* So rotateMem never reaches its panic "BUG: still has frozen memdb".
NoPanic == \A c \in Clients : pc[c] /= "panic"

\* No writer, merged or leading, ever reaches that panic.  (rotateMem)
THEOREM NoPanicHolds == Spec => []NoPanic
  <1>1. WritersAssumption /\ Init => NoPanic
    BY DEF Init, NoPanic
  <1>2. ASSUME WInv, NoPanic, [Next]_vars PROVE NoPanic'
    <2>0. pc \in [Clients -> Labels]
      BY <1>2 DEF WInv, ControlInv
    <2>1. ASSUME Answered PROVE NoPanic'
      <3>1. ASSUME NEW c \in Clients, pc[c] \in {"send", "await"} PROVE "panic" \notin {aux[c].then, aux[c].fail}
        <4>1. op[c] \in Writes \cup {"range", "tx"} /\ Waits(op[c], aux[c])
          BY <1>2, <3>1 DEF WInv, ControlInv, Fits, Places, Waiting, Writes, AllCalls
        <4> QED
          BY <4>1 DEF Waits, WaitsAs
      <3> QED
        BY <1>2, <2>1, <3>1 DEF Answered, Answers, NoPanic
    <2>2. ASSUME NEW c \in Clients, ClientStep(c) PROVE NoPanic'
      <3>1. CASE NewMem(c)
        <4>1. frozen = None /\ op[c] \in Writes \cup {"range", "tx"} /\ Waits(op[c], aux[c]) /\ aux[c].then = "newmem"
          BY <1>2, <3>1 DEF NewMem, WInv, FrozenInv, ControlInv, Fits, Places, Waiting, Writes, AllCalls
        <4>2. aux[c].after /= "panic"
          BY <4>1, WritersAssumption DEF Waits, WaitsAs, WritersAssumption
        <4> QED
          BY <1>2, <2>0, <3>1, <4>1, <4>2 DEF NewMem, Await, Goto, NoPanic
      <3>2. CASE AwaitFails(c)
        BY <1>2, <2>1, <3>2, AwaitFailsAnswers DEF WInv
      <3>3. CASE TakeLock(c)
        <4>1. Locked(c) /= "panic"
          BY <1>2, <3>3 DEF TakeLock, Locked, WInv, ControlInv, Fits, Places, AllCalls, Writes, Waiting
        <4> QED
          BY <1>2, <2>0, <3>3, <4>1 DEF TakeLock, Goto, NoPanic
      <3>4. CASE ~ NewMem(c) /\ ~ AwaitFails(c) /\ ~ TakeLock(c)
        BY <1>2, <2>0, <2>2, <3>4 DEF NoPanic, Goto, Return, Await, ClientStep, Refused, Flush, Fresh, MergeEnd, Write, Unlock,
           Merge, Ack, Fail, FailUnlocked, Range1, Range2, Range3, Ok, ReadOnly, TxOpen, TxCommit, TxEnd,
           Close1, Close2, Close3
      <3> QED
        BY <3>1, <3>2, <3>3, <3>4
    <2>3. CASE (\E c \in Clients : \E o \in Calls[c] : Call(c, o)) \/ ErrorLock \/ ErrorExit \/ UNCHANGED vars
      BY <1>2, <2>0, <2>3 DEF Call, Return, Goto, ErrorLock, ErrorExit, clientVars, vars, NoPanic
    <2>4. CASE MStep \/ TStep
      BY <1>2, <2>1, <2>4, MStepAnswers, TStepAnswers DEF WInv
    <2> QED
      BY <1>2, <2>2, <2>3, <2>4 DEF Next
  <1> QED
    BY <1>1, <1>2, Inductive, WritersAssumption, PTL DEF Spec

\* An injective sequence over Clients is no longer than there are clients.
LEMMA InjectiveShort ==
    ASSUME IsFiniteSet(Clients), NEW s \in Seq(Clients), IsInjectiveSeq(s)
    PROVE  DOMAIN s \subseteq 1 .. Cardinality(Clients)
  <1>1. Len(s) \in Nat /\ DOMAIN s = 1 .. Len(s) /\ s \in [1 .. Len(s) -> Clients]
    OBVIOUS
  <1>2. s \in Injection(1 .. Len(s), Clients)
    BY <1>1 DEF IsInjectiveSeq, Injection, IsInjective
  <1>3. Cardinality(1 .. Len(s)) <= Cardinality(Clients)
    BY <1>2, FS_Injection
  <1>4. Cardinality(1 .. Len(s)) = Len(s)
    <2>1. \A a, b \in Int : Cardinality(a .. b) = IF a > b THEN 0 ELSE b - a + 1
      BY FS_Interval
    <2>2. 1 \in Int /\ Len(s) \in Int
      BY <1>1
    <2>3. Cardinality(1 .. Len(s)) = IF 1 > Len(s) THEN 0 ELSE Len(s) - 1 + 1
      BY <2>1, <2>2, Zenon
    <2> QED
      BY <1>1, <2>3
  <1>5. Cardinality(Clients) \in Nat
    BY FS_CardinalityType
  <1> QED
    BY <1>1, <1>3, <1>4, <1>5

\* Who is in the journal once is there at one place.
LEMMA OncePlaces ==
    ASSUME WritersAssumption, WInv, NEW c \in Clients, Once(c)
    PROVE  Cardinality(Written(c)) = 1
  <1>1. PICK i \in DOMAIN journal : \E j \in DOMAIN journal[i] :
          /\ journal[i][j] = c
          /\ \A k \in DOMAIN journal : \A m \in DOMAIN journal[k] : journal[k][m] = c => k = i /\ m = j
    BY DEF Once
  <1>2. PICK j \in DOMAIN journal[i] :
          /\ journal[i][j] = c
          /\ \A k \in DOMAIN journal : \A m \in DOMAIN journal[k] : journal[k][m] = c => k = i /\ m = j
    BY <1>1
  <1>3. j \in 1 .. Cardinality(Clients)
    <2>1. journal[i] \in Seq(Clients) /\ IsInjectiveSeq(journal[i])
      BY DEF WInv, JournalInv
    <2> QED
      BY <2>1, InjectiveShort DEF WritersAssumption
  <1>4. Written(c) = {<<i, j>>}
    <2>1. <<i, j>> \in Written(c)
      BY <1>2, <1>3 DEF Written
    <2>2. ASSUME NEW p \in Written(c) PROVE p = <<i, j>>
      BY <1>2 DEF Written
    <2> QED
      BY <2>1, <2>2
  <1>5. Cardinality({<<i, j>>}) = 1
    BY FS_Singleton
  <1> QED
    BY <1>4, <1>5

\* A write that returns nil is in the journal once, one that returns an error
\* once at most, and the writes of one group are told the same.  (writeJournal,
\* writeLocked, unlockWrite, Write, putRec)
THEOREM ResultsMatchHolds == Spec => []ResultsMatch
  <1>1. ASSUME WInv, NEW c \in Clients, pc[c] = "done", op[c] \in Writes
        PROVE  /\ res[c] = "ok" => Cardinality(Written(c)) = 1
               /\ res[c] = "err" => Cardinality(Written(c)) <= 1
               /\ res[c] = "closed" => Written(c) = {}
    <2>1. Entry(c, res[c])
      BY <1>1 DEF WInv, JournalInv, Told
    <2>2. Once(c) => Cardinality(Written(c)) = 1
      BY <1>1, OncePlaces, WritersAssumption
    <2>3. Absent(c) => Written(c) = {}
      BY DEF Absent, Written
    <2>4. Cardinality({}) = 0
      BY FS_EmptySet
    <2> QED
      BY <2>1, <2>2, <2>3, <2>4 DEF Entry
  <1>2. ASSUME WInv, NEW i \in DOMAIN journal, NEW c \in ToSet(journal[i]), NEW d \in ToSet(journal[i]),
               pc[c] = "done", pc[d] = "done"
        PROVE  res[c] = res[d]
    <2>1. PICK j \in DOMAIN journal[i] : journal[i][j] = c
      BY DEF ToSet
    <2>2. PICK k \in DOMAIN journal[i] : journal[i][k] = d
      BY DEF ToSet
    <2>3. c \in Clients /\ d \in Clients /\ ~ Absent(c) /\ ~ Absent(d) /\ Told(c) = Told(d)
      BY <1>2, <2>1, <2>2 DEF WInv, JournalInv, Absent
    <2>4. Told(c) /= "none" /\ Told(d) /= "none"
      BY <1>2, <2>3 DEF WInv, JournalInv, Entry
    <2> QED
      BY <1>2, <2>3, <2>4 DEF Told
  <1>3. WInv => ResultsMatch
    BY <1>1, <1>2 DEF ResultsMatch, Writes
  <1> QED
    BY <1>3, Inductive, WritersAssumption, PTL
=============================================================================

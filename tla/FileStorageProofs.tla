-------------------------- MODULE FileStorageProofs --------------------------
(***************************************************************************)
(* Proofs about FileStorage, for any number of processes, manifests,       *)
(* failures and crashes.                                                   *)
(***************************************************************************)
EXTENDS FileStorage, FiniteSetTheorems, TLAPS

Repairing == {"meta", "metabak", "metapend", "metawrite", "metarename", "metasync"}
Labels == Repairing \cup {"off", "start", "up", "metaok", "metafailed", "remove"}
Storage ==
    [pc : Labels, ro : BOOLEAN, open : Int, handles : Nat, closed : BOOLEAN,
     slock : 0 .. 2, tokens : SUBSET (1 .. 2), n : Numbers \cup {None},
     from : {None, "get", "set"}, mfd : Numbers \cup {None}, new : Numbers \cup {None}]

\* The types, and what ties the counter of open files to the flag of Close.
TypeInv ==
    /\ cur \in Numbers \cup {None} /\ bak \in Numbers \cup {None, Torn}
    /\ DOMAIN pend \subseteq Numbers /\ \A n \in DOMAIN pend : pend[n] \in {n, Torn}
    /\ DOMAIN man \subseteq Numbers /\ \A n \in DOMAIN man : man[n] \in {"partial", "full"}
    /\ flock \in [ex : Procs \cup {None}, sh : SUBSET Procs]
    /\ st \in [Procs -> Storage]
    /\ committed \in Numbers \cup {None} /\ tried \subseteq Numbers
    /\ spoilt \in BOOLEAN /\ fails \in 0 .. MaxFails /\ crashes \in Nat

CountersOK(s) ==
    IF s.closed THEN s.pc \in {"start", "up"} /\ s.open < 0 ELSE s.open = s.handles

\* setMeta works on CURRENT.n, n being a number; what it renames is whole.
WritingOK(s, pd) ==
    s.pc \in Repairing \cup {"metaok"} =>
        /\ s.n \in Numbers
        /\ s.pc \in {"metawrite", "metarename"} => s.n \in DOMAIN pd
        /\ s.pc = "metarename" => pd[s.n] = s.n

\* The storage is open, and its process has the lock on LOCK that it needs.
IsOpen(s) == s.pc /= "off" /\ ~s.closed
HolderOK(p, s, fl, pd) ==
    /\ CountersOK(s)
    /\ IsOpen(s) => IF s.ro THEN p \in fl.sh ELSE fl.ex = p
    /\ s.tokens \subseteq {s.slock} \ {0}
    /\ s.pc \notin {"off", "start", "up"} \/ s.new /= None => ~s.ro
    /\ s.pc \in {"off", "start"} => s.new = None
    /\ WritingOK(s, pd)
LockInv ==
    /\ flock.ex /= None => flock.sh = {}
    /\ \A p \in Procs : HolderOK(p, st[p], flock, pend)

\* CURRENT.m is whole and its manifest exists.
Valid(m) == m \in DOMAIN pend /\ pend[m] = m /\ m \in DOMAIN man

\* What the files say whoever is there.  CURRENT, once made, always names a
\* whole manifest, so that the backup is never needed; and a CURRENT.m that
\* could win over it is one of those that SetMeta was called with.
FilesInv ==
    /\ cur /= None => cur \in DOMAIN man /\ man[cur] = "full"
    /\ cur = None => bak = None
    /\ \A m \in Numbers : Valid(m) => man[m] = "full"
    /\ committed /= None =>
          /\ cur \in {committed} \cup tried
          /\ \A m \in Numbers : Valid(m) /\ m > cur => m \in {committed} \cup tried
          /\ \A m \in tried : m > committed

\* The session of the process that has the storage open to write and has
\* done its GetMeta, or is in GetMeta's repair.
IsWriter(s) == IsOpen(s) /\ s.pc /= "start" /\ ~s.ro
InRepair(s) == s.pc \in Repairing \cup {"metaok"} /\ s.from = "get"

\* All that is on disk is older than what it is about to make current.
Bounded(s) ==
    /\ \A m \in Numbers : Valid(m) \/ m = cur =>
          IF InRepair(s) THEN m <= s.n ELSE m = s.new \/ (s.mfd /= None /\ m <= s.mfd)
    /\ committed /= None /\ s.pc /= "remove" /\ ~InRepair(s) => s.mfd /= None /\ s.mfd >= committed

NewOK(s) ==
    /\ s.new /= None =>
          /\ s.new \in DOMAIN man
          /\ s.mfd /= None => s.new > s.mfd
          /\ s.pc \notin {"metasync", "metaok", "remove"} => cur /= s.new
    /\ s.pc \in {"remove", "metafailed"} => s.new /= None
    /\ s.pc = "remove" => cur = s.new /\ committed = s.new /\ tried = {} /\ s.new \notin DOMAIN pend

SettingOK(s) ==
    s.pc \in Repairing \cup {"metaok"} =>
        /\ s.n \in DOMAIN man /\ man[s.n] = "full"
        /\ s.from = "set" => s.n = s.new
        /\ s.from = "get" => s.new = None
        /\ s.from \in {"get", "set"}
        /\ committed /= None => s.n \in {committed} \cup tried
        /\ s.pc \in {"metasync", "metaok"} => cur = s.n /\ (s.from = "set" => s.n \notin DOMAIN pend)

SessionOK(s) == Bounded(s) /\ NewOK(s) /\ SettingOK(s)
SessionInv == \A p \in Procs : IsWriter(st[p]) => SessionOK(st[p])

\* The files and the sessions are in order until an error of SetMeta has had
\* one of its two consequences: types and locks are whatever happens.
IInv == TypeInv /\ LockInv /\ (~ spoilt => FilesInv /\ SessionInv)

-----------------------------------------------------------------------------
(* What Resolve finds *)

\* A set of numbers of manifests that is not empty has a greatest member,
\* and Max returns it.
LEMMA MaxNumber ==
  ASSUME NEW S \in SUBSET Numbers, S /= {}
  PROVE  Max(S) \in S /\ \A m \in S : Max(S) >= m
<1> DEFINE T == {MaxNum - m : m \in S}
<1>0. MaxNum \in Nat /\ \A m \in S : m \in Nat /\ m <= MaxNum
  BY FileStorageAssumption DEF Numbers
<1>1. T \subseteq Nat /\ T /= {}
  BY <1>0
<1>2. PICK d \in T : \A e \in T : ~ (<<e, d>> \in OpToRel(<, Nat))
  <2> HIDE DEF T
  <2> QED
    BY <1>1, NatLessThanWellFounded, WFMin
<1>3. \A e \in T : e >= d
  <2> SUFFICES ASSUME NEW e \in T, ~(e >= d) PROVE FALSE
    OBVIOUS
  <2>1. e \in Nat /\ d \in Nat
    BY <1>1
  <2>2. <<e, d>> \in OpToRel(<, Nat)
    BY <2>1 DEF OpToRel
  <2> QED
    BY <2>2, <1>2
<1>4. PICK m \in S : d = MaxNum - m
  OBVIOUS
<1>5. \A k \in S : m >= k
  <2> TAKE k \in S
  <2>1. MaxNum - k >= MaxNum - m
    BY <1>3, <1>4
  <2> QED
    BY <2>1, <1>0
<1>6. QED
  BY <1>5 DEF Max

\* The pending renames that count are the valid ones.
LEMMA PendingValid ==
  ASSUME TypeInv
  PROVE  Pending = {m \in Numbers : Valid(m)}
BY FileStorageAssumption DEF TypeInv, Pending, Names, Valid, Numbers

\* Whatever the files are, Resolve finds a number or nothing.
LEMMA ResolveTyped ==
  ASSUME TypeInv
  PROVE  Resolve \in Numbers \cup {None}
<1>1. CurrentOrBackup \in Numbers \cup {None}
  BY DEF TypeInv, CurrentOrBackup, Names
<1>2. Pending /= {} => pend[Max(Pending)] \in Numbers
  <2> DEFINE S == {m \in Numbers : Valid(m)}
  <2>1. Pending = S /\ \A m \in S : pend[m] \in Numbers
    BY PendingValid DEF Valid
  <2>2. S \subseteq Numbers
    OBVIOUS
  <2> HIDE DEF S
  <2>3. S /= {} => Max(S) \in S
    BY <2>2, MaxNumber
  <2> QED
    BY <2>1, <2>3
<1> QED
  BY <1>1, <1>2 DEF Resolve

\* When CURRENT is in order, Resolve finds the greatest number that CURRENT
\* or a valid pending rename holds.
LEMMA ResolveGreatest ==
  ASSUME TypeInv, FilesInv
  PROVE  /\ Resolve \in Numbers \cup {None}
         /\ Resolve = None => cur = None /\ \A m \in Numbers : ~Valid(m)
         /\ Resolve /= None => /\ Valid(Resolve) \/ Resolve = cur
                               /\ \A m \in Numbers : Valid(m) \/ m = cur => m <= Resolve
                               /\ Resolve \in DOMAIN man /\ man[Resolve] = "full"
<1> DEFINE M == Max(Pending)
<1>1. CurrentOrBackup = cur
  BY FileStorageAssumption DEF TypeInv, FilesInv, CurrentOrBackup, Names, Numbers
<1>2. Pending = {m \in Numbers : Valid(m)}
  BY PendingValid
<1>3. CASE Pending = {}
  <2>1. Resolve = cur
    BY <1>1, <1>3 DEF Resolve
  <2> QED
    BY <2>1, <1>2, <1>3, FileStorageAssumption DEF TypeInv, FilesInv, Numbers
<1>4. CASE Pending /= {}
  <2>1. M \in Pending /\ \A m \in Pending : M >= m
    BY <1>2, <1>4, MaxNumber
  <2>2. pend[M] = M /\ Valid(M) /\ M \in Numbers
    BY <2>1, <1>2 DEF Valid
  <2>3. Resolve = IF cur = None \/ M > cur THEN M ELSE cur
    BY <2>2, <1>1, <1>4 DEF Resolve
  <2> HIDE DEF M
  <2>4. \A m \in Numbers : Valid(m) => M >= m
    BY <2>1, <1>2
  <2>5. CASE cur = None \/ M > cur
    BY <2>2, <2>3, <2>4, <2>5, FileStorageAssumption DEF TypeInv, FilesInv, Numbers, Valid
  <2>6. CASE ~(cur = None \/ M > cur)
    BY <2>2, <2>3, <2>4, <2>6, FileStorageAssumption DEF TypeInv, FilesInv, Numbers, Valid
  <2> QED
    BY <2>5, <2>6
<1> QED
  BY <1>3, <1>4

\* The two invariants of the files give the property.
LEMMA FilesAtomic ==
  ASSUME TypeInv, FilesInv
  PROVE  committed /= None => /\ Resolve \in {committed} \cup tried
                              /\ man[Resolve] = "full"
                              /\ Resolve /= None /\ Resolve >= committed
<1>1. SUFFICES ASSUME committed /= None
               PROVE  /\ Resolve \in {committed} \cup tried
                      /\ man[Resolve] = "full"
                      /\ Resolve /= None /\ Resolve >= committed
  OBVIOUS
<1>2. cur \in {committed} \cup tried /\ cur /= None /\ committed \in Numbers
  BY <1>1, FileStorageAssumption DEF TypeInv, FilesInv, Numbers
<1>3. Resolve /= None /\ Resolve \in Numbers /\ man[Resolve] = "full"
  BY <1>2, ResolveGreatest
<1>4. Resolve \in {committed} \cup tried
  BY <1>1, <1>2, <1>3, ResolveGreatest, FileStorageAssumption DEF TypeInv, FilesInv, Numbers
<1> QED
  BY <1>1, <1>2, <1>3, <1>4, FileStorageAssumption DEF FilesInv, Numbers

-----------------------------------------------------------------------------
(* Types and locks *)

\* Whoever has the storage open to write has it open alone.
LEMMA Alone ==
  ASSUME TypeInv, LockInv, NEW p \in Procs, NEW q \in Procs, p /= q,
         IsOpen(st[p]), ~st[p].ro
  PROVE  ~IsOpen(st[q])
BY FileStorageAssumption DEF TypeInv, LockInv, HolderOK, Storage

\* One process at most is in a call that changes the names.
LEMMA WritesAlone ==
  ASSUME TypeInv, LockInv, NEW p \in Procs, NEW q \in Procs, p /= q,
         st[p].pc \notin {"off", "start"}, IsOpen(st[p]), ~st[p].ro
  PROVE  /\ st[q].pc \in {"off", "start", "up"}
         /\ ~IsWriter(st[q])
<1>1. ~IsOpen(st[q])
  BY Alone
<1> QED
  BY <1>1 DEF LockInv, HolderOK, CountersOK, IsOpen, IsWriter

\* Assignments to the fields of a storage keep their types.
LEMMA Assigned ==
  /\ Off \in Storage
  /\ \A ro \in BOOLEAN : [Off EXCEPT !.pc = "start", !.ro = ro] \in Storage
  /\ \A s \in Storage :
        /\ \A i \in 0 .. 2, T \in SUBSET (1 .. 2) : [s EXCEPT !.slock = i, !.tokens = T] \in Storage
        /\ \A i \in Int, j \in Nat : [s EXCEPT !.open = i, !.handles = j] \in Storage
        /\ [s EXCEPT !.open = -1, !.closed = TRUE, !.tokens = {}] \in Storage
<1>1. "off" \in Labels /\ "start" \in Labels
  BY DEF Labels
<1>2. 0 \in 0 .. 2 /\ {} \in SUBSET (1 .. 2) /\ 0 \in Nat /\ 0 \in Int /\ -1 \in Int
  OBVIOUS
<1>3. Off \in Storage
  BY <1>1, <1>2 DEF Off, Storage
<1>4. \A ro \in BOOLEAN : [Off EXCEPT !.pc = "start", !.ro = ro] \in Storage
  BY <1>1, <1>2 DEF Off, Storage
<1>5. \A s \in Storage :
        \A i \in 0 .. 2, U \in SUBSET (1 .. 2) : [s EXCEPT !.slock = i, !.tokens = U] \in Storage
  BY DEF Storage
<1>6. \A s \in Storage : \A i \in Int, j \in Nat : [s EXCEPT !.open = i, !.handles = j] \in Storage
  BY DEF Storage
<1>7. \A s \in Storage : [s EXCEPT !.open = -1, !.closed = TRUE, !.tokens = {}] \in Storage
  BY <1>2 DEF Storage
<1> QED
  BY <1>3, <1>4, <1>5, <1>6, <1>7

\* A step of process p that leaves the lock on LOCK alone, and the pending
\* renames too unless p has the storage open to write.
LEMMA OneStorage ==
  ASSUME TypeInv, LockInv, NEW p \in Procs, NEW s \in Storage,
         st' = [st EXCEPT ![p] = s], UNCHANGED flock,
         HolderOK(p, s, flock, pend'),
         pend' = pend \/ (IsOpen(st[p]) /\ ~st[p].ro)
  PROVE  st' \in [Procs -> Storage] /\ LockInv'
<1>1. st' \in [Procs -> Storage] /\ st'[p] = s /\ \A q \in Procs \ {p} : st'[q] = st[q]
  BY DEF TypeInv
<1>2. ASSUME NEW q \in Procs, q /= p PROVE HolderOK(q, st[q], flock, pend')
  <2>1. HolderOK(q, st[q], flock, pend)
    BY DEF LockInv
  <2>2. CASE pend' = pend
    BY <2>1, <2>2
  <2>3. CASE IsOpen(st[p]) /\ ~st[p].ro
    <3>1. st[q].pc \in {"off", "start", "up"}
      BY <1>2, <2>1, <2>3, Alone DEF HolderOK, CountersOK, IsOpen
    <3> QED
      BY <2>1, <3>1 DEF HolderOK, WritingOK, Repairing
  <2> QED
    BY <2>2, <2>3
<1>3. \A q \in Procs : HolderOK(q, st'[q], flock', pend')
  BY <1>1, <1>2
<1> QED
  BY <1>1, <1>3 DEF LockInv

\* The state of a process and what is known of it.
LEMMA Holder ==
  ASSUME TypeInv, LockInv, NEW p \in Procs
  PROVE  /\ st[p] \in Storage /\ HolderOK(p, st[p], flock, pend)
         /\ st = [st EXCEPT ![p] = st[p]]
BY DEF TypeInv, LockInv

\* The actions that change neither the locks nor the names.
LEMMA SessionTyped ==
  ASSUME TypeInv, LockInv, NEW p \in Procs,
         \/ Lock(p) \/ OpenHandle(p) \/ CloseHandle(p) \/ GetMeta(p) \/ FillManifest(p)
         \/ SetMeta(p) \/ MetaFail(p) \/ RemoveOld(p) \/ RemoveNew(p)
         \/ \E t \in 1 .. 2 : Unlock(p, t)
         \/ \E n \in Numbers : CreateManifest(p, n)
  PROVE  TypeInv' /\ LockInv'
<1> USE FileStorageAssumption DEF Labels, Storage, Repairing
<1> DEFINE x == st[p]
<1>0. x \in Storage /\ HolderOK(p, x, flock, pend) /\ st = [st EXCEPT ![p] = x]
  BY Holder
<1>1. ASSUME NEW t \in 1 .. 2, Unlock(p, t) PROVE TypeInv' /\ LockInv'
  <2> DEFINE s == [x EXCEPT !.slock = IF @ = t THEN 0 ELSE @, !.tokens = @ \ {t}]
  <2>1. st' = [st EXCEPT ![p] = s] /\ UNCHANGED flock
    BY <1>1 DEF Unlock, Set, names
  <2>2. s \in Storage
    <3>1. (IF x.slock = t THEN 0 ELSE x.slock) \in 0 .. 2 /\ x.tokens \ {t} \in SUBSET (1 .. 2)
      BY <1>0, <1>1 DEF Unlock
    <3> HIDE DEF Storage, Labels
    <3> QED
      BY <1>0, <3>1, Assigned
  <2>3. HolderOK(p, s, flock, pend')
    BY <1>0, <1>1 DEF Unlock, Ready, Off, names, HolderOK, CountersOK, WritingOK, IsOpen
  <2>4. pend' = pend \/ (IsOpen(x) /\ ~x.ro)
    BY <1>0, <1>1 DEF Unlock, names, HolderOK, CountersOK, WritingOK, IsOpen
  <2>5. st' \in [Procs -> Storage] /\ LockInv'
    <3> HIDE DEF s
    <3> QED
      BY <2>1, <2>2, <2>3, <2>4, OneStorage
  <2> QED
    BY <1>0, <1>1, <2>5 DEF Unlock, names, TypeInv
<1>2. ASSUME OpenHandle(p) PROVE TypeInv' /\ LockInv'
  <2> DEFINE s == [x EXCEPT !.open = @ + 1, !.handles = @ + 1]
  <2>1. st' = [st EXCEPT ![p] = s] /\ UNCHANGED flock
    BY <1>2 DEF OpenHandle, Set, names
  <2>2. s \in Storage
    <3>1. x.open + 1 \in Int /\ x.handles + 1 \in Nat
      BY <1>0, <1>2 DEF OpenHandle
    <3> HIDE DEF Storage, Labels
    <3> QED
      BY <1>0, <3>1, Assigned
  <2>3. HolderOK(p, s, flock, pend')
    BY <1>0, <1>2 DEF OpenHandle, Ready, Off, names, HolderOK, CountersOK, WritingOK, IsOpen
  <2>4. pend' = pend \/ (IsOpen(x) /\ ~x.ro)
    BY <1>0, <1>2 DEF OpenHandle, names, HolderOK, CountersOK, WritingOK, IsOpen
  <2>5. st' \in [Procs -> Storage] /\ LockInv'
    <3> HIDE DEF s
    <3> QED
      BY <2>1, <2>2, <2>3, <2>4, OneStorage
  <2> QED
    BY <1>0, <1>2, <2>5 DEF OpenHandle, names, TypeInv
<1>3. ASSUME CloseHandle(p) PROVE TypeInv' /\ LockInv'
  <2> DEFINE s == IF x.closed /\ x.handles = 1 THEN Off
                ELSE [x EXCEPT !.open = @ - 1, !.handles = @ - 1]
  <2>1. st' = [st EXCEPT ![p] = s] /\ UNCHANGED flock
    BY <1>3 DEF CloseHandle, Set, names
  <2>2. s \in Storage
    <3>1. x.open - 1 \in Int /\ x.handles - 1 \in Nat
      BY <1>0, <1>3 DEF CloseHandle
    <3> HIDE DEF Storage, Labels
    <3> QED
      BY <1>0, <3>1, Assigned
  <2>3. HolderOK(p, s, flock, pend')
    BY <1>0, <1>3 DEF CloseHandle, Ready, Off, names, HolderOK, CountersOK, WritingOK, IsOpen
  <2>4. pend' = pend \/ (IsOpen(x) /\ ~x.ro)
    BY <1>0, <1>3 DEF CloseHandle, names, HolderOK, CountersOK, WritingOK, IsOpen
  <2>5. st' \in [Procs -> Storage] /\ LockInv'
    <3> HIDE DEF s
    <3> QED
      BY <2>1, <2>2, <2>3, <2>4, OneStorage
  <2> QED
    BY <1>0, <1>3, <2>5 DEF CloseHandle, names, TypeInv
<1>4. ASSUME FillManifest(p) PROVE TypeInv' /\ LockInv'
  <2> DEFINE s == x
  <2>1. st' = [st EXCEPT ![p] = s] /\ UNCHANGED flock
    BY <1>0, <1>4 DEF FillManifest, Set, names
  <2>2. s \in Storage
    BY <1>0, <1>4 DEF FillManifest, Ready, Off, HolderOK, CountersOK, WritingOK, IsOpen
  <2>3. HolderOK(p, s, flock, pend')
    BY <1>0, <1>4 DEF FillManifest, Ready, Off, names, HolderOK, CountersOK, WritingOK, IsOpen
  <2>4. pend' = pend \/ (IsOpen(x) /\ ~x.ro)
    BY <1>0, <1>4 DEF FillManifest, names, HolderOK, CountersOK, WritingOK, IsOpen
  <2>5. st' \in [Procs -> Storage] /\ LockInv'
    <3> HIDE DEF s
    <3> QED
      BY <2>1, <2>2, <2>3, <2>4, OneStorage
  <2> QED
    BY <1>0, <1>4, <2>5 DEF FillManifest, names, TypeInv
<1>5. ASSUME SetMeta(p) PROVE TypeInv' /\ LockInv'
  <2> DEFINE s == [x EXCEPT !.pc = "meta", !.n = x.new, !.from = "set"]
  <2>1. st' = [st EXCEPT ![p] = s] /\ UNCHANGED flock
    BY <1>5 DEF SetMeta, Set, names
  <2>2. s \in Storage
    BY <1>0, <1>5 DEF SetMeta, Ready, Off, HolderOK, CountersOK, WritingOK, IsOpen
  <2>3. HolderOK(p, s, flock, pend')
    <3>1. x.new \in Numbers /\ ~x.ro /\ x.pc = "up" /\ ~x.closed /\ pend' = pend
      BY <1>0, <1>5 DEF SetMeta, Ready, names, HolderOK, CountersOK
    <3>2. /\ s.pc = "meta" /\ s.n = x.new
          /\ s.ro = x.ro /\ s.closed = x.closed /\ s.open = x.open /\ s.handles = x.handles
          /\ s.tokens = x.tokens /\ s.slock = x.slock /\ s.new = x.new
      BY <1>0
    <3> HIDE DEF s
    <3> QED
      BY <1>0, <3>1, <3>2 DEF HolderOK, CountersOK, WritingOK, IsOpen
  <2>4. pend' = pend \/ (IsOpen(x) /\ ~x.ro)
    BY <1>0, <1>5 DEF SetMeta, names, HolderOK, CountersOK, WritingOK, IsOpen
  <2>5. st' \in [Procs -> Storage] /\ LockInv'
    <3> HIDE DEF s
    <3> QED
      BY <2>1, <2>2, <2>3, <2>4, OneStorage
  <2> QED
    BY <1>0, <1>5, <2>5 DEF SetMeta, names, TypeInv
<1>6. ASSUME MetaFail(p) PROVE TypeInv' /\ LockInv'
  <2> DEFINE s == IF x.from = "get" THEN [x EXCEPT !.pc = "up", !.mfd = x.n]
                ELSE [x EXCEPT !.pc = "metafailed"]
  <2>1. st' = [st EXCEPT ![p] = s] /\ UNCHANGED flock
    BY <1>6 DEF MetaFail, Set, names
  <2>2. s \in Storage
    BY <1>0, <1>6 DEF MetaFail, Ready, Off, HolderOK, CountersOK, WritingOK, IsOpen
  <2>3. HolderOK(p, s, flock, pend')
    BY <1>0, <1>6 DEF MetaFail, Ready, Off, names, HolderOK, CountersOK, WritingOK, IsOpen
  <2>4. pend' = pend \/ (IsOpen(x) /\ ~x.ro)
    BY <1>0, <1>6 DEF MetaFail, names, HolderOK, CountersOK, WritingOK, IsOpen
  <2>5. st' \in [Procs -> Storage] /\ LockInv'
    <3> HIDE DEF s
    <3> QED
      BY <2>1, <2>2, <2>3, <2>4, OneStorage
  <2> QED
    BY <1>0, <1>6, <2>5 DEF MetaFail, names, TypeInv
<1>7. ASSUME RemoveOld(p) PROVE TypeInv' /\ LockInv'
  <2> DEFINE s == [x EXCEPT !.pc = "up", !.mfd = x.new, !.new = None]
  <2>1. st' = [st EXCEPT ![p] = s] /\ UNCHANGED flock
    BY <1>7 DEF RemoveOld, Set, names
  <2>2. s \in Storage
    BY <1>0, <1>7 DEF RemoveOld, Ready, Off, HolderOK, CountersOK, WritingOK, IsOpen
  <2>3. HolderOK(p, s, flock, pend')
    BY <1>0, <1>7 DEF RemoveOld, Ready, Off, names, HolderOK, CountersOK, WritingOK, IsOpen
  <2>4. pend' = pend \/ (IsOpen(x) /\ ~x.ro)
    BY <1>0, <1>7 DEF RemoveOld, names, HolderOK, CountersOK, WritingOK, IsOpen
  <2>5. st' \in [Procs -> Storage] /\ LockInv'
    <3> HIDE DEF s
    <3> QED
      BY <2>1, <2>2, <2>3, <2>4, OneStorage
  <2> QED
    BY <1>0, <1>7, <2>5 DEF RemoveOld, names, TypeInv, Restrict
<1>8. ASSUME RemoveNew(p) PROVE TypeInv' /\ LockInv'
  <2> DEFINE s == [x EXCEPT !.pc = "up", !.new = None]
  <2>1. st' = [st EXCEPT ![p] = s] /\ UNCHANGED flock
    BY <1>8 DEF RemoveNew, Set, names
  <2>2. s \in Storage
    BY <1>0, <1>8 DEF RemoveNew, Ready, Off, HolderOK, CountersOK, WritingOK, IsOpen
  <2>3. HolderOK(p, s, flock, pend')
    BY <1>0, <1>8 DEF RemoveNew, Ready, Off, names, HolderOK, CountersOK, WritingOK, IsOpen
  <2>4. pend' = pend \/ (IsOpen(x) /\ ~x.ro)
    BY <1>0, <1>8 DEF RemoveNew, names, HolderOK, CountersOK, WritingOK, IsOpen
  <2>5. st' \in [Procs -> Storage] /\ LockInv'
    <3> HIDE DEF s
    <3> QED
      BY <2>1, <2>2, <2>3, <2>4, OneStorage
  <2> QED
    BY <1>0, <1>8, <2>5 DEF RemoveNew, names, TypeInv, Restrict
<1>9. ASSUME NEW n \in Numbers, CreateManifest(p, n) PROVE TypeInv' /\ LockInv'
  <2> DEFINE s == [x EXCEPT !.new = n]
  <2>1. st' = [st EXCEPT ![p] = s] /\ UNCHANGED flock
    BY <1>9 DEF CreateManifest, Set, names
  <2>2. s \in Storage
    BY <1>0, <1>9 DEF CreateManifest, Ready, Off, HolderOK, CountersOK, WritingOK, IsOpen
  <2>3. HolderOK(p, s, flock, pend')
    BY <1>0, <1>9 DEF CreateManifest, Ready, Off, names, HolderOK, CountersOK, WritingOK, IsOpen
  <2>4. pend' = pend \/ (IsOpen(x) /\ ~x.ro)
    BY <1>0, <1>9 DEF CreateManifest, names, HolderOK, CountersOK, WritingOK, IsOpen
  <2>5. st' \in [Procs -> Storage] /\ LockInv'
    <3> HIDE DEF s
    <3> QED
      BY <2>1, <2>2, <2>3, <2>4, OneStorage
  <2> QED
    BY <1>0, <1>9, <2>5 DEF CreateManifest, names, TypeInv
<1>10. ASSUME Lock(p) PROVE TypeInv' /\ LockInv'
  <2>1. PICK t \in 1 .. 2 : st' = [st EXCEPT ![p].slock = t, ![p].tokens = @ \cup {t}]
    BY <1>10 DEF Lock
  <2> DEFINE s == [x EXCEPT !.slock = t, !.tokens = @ \cup {t}]
  <2>2. s \in Storage
    <3>1. t \in 0 .. 2 /\ x.tokens \cup {t} \in SUBSET (1 .. 2)
      BY <1>0
    <3> HIDE DEF Storage, Labels
    <3> QED
      BY <1>0, <3>1, Assigned
  <2>3. HolderOK(p, s, flock, pend)
    BY <1>0, <1>10 DEF Lock, HolderOK, CountersOK, WritingOK, IsOpen
  <2>4. st' \in [Procs -> Storage] /\ LockInv'
    <3>1. st' = [st EXCEPT ![p] = s] /\ UNCHANGED <<flock, pend>>
      BY <1>10, <2>1 DEF Lock, names
    <3> HIDE DEF s
    <3> QED
      BY <2>2, <2>3, <3>1, OneStorage
  <2> QED
    BY <1>10, <2>4 DEF Lock, names, TypeInv
<1>11. ASSUME GetMeta(p) PROVE TypeInv' /\ LockInv'
  <2>1. Resolve \in Numbers \cup {None}
    BY ResolveTyped
  <2> DEFINE repair == Resolve /= None /\ ~x.ro /\ (cur /= Resolve \/ pend /= << >>)
             s == IF repair THEN [x EXCEPT !.pc = "meta", !.n = Resolve, !.from = "get"]
                  ELSE [x EXCEPT !.pc = "up", !.mfd = Resolve]
  <2>2. st' = [st EXCEPT ![p] = s] /\ UNCHANGED <<flock, pend>>
    BY <1>11 DEF GetMeta, names
  <2>3. s \in Storage
    BY <1>0, <2>1
  <2>4. HolderOK(p, s, flock, pend)
    BY <1>0, <1>11, <2>1 DEF GetMeta, HolderOK, CountersOK, WritingOK, IsOpen
  <2>5. st' \in [Procs -> Storage] /\ LockInv'
    <3> HIDE DEF s
    <3> QED
      BY <2>2, <2>3, <2>4, OneStorage
  <2> QED
    BY <1>11, <2>1, <2>5 DEF GetMeta, names, TypeInv
<1> QED
  BY <1>1, <1>2, <1>3, <1>4, <1>5, <1>6, <1>7, <1>8, <1>9, <1>10, <1>11

\* The steps of setMeta.
LEMMA NamesTyped ==
  ASSUME TypeInv, LockInv, NEW p \in Procs,
         Meta(p) \/ MetaBackup(p) \/ MetaPend(p) \/ MetaWrite(p) \/ MetaRename(p) \/ MetaSync(p) \/ MetaOk(p)
  PROVE  TypeInv' /\ LockInv'
<1> USE FileStorageAssumption DEF Labels, Storage, Repairing
<1> DEFINE x == st[p]
<1>0. x \in Storage /\ HolderOK(p, x, flock, pend) /\ st = [st EXCEPT ![p] = x]
  BY Holder
<1>1. ASSUME MetaBackup(p) PROVE TypeInv' /\ LockInv'
  <2> DEFINE s == [x EXCEPT !.pc = "metapend"]
  <2>1. st' = [st EXCEPT ![p] = s] /\ UNCHANGED flock
    BY <1>1 DEF MetaBackup, Set, names
  <2>2. s \in Storage
    BY <1>0, <1>1 DEF MetaBackup, Ready, Off, HolderOK, CountersOK, WritingOK, IsOpen
  <2>3. HolderOK(p, s, flock, pend')
    BY <1>0, <1>1 DEF MetaBackup, Ready, Off, names, HolderOK, CountersOK, WritingOK, IsOpen
  <2>4. pend' = pend \/ (IsOpen(x) /\ ~x.ro)
    BY <1>0, <1>1 DEF MetaBackup, names, HolderOK, CountersOK, WritingOK, IsOpen
  <2>5. st' \in [Procs -> Storage] /\ LockInv'
    <3> HIDE DEF s
    <3> QED
      BY <2>1, <2>2, <2>3, <2>4, OneStorage
  <2> QED
    BY <1>0, <1>1, <2>5 DEF MetaBackup, names, TypeInv, Restrict, HolderOK, CountersOK, WritingOK, IsOpen
<1>2. ASSUME MetaPend(p) PROVE TypeInv' /\ LockInv'
  <2> DEFINE s == [x EXCEPT !.pc = "metawrite"]
  <2>1. st' = [st EXCEPT ![p] = s] /\ UNCHANGED flock
    BY <1>2 DEF MetaPend, Set, names
  <2>2. s \in Storage
    BY <1>0, <1>2 DEF MetaPend, Ready, Off, HolderOK, CountersOK, WritingOK, IsOpen
  <2>3. HolderOK(p, s, flock, pend')
    BY <1>0, <1>2 DEF MetaPend, Ready, Off, names, HolderOK, CountersOK, WritingOK, IsOpen
  <2>4. pend' = pend \/ (IsOpen(x) /\ ~x.ro)
    BY <1>0, <1>2 DEF MetaPend, names, HolderOK, CountersOK, WritingOK, IsOpen
  <2>5. st' \in [Procs -> Storage] /\ LockInv'
    <3> HIDE DEF s
    <3> QED
      BY <2>1, <2>2, <2>3, <2>4, OneStorage
  <2> QED
    BY <1>0, <1>2, <2>5 DEF MetaPend, names, TypeInv, Restrict, HolderOK, CountersOK, WritingOK, IsOpen
<1>3. ASSUME MetaWrite(p) PROVE TypeInv' /\ LockInv'
  <2> DEFINE s == [x EXCEPT !.pc = "metarename"]
  <2>1. st' = [st EXCEPT ![p] = s] /\ UNCHANGED flock
    BY <1>3 DEF MetaWrite, Set, names
  <2>2. s \in Storage
    BY <1>0, <1>3 DEF MetaWrite, Ready, Off, HolderOK, CountersOK, WritingOK, IsOpen
  <2>3. HolderOK(p, s, flock, pend')
    BY <1>0, <1>3 DEF MetaWrite, Ready, Off, names, HolderOK, CountersOK, WritingOK, IsOpen
  <2>4. pend' = pend \/ (IsOpen(x) /\ ~x.ro)
    BY <1>0, <1>3 DEF MetaWrite, names, HolderOK, CountersOK, WritingOK, IsOpen
  <2>5. st' \in [Procs -> Storage] /\ LockInv'
    <3> HIDE DEF s
    <3> QED
      BY <2>1, <2>2, <2>3, <2>4, OneStorage
  <2> QED
    BY <1>0, <1>3, <2>5 DEF MetaWrite, names, TypeInv, Restrict, HolderOK, CountersOK, WritingOK, IsOpen
<1>4. ASSUME MetaRename(p) PROVE TypeInv' /\ LockInv'
  <2> DEFINE s == [x EXCEPT !.pc = "metasync"]
  <2>1. st' = [st EXCEPT ![p] = s] /\ UNCHANGED flock
    BY <1>4 DEF MetaRename, Set, names
  <2>2. s \in Storage
    BY <1>0, <1>4 DEF MetaRename, Ready, Off, HolderOK, CountersOK, WritingOK, IsOpen
  <2>3. HolderOK(p, s, flock, pend')
    BY <1>0, <1>4 DEF MetaRename, Ready, Off, names, HolderOK, CountersOK, WritingOK, IsOpen
  <2>4. pend' = pend \/ (IsOpen(x) /\ ~x.ro)
    BY <1>0, <1>4 DEF MetaRename, names, HolderOK, CountersOK, WritingOK, IsOpen
  <2>5. st' \in [Procs -> Storage] /\ LockInv'
    <3> HIDE DEF s
    <3> QED
      BY <2>1, <2>2, <2>3, <2>4, OneStorage
  <2> QED
    BY <1>0, <1>4, <2>5 DEF MetaRename, names, TypeInv, Restrict, HolderOK, CountersOK, WritingOK, IsOpen
<1>5. ASSUME MetaOk(p) PROVE TypeInv' /\ LockInv'
  <2> DEFINE s == IF x.from = "get" THEN [x EXCEPT !.pc = "up", !.mfd = x.n]
                ELSE [x EXCEPT !.pc = "remove"]
  <2>1. st' = [st EXCEPT ![p] = s] /\ UNCHANGED flock
    BY <1>5 DEF MetaOk, Set, names
  <2>2. s \in Storage
    BY <1>0, <1>5 DEF MetaOk, Ready, Off, HolderOK, CountersOK, WritingOK, IsOpen
  <2>3. HolderOK(p, s, flock, pend')
    BY <1>0, <1>5 DEF MetaOk, Ready, Off, names, HolderOK, CountersOK, WritingOK, IsOpen
  <2>4. pend' = pend \/ (IsOpen(x) /\ ~x.ro)
    BY <1>0, <1>5 DEF MetaOk, names, HolderOK, CountersOK, WritingOK, IsOpen
  <2>5. st' \in [Procs -> Storage] /\ LockInv'
    <3> HIDE DEF s
    <3> QED
      BY <2>1, <2>2, <2>3, <2>4, OneStorage
  <2> QED
    BY <1>0, <1>5, <2>5 DEF MetaOk, names, TypeInv, Restrict, HolderOK, CountersOK, WritingOK, IsOpen
<1>6. ASSUME Meta(p) PROVE TypeInv' /\ LockInv'
  <2> DEFINE s == [x EXCEPT !.pc = IF cur = x.n THEN "metaok" ELSE IF cur = None THEN "metapend" ELSE "metabak"]
  <2>1. st' = [st EXCEPT ![p] = s] /\ UNCHANGED flock
    BY <1>6 DEF Meta, Set, names
  <2>2. s \in Storage
    BY <1>0, <1>6 DEF Meta, Ready, Off, HolderOK, CountersOK, WritingOK, IsOpen
  <2>3. HolderOK(p, s, flock, pend')
    BY <1>0, <1>6 DEF Meta, Ready, Off, names, HolderOK, CountersOK, WritingOK, IsOpen
  <2>4. pend' = pend \/ (IsOpen(x) /\ ~x.ro)
    BY <1>0, <1>6 DEF Meta, names, HolderOK, CountersOK, WritingOK, IsOpen
  <2>5. st' \in [Procs -> Storage] /\ LockInv'
    <3> HIDE DEF s
    <3> QED
      BY <2>1, <2>2, <2>3, <2>4, OneStorage
  <2> QED
    BY <1>0, <1>6, <2>5 DEF Meta, names, TypeInv, Restrict, HolderOK, CountersOK, WritingOK, IsOpen
<1>7. ASSUME MetaSync(p) PROVE TypeInv' /\ LockInv'
  <2> DEFINE s == [x EXCEPT !.pc = "metaok"]
  <2>1. st' = [st EXCEPT ![p] = s] /\ UNCHANGED flock
    BY <1>7 DEF MetaSync, Set, names
  <2>2. s \in Storage
    BY <1>0, <1>7 DEF MetaSync, Ready, Off, HolderOK, CountersOK, WritingOK, IsOpen
  <2>3. HolderOK(p, s, flock, pend')
    BY <1>0, <1>7 DEF MetaSync, Ready, Off, names, HolderOK, CountersOK, WritingOK, IsOpen
  <2>4. pend' = pend \/ (IsOpen(x) /\ ~x.ro)
    BY <1>0, <1>7 DEF MetaSync, names, HolderOK, CountersOK, WritingOK, IsOpen
  <2>5. st' \in [Procs -> Storage] /\ LockInv'
    <3> HIDE DEF s
    <3> QED
      BY <2>1, <2>2, <2>3, <2>4, OneStorage
  <2> QED
    BY <1>0, <1>7, <2>5 DEF MetaSync, names, TypeInv, Restrict, HolderOK, CountersOK, WritingOK, IsOpen
<1> QED
  BY <1>1, <1>2, <1>3, <1>4, <1>5, <1>6, <1>7

\* The actions that take the lock on LOCK or give it back.
LEMMA LocksTyped ==
  ASSUME TypeInv, LockInv, NEW p \in Procs,
         (\E ro \in BOOLEAN : OpenStorage(p, ro)) \/ CloseStorage(p) \/ Crash(p)
  PROVE  TypeInv' /\ LockInv'
<1> USE FileStorageAssumption DEF Labels, Storage, Repairing
<1> DEFINE x == st[p]
<1>0. x \in Storage /\ HolderOK(p, x, flock, pend) /\ st = [st EXCEPT ![p] = x]
  BY Holder
<1>1. ASSUME NEW ro \in BOOLEAN, OpenStorage(p, ro) PROVE TypeInv' /\ LockInv'
  <2> DEFINE s == [Off EXCEPT !.pc = "start", !.ro = ro]
  <2>1. st' = [st EXCEPT ![p] = s]
    BY <1>1 DEF OpenStorage
  <2>2. s \in Storage
    <3> HIDE DEF Storage, Labels
    <3> QED
      BY Assigned
  <2>3. flock' \in [ex : Procs \cup {None}, sh : SUBSET Procs] /\ (flock'.ex /= None => flock'.sh = {})
    BY <1>1 DEF OpenStorage, CanLock, TypeInv, LockInv
  <2>4. HolderOK(p, s, flock', pend')
    BY <1>1 DEF OpenStorage, CanLock, TypeInv, Off, HolderOK, CountersOK, WritingOK, IsOpen
  <2> HIDE DEF s
  <2>5. st' \in [Procs -> Storage] /\ st'[p] = s /\ \A q \in Procs \ {p} : st'[q] = st[q]
    BY <2>1, <2>2 DEF TypeInv
  <2>6. ASSUME NEW q \in Procs, q /= p PROVE HolderOK(q, st[q], flock', pend')
    <3>1. HolderOK(q, st[q], flock, pend)
      BY DEF LockInv
    <3> QED
      BY <1>1, <3>1 DEF OpenStorage, CanLock, names, TypeInv, HolderOK, CountersOK, WritingOK, IsOpen
  <2>7. \A q \in Procs : HolderOK(q, st'[q], flock', pend')
    BY <2>4, <2>5, <2>6
  <2> QED
    BY <1>1, <2>3, <2>5, <2>7 DEF OpenStorage, names, TypeInv, LockInv
<1>2. ASSUME CloseStorage(p) PROVE TypeInv' /\ LockInv'
  <2> DEFINE s == IF x.handles = 0 THEN Off
                ELSE [x EXCEPT !.open = -1, !.closed = TRUE, !.tokens = {}]
  <2>1. st' = [st EXCEPT ![p] = s]
    BY <1>2 DEF CloseStorage
  <2>2. s \in Storage
    <3> HIDE DEF Storage, Labels
    <3> QED
      BY <1>0, Assigned
  <2>3. flock' \in [ex : Procs \cup {None}, sh : SUBSET Procs] /\ (flock'.ex /= None => flock'.sh = {})
    BY <1>2 DEF CloseStorage, Unflocked, TypeInv, LockInv
  <2>4. HolderOK(p, s, flock', pend')
    BY <1>0, <1>2 DEF CloseStorage, Off, HolderOK, CountersOK, WritingOK, IsOpen
  <2> HIDE DEF s
  <2>5. st' \in [Procs -> Storage] /\ st'[p] = s /\ \A q \in Procs \ {p} : st'[q] = st[q]
    BY <2>1, <2>2 DEF TypeInv
  <2>6. ASSUME NEW q \in Procs, q /= p PROVE HolderOK(q, st[q], flock', pend')
    <3>1. HolderOK(q, st[q], flock, pend)
      BY DEF LockInv
    <3> QED
      BY <1>2, <2>6, <3>1 DEF CloseStorage, Unflocked, names, TypeInv, HolderOK, CountersOK, WritingOK, IsOpen
  <2>7. \A q \in Procs : HolderOK(q, st'[q], flock', pend')
    BY <2>4, <2>5, <2>6
  <2> QED
    BY <1>2, <2>3, <2>5, <2>7 DEF CloseStorage, names, TypeInv, LockInv
<1>3. ASSUME Crash(p) PROVE TypeInv' /\ LockInv'
  <2> DEFINE s == Off
  <2>1. st' = [st EXCEPT ![p] = s]
    BY <1>3 DEF Crash
  <2>2. s \in Storage
    <3> HIDE DEF Storage, Labels
    <3> QED
      BY <1>0, Assigned
  <2>3. flock' \in [ex : Procs \cup {None}, sh : SUBSET Procs] /\ (flock'.ex /= None => flock'.sh = {})
    BY <1>3 DEF Crash, Unflocked, TypeInv, LockInv
  <2>4. HolderOK(p, s, flock', pend')
    BY <1>0, <1>3 DEF Crash, Off, HolderOK, CountersOK, WritingOK, IsOpen
  <2> HIDE DEF s
  <2>5. st' \in [Procs -> Storage] /\ st'[p] = s /\ \A q \in Procs \ {p} : st'[q] = st[q]
    BY <2>1, <2>2 DEF TypeInv
  <2>6. ASSUME NEW q \in Procs, q /= p PROVE HolderOK(q, st[q], flock', pend')
    <3>1. HolderOK(q, st[q], flock, pend)
      BY DEF LockInv
    <3> QED
      BY <1>3, <2>6, <3>1 DEF Crash, Unflocked, names, TypeInv, HolderOK, CountersOK, WritingOK, IsOpen
  <2>7. \A q \in Procs : HolderOK(q, st'[q], flock', pend')
    BY <2>4, <2>5, <2>6
  <2> QED
    BY <1>3, <2>3, <2>5, <2>7 DEF Crash, names, TypeInv, LockInv
<1> QED
  BY <1>1, <1>2, <1>3

\* Every step keeps types and locks.
LEMMA TypedStep ==
  ASSUME TypeInv, LockInv, [Next]_vars
  PROVE  TypeInv' /\ LockInv'
<1>1. CASE UNCHANGED vars
  BY <1>1 DEF vars, TypeInv, LockInv
<1>2. CASE Next
  BY <1>2, SessionTyped, NamesTyped, LocksTyped DEF Next
<1> QED
  BY <1>1, <1>2

\* The start: nobody has opened anything.
LEMMA TypedInit ==
  ASSUME Init
  PROVE  TypeInv /\ LockInv
<1>1. TypeInv
  <2>1. DOMAIN pend = {} /\ DOMAIN man = {}
    BY DEF Init
  <2>2. st \in [Procs -> Storage]
    BY Assigned DEF Init
  <2>3. flock \in [ex : Procs \cup {None}, sh : SUBSET Procs]
    BY DEF Init
  <2>4. spoilt \in BOOLEAN
    BY DEF Init
  <2>5. /\ cur = None /\ bak = None /\ committed = None /\ tried = {}
        /\ fails = 0 /\ crashes = 0
    BY DEF Init
  <2> QED
    BY <2>1, <2>2, <2>3, <2>4, <2>5, FileStorageAssumption DEF TypeInv
<1>2. \A p \in Procs : st[p] = Off
  BY DEF Init
<1> QED
  BY <1>1, <1>2 DEF Init, LockInv, Off, HolderOK, CountersOK, WritingOK, IsOpen, Repairing

\* Types and the places of the locks, in every state.
THEOREM Typed == Spec => [](TypeInv /\ LockInv)
<1>1. Init => TypeInv /\ LockInv
  BY TypedInit
<1>2. TypeInv /\ LockInv /\ [Next]_vars => (TypeInv /\ LockInv)'
  BY TypedStep
<1> QED
  BY <1>1, <1>2, PTL DEF Spec

\* A token is the one in slock, so there is one at most.
LEMMA OneToken ==
  ASSUME TypeInv, LockInv, NEW p \in Procs
  PROVE  Cardinality(st[p].tokens) <= 1
<1>1. st[p].tokens \subseteq {st[p].slock} \ {0}
  BY DEF LockInv, HolderOK
<1>2. st[p].tokens = {} \/ st[p].tokens = {st[p].slock}
  BY <1>1
<1> QED
  BY <1>2, FS_EmptySet, FS_Singleton

\* One writer of the directory at most, alone, and one holder of the
\* storage lock: whatever fails, whoever dies and whoever reuses numbers.
THEOREM LocksExclusiveHolds == Spec => []LocksExclusive
<1>1. TypeInv /\ LockInv => LocksExclusive
  <2> SUFFICES ASSUME TypeInv, LockInv PROVE LocksExclusive
    OBVIOUS
  <2>1. ASSUME NEW p \in Procs, NEW q \in Procs, p /= q, IsOpen(st[p]), IsOpen(st[q])
        PROVE  st[p].ro /\ st[q].ro
    BY <2>1, Alone DEF TypeInv, Storage
  <2> QED
    BY <2>1, OneToken DEF LocksExclusive, IsOpen
<1> QED
  BY <1>1, Typed, PTL

-----------------------------------------------------------------------------
(* Files and sessions *)

files == <<names, man, committed, tried, fails>>

\* A step of a process that has the storage open to write: the sessions of
\* the others are no writers.
LEMMA WriterStep ==
  ASSUME TypeInv, LockInv, NEW p \in Procs, IsOpen(st[p]), ~st[p].ro,
         NEW s, st' = [st EXCEPT ![p] = s],
         (IsWriter(st[p]) => SessionOK(st[p]))'
  PROVE  SessionInv'
<1>1. \A q \in Procs \ {p} : st'[q] = st[q] /\ ~IsWriter(st[q])
  BY Alone DEF TypeInv, IsWriter
<1> QED
  BY <1>1 DEF SessionInv, IsWriter, IsOpen

\* A step that leaves the files alone, after which the process that takes it
\* is no writer, or is in its session where it was.
LEMMA QuietStep ==
  ASSUME TypeInv, FilesInv, SessionInv, NEW p \in Procs, NEW s,
         st' = [st EXCEPT ![p] = s], UNCHANGED files,
         \/ ~IsWriter(s)
         \/ /\ IsWriter(st[p])
            /\ s.pc = st[p].pc /\ s.n = st[p].n /\ s.from = st[p].from
            /\ s.mfd = st[p].mfd /\ s.new = st[p].new
  PROVE  FilesInv' /\ SessionInv'
<1>1. FilesInv'
  BY DEF FilesInv, files, names, Valid
<1>2. st'[p] = s /\ \A q \in Procs \ {p} : st'[q] = st[q]
  BY DEF TypeInv
<1>3. ASSUME NEW q \in Procs, IsWriter(st[q])' PROVE SessionOK(st[q])'
  <2>1. CASE q /= p
    <3>1. SessionOK(st[q]) /\ st'[q] = st[q]
      BY <1>2, <1>3, <2>1 DEF SessionInv, IsWriter, IsOpen
    <3> QED
      BY <3>1 DEF SessionOK, Bounded, NewOK, SettingOK, InRepair, Valid, files, names
  <2>2. CASE q = p
    <3>1. SessionOK(st[p]) /\ s.pc = st[p].pc /\ s.n = st[p].n /\ s.from = st[p].from
             /\ s.mfd = st[p].mfd /\ s.new = st[p].new
      BY <1>2, <1>3, <2>2 DEF SessionInv, IsWriter, IsOpen
    <3> QED
      BY <1>2, <2>2, <3>1 DEF SessionOK, Bounded, NewOK, SettingOK, InRepair, Valid, files, names
  <2> QED
    BY <2>1, <2>2
<1> QED
  BY <1>1, <1>3 DEF SessionInv

\* The actions that leave the files alone.
LEMMA QuietActions ==
  ASSUME TypeInv, LockInv, FilesInv, SessionInv, NEW p \in Procs,
         \/ \E ro \in BOOLEAN : OpenStorage(p, ro)
         \/ CloseStorage(p) \/ Lock(p) \/ OpenHandle(p) \/ CloseHandle(p) \/ Crash(p)
         \/ \E t \in 1 .. 2 : Unlock(p, t)
  PROVE  FilesInv' /\ SessionInv'
<1> DEFINE x == st[p]
<1>0. x \in Storage /\ HolderOK(p, x, flock, pend)
  BY Holder
<1>1. ASSUME NEW ro \in BOOLEAN, OpenStorage(p, ro) PROVE FilesInv' /\ SessionInv'
  <2> DEFINE s == [Off EXCEPT !.pc = "start", !.ro = ro]
  <2>1. st' = [st EXCEPT ![p] = s] /\ UNCHANGED files
    BY <1>1 DEF OpenStorage, files
  <2>2. ~IsWriter(s)
    BY <1>0 DEF Off, IsWriter, IsOpen, Storage
  <2> HIDE DEF s
  <2> QED
    BY <2>1, <2>2, QuietStep
<1>2. ASSUME CloseStorage(p) PROVE FilesInv' /\ SessionInv'
  <2> DEFINE s == IF x.handles = 0 THEN Off
                ELSE [x EXCEPT !.open = -1, !.closed = TRUE, !.tokens = {}]
  <2>1. st' = [st EXCEPT ![p] = s] /\ UNCHANGED files
    BY <1>2 DEF CloseStorage, files
  <2>2. ~IsWriter(s)
    BY <1>0 DEF Off, IsWriter, IsOpen, Storage
  <2> HIDE DEF s
  <2> QED
    BY <2>1, <2>2, QuietStep
<1>3. ASSUME Crash(p) PROVE FilesInv' /\ SessionInv'
  <2> DEFINE s == Off
  <2>1. st' = [st EXCEPT ![p] = s] /\ UNCHANGED files
    BY <1>3 DEF Crash, files
  <2>2. ~IsWriter(s)
    BY <1>0 DEF Off, IsWriter, IsOpen, Storage
  <2> HIDE DEF s
  <2> QED
    BY <2>1, <2>2, QuietStep
<1>4. ASSUME NEW t \in 1 .. 2, Unlock(p, t) PROVE FilesInv' /\ SessionInv'
  <2> DEFINE s == [x EXCEPT !.slock = IF @ = t THEN 0 ELSE @, !.tokens = @ \ {t}]
  <2>1. st' = [st EXCEPT ![p] = s] /\ UNCHANGED files
    BY <1>4 DEF Unlock, files
  <2>2. \/ ~IsWriter(s)
       \/ /\ IsWriter(x) /\ s.pc = x.pc /\ s.n = x.n /\ s.from = x.from
          /\ s.mfd = x.mfd /\ s.new = x.new
    BY <1>0 DEF Off, IsWriter, IsOpen, Storage
  <2> HIDE DEF s
  <2> QED
    BY <2>1, <2>2, QuietStep
<1>5. ASSUME OpenHandle(p) PROVE FilesInv' /\ SessionInv'
  <2> DEFINE s == [x EXCEPT !.open = @ + 1, !.handles = @ + 1]
  <2>1. st' = [st EXCEPT ![p] = s] /\ UNCHANGED files
    BY <1>5 DEF OpenHandle, files
  <2>2. \/ ~IsWriter(s)
       \/ /\ IsWriter(x) /\ s.pc = x.pc /\ s.n = x.n /\ s.from = x.from
          /\ s.mfd = x.mfd /\ s.new = x.new
    BY <1>0 DEF Off, IsWriter, IsOpen, Storage
  <2> HIDE DEF s
  <2> QED
    BY <2>1, <2>2, QuietStep
<1>6. ASSUME CloseHandle(p) PROVE FilesInv' /\ SessionInv'
  <2> DEFINE s == IF x.closed /\ x.handles = 1 THEN Off
                ELSE [x EXCEPT !.open = @ - 1, !.handles = @ - 1]
  <2>1. st' = [st EXCEPT ![p] = s] /\ UNCHANGED files
    BY <1>6 DEF CloseHandle, files
  <2>2. \/ ~IsWriter(s)
       \/ /\ IsWriter(x) /\ s.pc = x.pc /\ s.n = x.n /\ s.from = x.from
          /\ s.mfd = x.mfd /\ s.new = x.new
    BY <1>0 DEF Off, IsWriter, IsOpen, Storage
  <2> HIDE DEF s
  <2> QED
    BY <2>1, <2>2, QuietStep
<1>7. ASSUME Lock(p) PROVE FilesInv' /\ SessionInv'
  <2>1. PICK t \in 1 .. 2 : st' = [st EXCEPT ![p].slock = t, ![p].tokens = @ \cup {t}]
    BY <1>7 DEF Lock
  <2> DEFINE s == [x EXCEPT !.slock = t, !.tokens = @ \cup {t}]
  <2>2. st' = [st EXCEPT ![p] = s] /\ UNCHANGED files
    BY <1>7, <2>1 DEF Lock, files
  <2>3. \/ ~IsWriter(s)
       \/ /\ IsWriter(x) /\ s.pc = x.pc /\ s.n = x.n /\ s.from = x.from
          /\ s.mfd = x.mfd /\ s.new = x.new
    BY <1>0 DEF IsWriter, IsOpen, Storage
  <2> HIDE DEF s
  <2> QED
    BY <2>2, <2>3, QuietStep
<1> QED
  BY <1>1, <1>2, <1>3, <1>4, <1>5, <1>6, <1>7

\* What a writer's session says, written out.
LEMMA WriterFacts ==
  ASSUME TypeInv, LockInv, SessionInv, NEW p \in Procs,
         st[p].pc \notin {"off", "start"}, ~st[p].closed, ~st[p].ro
  PROVE  IsOpen(st[p]) /\ SessionOK(st[p])
BY DEF SessionInv, IsWriter, IsOpen

\* The manifest that is being written is not yet named by any file.
LEMMA FillManifestStep ==
  ASSUME TypeInv, LockInv, FilesInv, SessionInv, ~ spoilt', NEW p \in Procs, FillManifest(p)
  PROVE  FilesInv' /\ SessionInv'
<1> DEFINE x == st[p]
<1> DEFINE s == x
<1>1. x \in Storage /\ HolderOK(p, x, flock, pend) /\ st \in [Procs -> Storage]
  BY Holder DEF TypeInv
<1>2. x.pc \notin {"off", "start"} /\ ~x.closed /\ ~x.ro
  BY <1>1 DEF FillManifest, Ready, Storage, HolderOK, CountersOK, WritingOK, IsOpen, Repairing
<1>3. IsOpen(x) /\ SessionOK(x)
  BY <1>2, WriterFacts
<1>4. st' = [st EXCEPT ![p] = s] /\ st'[p] = s
  BY <1>1 DEF FillManifest, Set
<1>5. s.pc = x.pc /\ s.n = x.n /\ s.from = x.from /\ s.mfd = x.mfd /\ s.new = x.new
  BY <1>1 DEF FillManifest, Storage
<1> HIDE DEF s
<1>6. x.n \in Numbers \cup {None} /\ x.mfd \in Numbers \cup {None} /\ x.new \in Numbers \cup {None}
  BY <1>1 DEF Storage
<1> USE FileStorageAssumption DEF Numbers, Repairing, Ready, names, TypeInv, FilesInv,
        HolderOK, WritingOK, SessionOK, Bounded, NewOK, SettingOK, InRepair, Valid
<1>7. FilesInv'
  BY <1>1, <1>2, <1>3, <1>5, <1>6 DEF FillManifest
<1>8. Bounded(st[p])'
  BY <1>1, <1>2, <1>3, <1>4, <1>5, <1>6 DEF FillManifest
<1>9. NewOK(st[p])'
  BY <1>1, <1>2, <1>3, <1>4, <1>5, <1>6 DEF FillManifest
<1>10. SettingOK(st[p])'
  BY <1>1, <1>2, <1>3, <1>4, <1>5, <1>6 DEF FillManifest
<1>11. SessionInv'
  BY <1>1, <1>2, <1>3, <1>4, <1>8, <1>9, <1>10, WriterStep
<1> QED
  BY <1>7, <1>11

\* A number above that of the current manifest is free to be made one.
LEMMA CreateManifestStep ==
  ASSUME TypeInv, LockInv, FilesInv, SessionInv, ~ spoilt', NEW p \in Procs, NEW n \in Numbers, CreateManifest(p, n)
  PROVE  FilesInv' /\ SessionInv'
<1> DEFINE x == st[p]
<1> DEFINE s == [x EXCEPT !.new = n]
<1>1. x \in Storage /\ HolderOK(p, x, flock, pend) /\ st \in [Procs -> Storage]
  BY Holder DEF TypeInv
<1>2. x.pc \notin {"off", "start"} /\ ~x.closed /\ ~x.ro
  BY <1>1 DEF CreateManifest, Ready, Storage, HolderOK, CountersOK, WritingOK, IsOpen, Repairing
<1>3. IsOpen(x) /\ SessionOK(x)
  BY <1>2, WriterFacts
<1>4. st' = [st EXCEPT ![p] = s] /\ st'[p] = s
  BY <1>1 DEF CreateManifest, Set
<1>5. s.pc = x.pc /\ s.n = x.n /\ s.from = x.from /\ s.mfd = x.mfd /\ s.new = n
  BY <1>1 DEF CreateManifest, Storage
<1> HIDE DEF s
<1>6. x.n \in Numbers \cup {None} /\ x.mfd \in Numbers \cup {None} /\ x.new \in Numbers \cup {None}
  BY <1>1 DEF Storage
<1>7. n \in DOMAIN pend => pend[n] = Torn
  BY DEF CreateManifest
<1>8. x.new = None /\ x.pc = "up" /\ n /= cur /\ ~ Valid(n)
  BY <1>1, <1>3, <1>6, <1>7, FileStorageAssumption
     DEF CreateManifest, Ready, SessionOK, Bounded, InRepair, Repairing, Valid, Numbers
<1>9. man' = [m \in DOMAIN man \cup {n} |-> IF m = n THEN "partial" ELSE man[m]] /\ UNCHANGED pend
  BY DEF CreateManifest, names
<1> USE FileStorageAssumption DEF Numbers, Repairing, Ready, names, TypeInv, FilesInv,
        HolderOK, WritingOK, SessionOK, Bounded, NewOK, SettingOK, InRepair, Valid
<1>10. FilesInv'
  BY <1>1, <1>2, <1>3, <1>5, <1>6, <1>7, <1>8, <1>9 DEF CreateManifest
<1>11. Bounded(st[p])'
  BY <1>1, <1>2, <1>3, <1>4, <1>5, <1>6 DEF CreateManifest
<1>12. NewOK(st[p])'
  BY <1>1, <1>2, <1>3, <1>4, <1>5, <1>6 DEF CreateManifest
<1>13. SettingOK(st[p])'
  BY <1>1, <1>2, <1>3, <1>4, <1>5, <1>6 DEF CreateManifest
<1>14. SessionInv'
  BY <1>1, <1>2, <1>3, <1>4, <1>11, <1>12, <1>13, WriterStep
<1> QED
  BY <1>10, <1>14

\* SetMeta begins with a whole manifest that is newer than all others.
LEMMA SetMetaStep ==
  ASSUME TypeInv, LockInv, FilesInv, SessionInv, ~ spoilt', NEW p \in Procs, SetMeta(p)
  PROVE  FilesInv' /\ SessionInv'
<1> DEFINE x == st[p]
<1> DEFINE s == [x EXCEPT !.pc = "meta", !.n = x.new, !.from = "set"]
<1>1. x \in Storage /\ HolderOK(p, x, flock, pend) /\ st \in [Procs -> Storage]
  BY Holder DEF TypeInv
<1>2. x.pc \notin {"off", "start"} /\ ~x.closed /\ ~x.ro
  BY <1>1 DEF SetMeta, Ready, Storage, HolderOK, CountersOK, WritingOK, IsOpen, Repairing
<1>3. IsOpen(x) /\ SessionOK(x)
  BY <1>2, WriterFacts
<1>4. st' = [st EXCEPT ![p] = s] /\ st'[p] = s
  BY <1>1 DEF SetMeta, Set
<1>5. s.pc = "meta" /\ s.n = x.new /\ s.from = "set" /\ s.mfd = x.mfd /\ s.new = x.new
  BY <1>1 DEF SetMeta, Storage
<1> HIDE DEF s
<1>6. x.n \in Numbers \cup {None} /\ x.mfd \in Numbers \cup {None} /\ x.new \in Numbers \cup {None}
  BY <1>1 DEF Storage
<1> USE FileStorageAssumption DEF Numbers, Repairing, Ready, names, TypeInv, FilesInv,
        HolderOK, WritingOK, SessionOK, Bounded, NewOK, SettingOK, InRepair, Valid
<1>7. FilesInv'
  BY <1>1, <1>2, <1>3, <1>5, <1>6 DEF SetMeta
<1>8. Bounded(st[p])'
  BY <1>1, <1>2, <1>3, <1>4, <1>5, <1>6 DEF SetMeta
<1>9. NewOK(st[p])'
  BY <1>1, <1>2, <1>3, <1>4, <1>5, <1>6 DEF SetMeta
<1>10. SettingOK(st[p])'
  BY <1>1, <1>2, <1>3, <1>4, <1>5, <1>6 DEF SetMeta
<1>11. SessionInv'
  BY <1>1, <1>2, <1>3, <1>4, <1>8, <1>9, <1>10, WriterStep
<1> QED
  BY <1>7, <1>11

\* setMeta looks at CURRENT.
LEMMA MetaStep ==
  ASSUME TypeInv, LockInv, FilesInv, SessionInv, ~ spoilt', NEW p \in Procs, Meta(p)
  PROVE  FilesInv' /\ SessionInv'
<1> DEFINE x == st[p]
<1> DEFINE s == [x EXCEPT !.pc = IF cur = x.n THEN "metaok" ELSE IF cur = None THEN "metapend" ELSE "metabak"]
<1>1. x \in Storage /\ HolderOK(p, x, flock, pend) /\ st \in [Procs -> Storage]
  BY Holder DEF TypeInv
<1>2. x.pc \notin {"off", "start"} /\ ~x.closed /\ ~x.ro
  BY <1>1 DEF Meta, Ready, Storage, HolderOK, CountersOK, WritingOK, IsOpen, Repairing
<1>3. IsOpen(x) /\ SessionOK(x)
  BY <1>2, WriterFacts
<1>4. st' = [st EXCEPT ![p] = s] /\ st'[p] = s
  BY <1>1 DEF Meta, Set
<1>5. s.pc = (IF cur = x.n THEN "metaok" ELSE IF cur = None THEN "metapend" ELSE "metabak")
     /\ s.n = x.n /\ s.from = x.from /\ s.mfd = x.mfd /\ s.new = x.new
  BY <1>1 DEF Meta, Storage
<1> HIDE DEF s
<1>6. x.n \in Numbers \cup {None} /\ x.mfd \in Numbers \cup {None} /\ x.new \in Numbers \cup {None}
  BY <1>1 DEF Storage
<1> USE FileStorageAssumption DEF Numbers, Repairing, Ready, names, TypeInv, FilesInv,
        HolderOK, WritingOK, SessionOK, Bounded, NewOK, SettingOK, InRepair, Valid
<1>7. FilesInv'
  BY <1>1, <1>2, <1>3, <1>5, <1>6 DEF Meta
<1>8. Bounded(st[p])'
  BY <1>1, <1>2, <1>3, <1>4, <1>5, <1>6 DEF Meta
<1>9. NewOK(st[p])'
  BY <1>1, <1>2, <1>3, <1>4, <1>5, <1>6 DEF Meta
<1>10. SettingOK(st[p])'
  BY <1>1, <1>2, <1>3, <1>4, <1>5, <1>6 DEF Meta
<1>11. SessionInv'
  BY <1>1, <1>2, <1>3, <1>4, <1>8, <1>9, <1>10, WriterStep
<1> QED
  BY <1>7, <1>11

\* The backup is never the file that counts.
LEMMA MetaBackupStep ==
  ASSUME TypeInv, LockInv, FilesInv, SessionInv, ~ spoilt', NEW p \in Procs, MetaBackup(p)
  PROVE  FilesInv' /\ SessionInv'
<1> DEFINE x == st[p]
<1> DEFINE s == [x EXCEPT !.pc = "metapend"]
<1>1. x \in Storage /\ HolderOK(p, x, flock, pend) /\ st \in [Procs -> Storage]
  BY Holder DEF TypeInv
<1>2. x.pc \notin {"off", "start"} /\ ~x.closed /\ ~x.ro
  BY <1>1 DEF MetaBackup, Ready, Storage, HolderOK, CountersOK, WritingOK, IsOpen, Repairing
<1>3. IsOpen(x) /\ SessionOK(x)
  BY <1>2, WriterFacts
<1>4. st' = [st EXCEPT ![p] = s] /\ st'[p] = s
  BY <1>1 DEF MetaBackup, Set
<1>5. s.pc = "metapend" /\ s.n = x.n /\ s.from = x.from /\ s.mfd = x.mfd /\ s.new = x.new
  BY <1>1 DEF MetaBackup, Storage
<1> HIDE DEF s
<1>6. x.n \in Numbers \cup {None} /\ x.mfd \in Numbers \cup {None} /\ x.new \in Numbers \cup {None}
  BY <1>1 DEF Storage
<1> USE FileStorageAssumption DEF Numbers, Repairing, Ready, names, TypeInv, FilesInv,
        HolderOK, WritingOK, SessionOK, Bounded, NewOK, SettingOK, InRepair, Valid
<1>7. FilesInv'
  BY <1>1, <1>2, <1>3, <1>5, <1>6 DEF MetaBackup
<1>8. Bounded(st[p])'
  BY <1>1, <1>2, <1>3, <1>4, <1>5, <1>6 DEF MetaBackup
<1>9. NewOK(st[p])'
  BY <1>1, <1>2, <1>3, <1>4, <1>5, <1>6 DEF MetaBackup
<1>10. SettingOK(st[p])'
  BY <1>1, <1>2, <1>3, <1>4, <1>5, <1>6 DEF MetaBackup
<1>11. SessionInv'
  BY <1>1, <1>2, <1>3, <1>4, <1>8, <1>9, <1>10, WriterStep
<1> QED
  BY <1>7, <1>11

\* A pending rename that is torn counts no longer.
LEMMA MetaPendStep ==
  ASSUME TypeInv, LockInv, FilesInv, SessionInv, ~ spoilt', NEW p \in Procs, MetaPend(p)
  PROVE  FilesInv' /\ SessionInv'
<1> DEFINE x == st[p]
<1> DEFINE s == [x EXCEPT !.pc = "metawrite"]
<1>1. x \in Storage /\ HolderOK(p, x, flock, pend) /\ st \in [Procs -> Storage]
  BY Holder DEF TypeInv
<1>2. x.pc \notin {"off", "start"} /\ ~x.closed /\ ~x.ro
  BY <1>1 DEF MetaPend, Ready, Storage, HolderOK, CountersOK, WritingOK, IsOpen, Repairing
<1>3. IsOpen(x) /\ SessionOK(x)
  BY <1>2, WriterFacts
<1>4. st' = [st EXCEPT ![p] = s] /\ st'[p] = s
  BY <1>1 DEF MetaPend, Set
<1>5. s.pc = "metawrite" /\ s.n = x.n /\ s.from = x.from /\ s.mfd = x.mfd /\ s.new = x.new
  BY <1>1 DEF MetaPend, Storage
<1> HIDE DEF s
<1>6. x.n \in Numbers \cup {None} /\ x.mfd \in Numbers \cup {None} /\ x.new \in Numbers \cup {None}
  BY <1>1 DEF Storage
<1> USE FileStorageAssumption DEF Numbers, Repairing, Ready, names, TypeInv, FilesInv,
        HolderOK, WritingOK, SessionOK, Bounded, NewOK, SettingOK, InRepair, Valid
<1>7. FilesInv'
  BY <1>1, <1>2, <1>3, <1>5, <1>6 DEF MetaPend
<1>8. Bounded(st[p])'
  BY <1>1, <1>2, <1>3, <1>4, <1>5, <1>6 DEF MetaPend
<1>9. NewOK(st[p])'
  BY <1>1, <1>2, <1>3, <1>4, <1>5, <1>6 DEF MetaPend
<1>10. SettingOK(st[p])'
  BY <1>1, <1>2, <1>3, <1>4, <1>5, <1>6 DEF MetaPend
<1>11. SessionInv'
  BY <1>1, <1>2, <1>3, <1>4, <1>8, <1>9, <1>10, WriterStep
<1> QED
  BY <1>7, <1>11

\* The pending rename counts from here on.
LEMMA MetaWriteStep ==
  ASSUME TypeInv, LockInv, FilesInv, SessionInv, ~ spoilt', NEW p \in Procs, MetaWrite(p)
  PROVE  FilesInv' /\ SessionInv'
<1> DEFINE x == st[p]
<1> DEFINE s == [x EXCEPT !.pc = "metarename"]
<1>1. x \in Storage /\ HolderOK(p, x, flock, pend) /\ st \in [Procs -> Storage]
  BY Holder DEF TypeInv
<1>2. x.pc \notin {"off", "start"} /\ ~x.closed /\ ~x.ro
  BY <1>1 DEF MetaWrite, Ready, Storage, HolderOK, CountersOK, WritingOK, IsOpen, Repairing
<1>3. IsOpen(x) /\ SessionOK(x)
  BY <1>2, WriterFacts
<1>4. st' = [st EXCEPT ![p] = s] /\ st'[p] = s
  BY <1>1 DEF MetaWrite, Set
<1>5. s.pc = "metarename" /\ s.n = x.n /\ s.from = x.from /\ s.mfd = x.mfd /\ s.new = x.new
  BY <1>1 DEF MetaWrite, Storage
<1> HIDE DEF s
<1>6. x.n \in Numbers \cup {None} /\ x.mfd \in Numbers \cup {None} /\ x.new \in Numbers \cup {None}
  BY <1>1 DEF Storage
<1> USE FileStorageAssumption DEF Numbers, Repairing, Ready, names, TypeInv, FilesInv,
        HolderOK, WritingOK, SessionOK, Bounded, NewOK, SettingOK, InRepair, Valid
<1>7. FilesInv'
  BY <1>1, <1>2, <1>3, <1>5, <1>6 DEF MetaWrite
<1>8. Bounded(st[p])'
  BY <1>1, <1>2, <1>3, <1>4, <1>5, <1>6 DEF MetaWrite
<1>9. NewOK(st[p])'
  BY <1>1, <1>2, <1>3, <1>4, <1>5, <1>6 DEF MetaWrite
<1>10. SettingOK(st[p])'
  BY <1>1, <1>2, <1>3, <1>4, <1>5, <1>6 DEF MetaWrite
<1>11. SessionInv'
  BY <1>1, <1>2, <1>3, <1>4, <1>8, <1>9, <1>10, WriterStep
<1> QED
  BY <1>7, <1>11

\* CURRENT changes at once.
LEMMA MetaRenameStep ==
  ASSUME TypeInv, LockInv, FilesInv, SessionInv, ~ spoilt', NEW p \in Procs, MetaRename(p)
  PROVE  FilesInv' /\ SessionInv'
<1> DEFINE x == st[p]
<1> DEFINE s == [x EXCEPT !.pc = "metasync"]
<1>1. x \in Storage /\ HolderOK(p, x, flock, pend) /\ st \in [Procs -> Storage]
  BY Holder DEF TypeInv
<1>2. x.pc \notin {"off", "start"} /\ ~x.closed /\ ~x.ro
  BY <1>1 DEF MetaRename, Ready, Storage, HolderOK, CountersOK, WritingOK, IsOpen, Repairing
<1>3. IsOpen(x) /\ SessionOK(x)
  BY <1>2, WriterFacts
<1>4. st' = [st EXCEPT ![p] = s] /\ st'[p] = s
  BY <1>1 DEF MetaRename, Set
<1>5. s.pc = "metasync" /\ s.n = x.n /\ s.from = x.from /\ s.mfd = x.mfd /\ s.new = x.new
  BY <1>1 DEF MetaRename, Storage
<1> HIDE DEF s
<1>6. x.n \in Numbers \cup {None} /\ x.mfd \in Numbers \cup {None} /\ x.new \in Numbers \cup {None}
  BY <1>1 DEF Storage
<1> USE FileStorageAssumption DEF Numbers, Repairing, Ready, names, TypeInv, FilesInv,
        HolderOK, WritingOK, SessionOK, Bounded, NewOK, SettingOK, InRepair, Valid, Restrict
<1>7. FilesInv'
  BY <1>1, <1>2, <1>3, <1>5, <1>6 DEF MetaRename
<1>8. Bounded(st[p])'
  BY <1>1, <1>2, <1>3, <1>4, <1>5, <1>6 DEF MetaRename
<1>9. NewOK(st[p])'
  BY <1>1, <1>2, <1>3, <1>4, <1>5, <1>6 DEF MetaRename
<1>10. SettingOK(st[p])'
  BY <1>1, <1>2, <1>3, <1>4, <1>5, <1>6 DEF MetaRename
<1>11. SessionInv'
  BY <1>1, <1>2, <1>3, <1>4, <1>8, <1>9, <1>10, WriterStep
<1> QED
  BY <1>7, <1>11

\* The directory is synced.
LEMMA MetaSyncStep ==
  ASSUME TypeInv, LockInv, FilesInv, SessionInv, ~ spoilt', NEW p \in Procs, MetaSync(p)
  PROVE  FilesInv' /\ SessionInv'
<1> DEFINE x == st[p]
<1> DEFINE s == [x EXCEPT !.pc = "metaok"]
<1>1. x \in Storage /\ HolderOK(p, x, flock, pend) /\ st \in [Procs -> Storage]
  BY Holder DEF TypeInv
<1>2. x.pc \notin {"off", "start"} /\ ~x.closed /\ ~x.ro
  BY <1>1 DEF MetaSync, Ready, Storage, HolderOK, CountersOK, WritingOK, IsOpen, Repairing
<1>3. IsOpen(x) /\ SessionOK(x)
  BY <1>2, WriterFacts
<1>4. st' = [st EXCEPT ![p] = s] /\ st'[p] = s
  BY <1>1 DEF MetaSync, Set
<1>5. s.pc = "metaok" /\ s.n = x.n /\ s.from = x.from /\ s.mfd = x.mfd /\ s.new = x.new
  BY <1>1 DEF MetaSync, Storage
<1> HIDE DEF s
<1>6. x.n \in Numbers \cup {None} /\ x.mfd \in Numbers \cup {None} /\ x.new \in Numbers \cup {None}
  BY <1>1 DEF Storage
<1> USE FileStorageAssumption DEF Numbers, Repairing, Ready, names, TypeInv, FilesInv,
        HolderOK, WritingOK, SessionOK, Bounded, NewOK, SettingOK, InRepair, Valid
<1>7. FilesInv'
  BY <1>1, <1>2, <1>3, <1>5, <1>6 DEF MetaSync
<1>8. Bounded(st[p])'
  BY <1>1, <1>2, <1>3, <1>4, <1>5, <1>6 DEF MetaSync
<1>9. NewOK(st[p])'
  BY <1>1, <1>2, <1>3, <1>4, <1>5, <1>6 DEF MetaSync
<1>10. SettingOK(st[p])'
  BY <1>1, <1>2, <1>3, <1>4, <1>5, <1>6 DEF MetaSync
<1>11. SessionInv'
  BY <1>1, <1>2, <1>3, <1>4, <1>8, <1>9, <1>10, WriterStep
<1> QED
  BY <1>7, <1>11

\* A failure leaves what was done so far.
LEMMA MetaFailStep ==
  ASSUME TypeInv, LockInv, FilesInv, SessionInv, ~ spoilt', NEW p \in Procs, MetaFail(p)
  PROVE  FilesInv' /\ SessionInv'
<1> DEFINE x == st[p]
<1> DEFINE s == IF x.from = "get" THEN [x EXCEPT !.pc = "up", !.mfd = x.n]
           ELSE [x EXCEPT !.pc = "metafailed"]
<1>1. x \in Storage /\ HolderOK(p, x, flock, pend) /\ st \in [Procs -> Storage]
  BY Holder DEF TypeInv
<1>2. x.pc \notin {"off", "start"} /\ ~x.closed /\ ~x.ro
  BY <1>1 DEF MetaFail, Ready, Storage, HolderOK, CountersOK, WritingOK, IsOpen, Repairing
<1>3. IsOpen(x) /\ SessionOK(x)
  BY <1>2, WriterFacts
<1>4. st' = [st EXCEPT ![p] = s] /\ st'[p] = s
  BY <1>1 DEF MetaFail, Set
<1>5. /\ s.pc = (IF x.from = "get" THEN "up" ELSE "metafailed") /\ s.n = x.n /\ s.from = x.from
     /\ s.mfd = (IF x.from = "get" THEN x.n ELSE x.mfd) /\ s.new = x.new
  BY <1>1 DEF MetaFail, Storage
<1> HIDE DEF s
<1>6. x.n \in Numbers \cup {None} /\ x.mfd \in Numbers \cup {None} /\ x.new \in Numbers \cup {None}
  BY <1>1 DEF Storage
<1> USE FileStorageAssumption DEF Numbers, Repairing, Ready, names, TypeInv, FilesInv,
        HolderOK, WritingOK, SessionOK, Bounded, NewOK, SettingOK, InRepair, Valid
<1>7. FilesInv'
  BY <1>1, <1>2, <1>3, <1>5, <1>6 DEF MetaFail
<1>8. Bounded(st[p])'
  BY <1>1, <1>2, <1>3, <1>4, <1>5, <1>6 DEF MetaFail
<1>9. NewOK(st[p])'
  BY <1>1, <1>2, <1>3, <1>4, <1>5, <1>6 DEF MetaFail
<1>10. SettingOK(st[p])'
  BY <1>1, <1>2, <1>3, <1>4, <1>5, <1>6 DEF MetaFail
<1>11. SessionInv'
  BY <1>1, <1>2, <1>3, <1>4, <1>8, <1>9, <1>10, WriterStep
<1> QED
  BY <1>7, <1>11

\* What is committed is what CURRENT says, and nothing is newer.
LEMMA MetaOkStep ==
  ASSUME TypeInv, LockInv, FilesInv, SessionInv, ~ spoilt', NEW p \in Procs, MetaOk(p)
  PROVE  FilesInv' /\ SessionInv'
<1> DEFINE x == st[p]
<1> DEFINE s == IF x.from = "get" THEN [x EXCEPT !.pc = "up", !.mfd = x.n]
           ELSE [x EXCEPT !.pc = "remove"]
<1>1. x \in Storage /\ HolderOK(p, x, flock, pend) /\ st \in [Procs -> Storage]
  BY Holder DEF TypeInv
<1>2. x.pc \notin {"off", "start"} /\ ~x.closed /\ ~x.ro
  BY <1>1 DEF MetaOk, Ready, Storage, HolderOK, CountersOK, WritingOK, IsOpen, Repairing
<1>3. IsOpen(x) /\ SessionOK(x)
  BY <1>2, WriterFacts
<1>4. st' = [st EXCEPT ![p] = s] /\ st'[p] = s
  BY <1>1 DEF MetaOk, Set
<1>5. /\ s.pc = (IF x.from = "get" THEN "up" ELSE "remove") /\ s.n = x.n /\ s.from = x.from
     /\ s.mfd = (IF x.from = "get" THEN x.n ELSE x.mfd) /\ s.new = x.new
  BY <1>1 DEF MetaOk, Storage
<1> HIDE DEF s
<1>6. x.n \in Numbers \cup {None} /\ x.mfd \in Numbers \cup {None} /\ x.new \in Numbers \cup {None}
  BY <1>1 DEF Storage
<1> USE FileStorageAssumption DEF Numbers, Repairing, Ready, names, TypeInv, FilesInv,
        HolderOK, WritingOK, SessionOK, Bounded, NewOK, SettingOK, InRepair, Valid
<1>7. FilesInv'
  BY <1>1, <1>2, <1>3, <1>5, <1>6 DEF MetaOk
<1>8. Bounded(st[p])'
  BY <1>1, <1>2, <1>3, <1>4, <1>5, <1>6 DEF MetaOk
<1>9. NewOK(st[p])'
  BY <1>1, <1>2, <1>3, <1>4, <1>5, <1>6 DEF MetaOk
<1>10. SettingOK(st[p])'
  BY <1>1, <1>2, <1>3, <1>4, <1>5, <1>6 DEF MetaOk
<1>11. SessionInv'
  BY <1>1, <1>2, <1>3, <1>4, <1>8, <1>9, <1>10, WriterStep
<1> QED
  BY <1>7, <1>11

\* The manifest before is named by no file that counts.
LEMMA RemoveOldStep ==
  ASSUME TypeInv, LockInv, FilesInv, SessionInv, ~ spoilt', NEW p \in Procs, RemoveOld(p)
  PROVE  FilesInv' /\ SessionInv'
<1> DEFINE x == st[p]
<1> DEFINE s == [x EXCEPT !.pc = "up", !.mfd = x.new, !.new = None]
<1>1. x \in Storage /\ HolderOK(p, x, flock, pend) /\ st \in [Procs -> Storage]
  BY Holder DEF TypeInv
<1>2. x.pc \notin {"off", "start"} /\ ~x.closed /\ ~x.ro
  BY <1>1 DEF RemoveOld, Ready, Storage, HolderOK, CountersOK, WritingOK, IsOpen, Repairing
<1>3. IsOpen(x) /\ SessionOK(x)
  BY <1>2, WriterFacts
<1>4. st' = [st EXCEPT ![p] = s] /\ st'[p] = s
  BY <1>1 DEF RemoveOld, Set
<1>5. s.pc = "up" /\ s.n = x.n /\ s.from = x.from /\ s.mfd = x.new /\ s.new = None
  BY <1>1 DEF RemoveOld, Storage
<1> HIDE DEF s
<1>6. x.n \in Numbers \cup {None} /\ x.mfd \in Numbers \cup {None} /\ x.new \in Numbers \cup {None}
  BY <1>1 DEF Storage
<1> USE FileStorageAssumption DEF Numbers, Repairing, Ready, names, TypeInv, FilesInv,
        HolderOK, WritingOK, SessionOK, Bounded, NewOK, SettingOK, InRepair, Valid, Restrict
<1>7. FilesInv'
  BY <1>1, <1>2, <1>3, <1>5, <1>6 DEF RemoveOld
<1>8. Bounded(st[p])'
  BY <1>1, <1>2, <1>3, <1>4, <1>5, <1>6 DEF RemoveOld
<1>9. NewOK(st[p])'
  BY <1>1, <1>2, <1>3, <1>4, <1>5, <1>6 DEF RemoveOld
<1>10. SettingOK(st[p])'
  BY <1>1, <1>2, <1>3, <1>4, <1>5, <1>6 DEF RemoveOld
<1>11. SessionInv'
  BY <1>1, <1>2, <1>3, <1>4, <1>8, <1>9, <1>10, WriterStep
<1> QED
  BY <1>7, <1>11

\* The manifest that did not become current goes.
LEMMA RemoveNewStep ==
  ASSUME TypeInv, LockInv, FilesInv, SessionInv, ~ spoilt', NEW p \in Procs, RemoveNew(p)
  PROVE  FilesInv' /\ SessionInv'
<1> DEFINE x == st[p]
<1> DEFINE s == [x EXCEPT !.pc = "up", !.new = None]
<1>1. x \in Storage /\ HolderOK(p, x, flock, pend) /\ st \in [Procs -> Storage]
  BY Holder DEF TypeInv
<1>2. x.pc \notin {"off", "start"} /\ ~x.closed /\ ~x.ro
  BY <1>1 DEF RemoveNew, Ready, Storage, HolderOK, CountersOK, WritingOK, IsOpen, Repairing
<1>3. IsOpen(x) /\ SessionOK(x)
  BY <1>2, WriterFacts
<1>4. st' = [st EXCEPT ![p] = s] /\ st'[p] = s
  BY <1>1 DEF RemoveNew, Set
<1>5. s.pc = "up" /\ s.n = x.n /\ s.from = x.from /\ s.mfd = x.mfd /\ s.new = None
  BY <1>1 DEF RemoveNew, Storage
<1> HIDE DEF s
<1>6. x.n \in Numbers \cup {None} /\ x.mfd \in Numbers \cup {None} /\ x.new \in Numbers \cup {None}
  BY <1>1 DEF Storage
<1> USE FileStorageAssumption DEF Numbers, Repairing, Ready, names, TypeInv, FilesInv,
        HolderOK, WritingOK, SessionOK, Bounded, NewOK, SettingOK, InRepair, Valid, Restrict
<1>7. FilesInv'
  BY <1>1, <1>2, <1>3, <1>5, <1>6 DEF RemoveNew
<1>8. Bounded(st[p])'
  BY <1>1, <1>2, <1>3, <1>4, <1>5, <1>6 DEF RemoveNew
<1>9. NewOK(st[p])'
  BY <1>1, <1>2, <1>3, <1>4, <1>5, <1>6 DEF RemoveNew
<1>10. SettingOK(st[p])'
  BY <1>1, <1>2, <1>3, <1>4, <1>5, <1>6 DEF RemoveNew
<1>11. SessionInv'
  BY <1>1, <1>2, <1>3, <1>4, <1>8, <1>9, <1>10, WriterStep
<1> QED
  BY <1>7, <1>11

\* GetMeta goes on with the newest manifest that a name file counts for; if
\* it was all in order, that is settled.
LEMMA GetMetaStep ==
  ASSUME TypeInv, LockInv, FilesInv, SessionInv, NEW p \in Procs, GetMeta(p)
  PROVE  FilesInv' /\ SessionInv'
<1> DEFINE x == st[p]
           r == Resolve
           repair == r /= None /\ ~x.ro /\ (cur /= r \/ pend /= << >>)
           s == IF repair THEN [x EXCEPT !.pc = "meta", !.n = r, !.from = "get"]
                ELSE [x EXCEPT !.pc = "up", !.mfd = r]
<1>1. x \in Storage /\ HolderOK(p, x, flock, pend) /\ st \in [Procs -> Storage]
  BY Holder DEF TypeInv
<1>2. x.pc = "start" /\ ~x.closed /\ x.new = None /\ IsOpen(x)
  BY <1>1 DEF GetMeta, HolderOK, IsOpen
<1>3. st' = [st EXCEPT ![p] = s] /\ st'[p] = s /\ s.ro = x.ro /\ s.new = None
  BY <1>1, <1>2 DEF GetMeta, Storage
<1>4. repair => s.pc = "meta" /\ s.n = r /\ s.from = "get"
  BY <1>1 DEF Storage
<1>5. ~repair => s.pc = "up" /\ s.mfd = r
  BY <1>1 DEF Storage
<1>6. CASE x.ro
  <2>1. UNCHANGED files /\ ~IsWriter(s)
    BY <1>3, <1>6 DEF GetMeta, files, IsWriter
  <2> HIDE DEF s
  <2> QED
    BY <1>3, <2>1, QuietStep
<1>7. CASE ~x.ro
  <2>1. /\ repair => UNCHANGED <<committed, tried>>
        /\ ~repair => committed' = r /\ tried' = {}
        /\ UNCHANGED <<names, man, fails>>
    BY <1>7 DEF GetMeta
  <2>2. committed /= None => r \in {committed} \cup tried /\ r /= None /\ r >= committed
    BY FilesAtomic
  <2>3. /\ ~repair => r = None \/ (cur = r /\ pend = << >>)
        /\ repair => r /= None
    BY <1>7
  <2>4. pend = << >> => DOMAIN pend = {}
    OBVIOUS
  <2>5. /\ r \in Numbers \cup {None}
        /\ r = None => cur = None /\ \A m \in Numbers : ~Valid(m)
        /\ r /= None => /\ \A m \in Numbers : Valid(m) \/ m = cur => m <= r
                        /\ r \in DOMAIN man /\ man[r] = "full"
    BY ResolveGreatest
  <2>6. committed /= None => r \in {committed} \cup tried
    BY <2>2
  <2> HIDE DEF s, repair, r
  <2> USE FileStorageAssumption DEF Numbers, Repairing
  <2>7. FilesInv'
    <3>1. CASE repair
      BY <2>1, <3>1 DEF names, FilesInv, Valid
    <3>2. CASE ~repair
      BY <2>1, <2>3, <2>4, <2>5, <3>2 DEF names, FilesInv, TypeInv, Valid
    <3> QED
      BY <3>1, <3>2
  <2>8. Bounded(st[p])'
    BY <1>3, <1>4, <1>5, <2>1, <2>2, <2>3, <2>4, <2>5 DEF names, FilesInv, TypeInv, Valid, Bounded, InRepair
  <2>9. NewOK(st[p])'
    BY <1>3, <1>4, <1>5 DEF NewOK
  <2>10. SettingOK(st[p])'
    BY <1>3, <1>4, <1>5, <2>1, <2>3, <2>5, <2>6 DEF names, SettingOK
  <2>11. SessionInv'
    BY <1>2, <1>3, <1>7, <2>8, <2>9, <2>10, WriterStep DEF SessionOK
  <2> QED
    BY <2>7, <2>11
<1> QED
  BY <1>6, <1>7

\* Every step keeps the whole invariant.
LEMMA InductiveStep ==
  ASSUME IInv, [Next]_vars
  PROVE  IInv'
<1>1. TypeInv /\ LockInv /\ TypeInv' /\ LockInv'
  BY TypedStep DEF IInv
<1>2. SUFFICES ASSUME ~ spoilt' PROVE FilesInv' /\ SessionInv'
  BY <1>1 DEF IInv
<1>3. FilesInv /\ SessionInv
  <2>1. ~ spoilt
    BY <1>2 DEF Next, vars, OpenStorage, CloseStorage, Lock, OpenHandle, CloseHandle, Unlock,
           GetMeta, FillManifest, SetMeta, CreateManifest, Meta, MetaBackup, MetaPend, MetaWrite,
           MetaRename, MetaSync, MetaFail, MetaOk, RemoveOld, RemoveNew, Crash
  <2> QED
    BY <2>1 DEF IInv
<1> USE <1>1, <1>2, <1>3
<1>4. CASE UNCHANGED vars
  <2>1. FilesInv'
    BY <1>4 DEF vars, FilesInv, Valid
  <2>2. SessionInv'
    BY <1>4 DEF vars, SessionInv, IsWriter, IsOpen, SessionOK, Bounded, NewOK, SettingOK, InRepair, Valid
  <2> QED
    BY <2>1, <2>2
<1>5. CASE Next
  <2>1. PICK p \in Procs :
           \/ \E ro \in BOOLEAN : OpenStorage(p, ro)
           \/ CloseStorage(p) \/ Lock(p) \/ OpenHandle(p) \/ CloseHandle(p)
           \/ \E t \in 1 .. 2 : Unlock(p, t)
           \/ GetMeta(p) \/ FillManifest(p) \/ SetMeta(p)
           \/ \E n \in Numbers : CreateManifest(p, n)
           \/ Meta(p) \/ MetaBackup(p) \/ MetaPend(p) \/ MetaWrite(p) \/ MetaRename(p)
           \/ MetaSync(p) \/ MetaFail(p) \/ MetaOk(p) \/ RemoveOld(p) \/ RemoveNew(p) \/ Crash(p)
    BY <1>5 DEF Next
  <2>2. CASE \/ \E ro \in BOOLEAN : OpenStorage(p, ro)
             \/ CloseStorage(p) \/ Lock(p) \/ OpenHandle(p) \/ CloseHandle(p) \/ Crash(p)
             \/ \E t \in 1 .. 2 : Unlock(p, t)
    BY <2>2, QuietActions
  <2>3. CASE GetMeta(p) \/ FillManifest(p) \/ SetMeta(p) \/ \E n \in Numbers : CreateManifest(p, n)
    BY <2>3, GetMetaStep, FillManifestStep, SetMetaStep, CreateManifestStep
  <2>4. CASE Meta(p) \/ MetaBackup(p) \/ MetaPend(p) \/ MetaWrite(p) \/ MetaRename(p)
    BY <2>4, MetaStep, MetaBackupStep, MetaPendStep, MetaWriteStep, MetaRenameStep
  <2>5. CASE MetaSync(p) \/ MetaFail(p) \/ MetaOk(p) \/ RemoveOld(p) \/ RemoveNew(p)
    BY <2>5, MetaSyncStep, MetaFailStep, MetaOkStep, RemoveOldStep, RemoveNewStep
  <2> QED
    BY <2>1, <2>2, <2>3, <2>4, <2>5
<1> QED
  BY <1>4, <1>5

\* The invariant holds in every state.
THEOREM Inductive == Spec => []IInv
<1>1. Init => IInv
  <2> SUFFICES ASSUME Init PROVE IInv
    OBVIOUS
  <2>1. DOMAIN pend = {} /\ \A p \in Procs : st[p].pc = "off"
    BY DEF Init, Off
  <2> QED
    BY <2>1, TypedInit DEF Init, IInv, FilesInv, SessionInv, IsWriter, IsOpen, Valid
<1>2. IInv /\ [Next]_vars => IInv'
  BY InductiveStep
<1> QED
  BY <1>1, <1>2, PTL DEF Spec

\* A database that was opened or created once is always found again, whole:
\* no crash between any two steps of setMeta, of GetMeta's repair or of the
\* removals loses the manifest, and no failure of a step, until the sync of
\* the directory fails in SetMeta, or a number that a pending rename names is
\* used again.
THEOREM MetaAtomicHolds == Spec => []MetaAtomic
<1>1. IInv => MetaAtomic
  BY FilesAtomic DEF IInv, MetaAtomic
<1> QED
  BY <1>1, Inductive, PTL

\* What is committed never goes back to an older manifest, nor to none, with
\* the same two exceptions.
MetaForward ==
    [][committed /= None /\ ~ spoilt => committed' /= None /\ committed' >= committed]_committed

\* A session that opens the directory, or settles a new manifest, goes on
\* from the newest one that was settled before it.
THEOREM MetaForwardHolds == Spec => MetaForward
<1> DEFINE Forward == committed /= None /\ ~ spoilt => committed' /= None /\ committed' >= committed
<1>1. IInv /\ [Next]_vars => [Forward]_committed
  <2> SUFFICES ASSUME IInv, Next, committed' /= committed, committed /= None, ~ spoilt
               PROVE  committed' /= None /\ committed' >= committed
    BY DEF vars
  <2>1. PICK p \in Procs : GetMeta(p) \/ MetaOk(p)
    BY DEF Next, OpenStorage, CloseStorage, Lock, OpenHandle, CloseHandle, Unlock, FillManifest,
           SetMeta, CreateManifest, Meta, MetaBackup, MetaPend, MetaWrite, MetaRename, MetaSync, MetaFail,
           RemoveOld, RemoveNew, Crash
  <2>2. CASE GetMeta(p)
    <3>1. committed' = Resolve
      BY <2>2 DEF GetMeta
    <3> QED
      BY <3>1, FilesAtomic DEF IInv
  <2>3. CASE MetaOk(p)
    <3>1. st[p] \in Storage /\ HolderOK(p, st[p], flock, pend) /\ committed' = st[p].n
      BY <2>3, Holder DEF IInv, MetaOk
    <3>2. SettingOK(st[p])
      BY <2>3, <3>1, WriterFacts DEF IInv, MetaOk, SessionOK, HolderOK, CountersOK
    <3>3. st[p].n \in {committed} \cup tried /\ st[p].n \in Numbers
      BY <2>3, <3>1, <3>2 DEF MetaOk, SettingOK, HolderOK, WritingOK
    <3> QED
      BY <3>1, <3>3, FileStorageAssumption DEF IInv, TypeInv, FilesInv, Numbers
  <2> QED
    BY <2>1, <2>2, <2>3
<1>2. IInv /\ [Next]_vars => [committed /= None /\ ~ spoilt => committed' /= None /\ committed' >= committed]_committed
  BY <1>1
<1> QED
  BY <1>2, Inductive, PTL DEF Spec, MetaForward

=============================================================================

----------------------------- MODULE FileStorage -----------------------------
(***************************************************************************)
(* The files below a goleveldb database (leveldb/storage/file_storage.go,  *)
(* file_storage_unix.go) as its session uses them: the lock file, CURRENT  *)
(* with its backup and its pending renames, the manifests it points to,    *)
(* and the counter of open files.  Processes open the same path, and die   *)
(* between any two changes of the directory.                               *)
(*                                                                         *)
(* A name file (CURRENT, CURRENT.bak, CURRENT.n) holds the number of a     *)
(* manifest, or is Torn: created or truncated, and not written.  The mutex *)
(* of a storage makes its methods exclude each other.                      *)
(***************************************************************************)
EXTENDS Integers, FiniteSets, FiniteSetsExt, Functions

CONSTANTS
    Procs,      \* processes that open the path
    MaxNum,     \* bound on the numbers of manifests
    MaxFails,   \* bound on file operations that fail
    MaxCrashes, \* bound on the crashes
    MaxOpen,    \* bound on the open files of a storage
    None, Torn

ASSUME FileStorageAssumption ==
    /\ {MaxNum, MaxFails, MaxCrashes, MaxOpen} \subseteq Nat
    /\ None \notin Procs /\ {None, Torn} \cap (1 .. MaxNum) = {} /\ None /= Torn

VARIABLES
    cur, bak,   \* CURRENT and CURRENT.bak
    pend,       \* pend[n]: CURRENT.n
    man,        \* man[n]: manifest n, "partial" or "full"
    flock,      \* the holders of the lock on LOCK: [ex, sh]
    st,         \* the storage and the session of each process
    committed,  \* history: the manifest that CURRENT was last made to name
    tried,      \* history: the ones SetMeta was called with since
    spoilt,     \* history: an error of SetMeta has had a consequence named below
    fails, crashes

names == <<cur, bak, pend>>
vars == <<cur, bak, pend, man, flock, st, committed, tried, spoilt, fails, crashes>>

Off == [pc |-> "off", ro |-> FALSE, open |-> 0, handles |-> 0, closed |-> FALSE,
        slock |-> 0, tokens |-> {}, n |-> None, from |-> None, mfd |-> None, new |-> None]

Set(p, f, x) == st' = [st EXCEPT ![p][f] = x]
Numbers == 1 .. MaxNum

-----------------------------------------------------------------------------
(* The lock file and the counters. *)

\* newFileLock, setFileLock: exclusive to write, shared to read.
CanLock(ro) == flock.ex = None /\ (ro \/ flock.sh = {})

\* OpenFile; a process that does not get the lock gets an error.
OpenStorage(p, ro) ==
    /\ st[p].pc = "off" /\ CanLock(ro)
    /\ flock' = IF ro THEN [flock EXCEPT !.sh = @ \cup {p}] ELSE [flock EXCEPT !.ex = p]
    /\ st' = [st EXCEPT ![p] = [Off EXCEPT !.pc = "start", !.ro = ro]]
    /\ UNCHANGED <<names, man, committed, tried, spoilt, fails, crashes>>

Unflocked(p) == [ex |-> IF flock.ex = p THEN None ELSE flock.ex, sh |-> flock.sh \ {p}]

\* Close releases the lock, with files still open or not; from then on the
\* methods of the storage find it closed.  It is forgotten with its last file.
CloseStorage(p) ==
    /\ st[p].pc \in {"start", "up"} /\ ~st[p].closed
    /\ flock' = Unflocked(p)
    /\ st' = IF st[p].handles = 0 THEN [st EXCEPT ![p] = Off]
             ELSE [st EXCEPT ![p].open = -1, ![p].closed = TRUE, ![p].tokens = {}]
    /\ UNCHANGED <<names, man, committed, tried, spoilt, fails, crashes>>

Ready(p) == st[p].pc = "up" /\ st[p].open >= 0

\* Lock of the storage, by tokens; a storage for reading gives out a lock
\* that locks nothing.
Lock(p) ==
    /\ Ready(p) /\ ~st[p].ro /\ st[p].slock = 0
    /\ \E t \in 1 .. 2 \ st[p].tokens :
           st' = [st EXCEPT ![p].slock = t, ![p].tokens = @ \cup {t}]
    /\ UNCHANGED <<names, man, flock, committed, tried, spoilt, fails, crashes>>

\* Mutant: Unlock does not look whose lock it is.
UnlockAny(p, t) ==
    /\ Ready(p) /\ ~st[p].ro
    /\ st' = [st EXCEPT ![p].slock = 0, ![p].tokens = @ \ {t}]
    /\ UNCHANGED <<names, man, flock, committed, tried, spoilt, fails, crashes>>

\* Unlock, which may come a second time from who has unlocked already.
Unlock(p, t) ==
    /\ Ready(p) /\ ~st[p].ro
    /\ st' = [st EXCEPT ![p].slock = IF @ = t THEN 0 ELSE @, ![p].tokens = @ \ {t}]
    /\ UNCHANGED <<names, man, flock, committed, tried, spoilt, fails, crashes>>

\* Open, or Create of a file other than a manifest; and the Close of such a
\* file, also after that of the storage.
OpenHandle(p) ==
    /\ Ready(p) /\ st[p].handles < MaxOpen
    /\ st' = [st EXCEPT ![p].open = @ + 1, ![p].handles = @ + 1]
    /\ UNCHANGED <<names, man, flock, committed, tried, spoilt, fails, crashes>>

CloseHandle(p) ==
    /\ st[p].pc \in {"start", "up"} /\ st[p].handles > 0
    /\ st' = IF st[p].closed /\ st[p].handles = 1 THEN [st EXCEPT ![p] = Off]
             ELSE [st EXCEPT ![p].open = @ - 1, ![p].handles = @ - 1]
    /\ UNCHANGED <<names, man, flock, committed, tried, spoilt, fails, crashes>>

-----------------------------------------------------------------------------
(* CURRENT. *)

\* tryCurrent: a name file counts if it is whole and its manifest exists.
Names(c) == c \notin {None, Torn} /\ c \in DOMAIN man

\* tryCurrents of the pending renames, newest first, and of CURRENT and its
\* backup; a pending rename wins only with a higher number.
Pending == {n \in DOMAIN pend : Names(pend[n])}
CurrentOrBackup == IF Names(cur) THEN cur ELSE IF Names(bak) THEN bak ELSE None

\* Mutant: a pending rename always wins.
PendingFirst == IF Pending /= {} THEN pend[Max(Pending)] ELSE CurrentOrBackup

Resolve ==
    IF Pending /= {} /\ (CurrentOrBackup = None \/ pend[Max(Pending)] > CurrentOrBackup)
    THEN pend[Max(Pending)]
    ELSE CurrentOrBackup

\* GetMeta returns it; if CURRENT is not the file that said so, or if there
\* are pending renames, it puts CURRENT in order first.  The session goes on
\* with the manifest it is told (session.recover).
GetMeta(p) ==
    /\ st[p].pc = "start" /\ ~st[p].closed
    /\ LET r == Resolve
       IN  IF r /= None /\ ~st[p].ro /\ (cur /= r \/ pend /= << >>)
           THEN /\ st' = [st EXCEPT ![p].pc = "meta", ![p].n = r, ![p].from = "get"]
                /\ UNCHANGED <<committed, tried>>
           ELSE /\ st' = [st EXCEPT ![p].pc = "up", ![p].mfd = r]
                /\ committed' = IF st[p].ro THEN committed ELSE r
                /\ tried' = IF st[p].ro THEN tried ELSE {}
    /\ UNCHANGED <<names, man, flock, spoilt, fails, crashes>>

\* The session writes a new manifest.  Its number may be one that an error of
\* SetMeta has given back (reuseFileNum), and CURRENT.n may still name it.
CreateManifest(p, n) ==
    /\ Ready(p) /\ ~st[p].ro /\ st[p].new = None
    /\ st[p].mfd /= None => n > st[p].mfd
    /\ man' = [m \in DOMAIN man \cup {n} |-> IF m = n THEN "partial" ELSE man[m]]
    /\ Set(p, "new", n)
    /\ spoilt' = (spoilt \/ (n \in DOMAIN pend /\ pend[n] /= Torn))
    /\ UNCHANGED <<names, flock, committed, tried, fails, crashes>>

FillManifest(p) ==
    /\ Ready(p) /\ st[p].new /= None /\ man[st[p].new] = "partial"
    /\ man' = [man EXCEPT ![st[p].new] = "full"]
    /\ UNCHANGED <<names, flock, st, committed, tried, spoilt, fails, crashes>>

\* and then points CURRENT to it.
SetMeta(p) ==
    /\ Ready(p) /\ st[p].new /= None /\ man[st[p].new] = "full"
    /\ st' = [st EXCEPT ![p].pc = "meta", ![p].n = st[p].new, ![p].from = "set"]
    /\ tried' = tried \cup {st[p].new}
    /\ UNCHANGED <<names, man, flock, committed, spoilt, fails, crashes>>

\* setMeta.  A CURRENT that says it already is left alone; else it is copied
\* to the backup,
Meta(p) ==
    /\ st[p].pc = "meta"
    /\ IF cur = st[p].n THEN Set(p, "pc", "metaok") /\ UNCHANGED bak
       ELSE IF cur = None THEN Set(p, "pc", "metapend") /\ UNCHANGED bak
       ELSE Set(p, "pc", "metabak") /\ bak' = Torn
    /\ UNCHANGED <<cur, pend, man, flock, committed, tried, spoilt, fails, crashes>>
MetaBackup(p) ==
    /\ st[p].pc = "metabak"
    /\ bak' = cur
    /\ Set(p, "pc", "metapend")
    /\ UNCHANGED <<cur, pend, man, flock, committed, tried, spoilt, fails, crashes>>

\* then CURRENT.n is written
MetaPend(p) ==
    /\ st[p].pc = "metapend"
    /\ pend' = [m \in DOMAIN pend \cup {st[p].n} |-> IF m = st[p].n THEN Torn ELSE pend[m]]
    /\ Set(p, "pc", "metawrite")
    /\ UNCHANGED <<cur, bak, man, flock, committed, tried, spoilt, fails, crashes>>
MetaWrite(p) ==
    /\ st[p].pc = "metawrite"
    /\ pend' = [pend EXCEPT ![st[p].n] = st[p].n]
    /\ Set(p, "pc", "metarename")
    /\ UNCHANGED <<cur, bak, man, flock, committed, tried, spoilt, fails, crashes>>

\* and renamed, and the directory is synced.
MetaRename(p) ==
    /\ st[p].pc = "metarename"
    /\ cur' = pend[st[p].n]
    /\ pend' = Restrict(pend, DOMAIN pend \ {st[p].n})
    /\ Set(p, "pc", "metasync")
    /\ UNCHANGED <<bak, man, flock, committed, tried, spoilt, fails, crashes>>

MetaSync(p) ==
    /\ st[p].pc = "metasync"
    /\ Set(p, "pc", "metaok")
    /\ UNCHANGED <<names, man, flock, committed, tried, spoilt, fails, crashes>>

\* A step fails: SetMeta returns the error, also when it is the sync that fails
\* and CURRENT has been replaced already; GetMeta goes on without.
MetaFail(p) ==
    /\ st[p].pc \in {"meta", "metabak", "metapend", "metawrite", "metarename", "metasync"}
    /\ fails < MaxFails /\ fails' = fails + 1
    /\ st' = IF st[p].from = "get" THEN [st EXCEPT ![p].pc = "up", ![p].mfd = st[p].n]
                                     ELSE [st EXCEPT ![p].pc = "metafailed"]
    /\ spoilt' = (spoilt \/ (st[p].pc = "metasync" /\ st[p].from = "set"))
    /\ UNCHANGED <<names, man, flock, committed, tried, crashes>>

\* GetMeta removes the pending renames; SetMeta is done and the session
\* removes the manifest before.
MetaOk(p) ==
    /\ st[p].pc = "metaok"
    /\ IF st[p].from = "get"
       THEN /\ pend' = << >>
            /\ st' = [st EXCEPT ![p].pc = "up", ![p].mfd = st[p].n]
       ELSE /\ st' = [st EXCEPT ![p].pc = "remove"]
            /\ UNCHANGED pend
    /\ committed' = st[p].n
    /\ tried' = {}
    /\ UNCHANGED <<cur, bak, man, flock, spoilt, fails, crashes>>

RemoveOld(p) ==
    /\ st[p].pc = "remove"
    /\ man' = Restrict(man, DOMAIN man \ {st[p].mfd})
    /\ st' = [st EXCEPT ![p].pc = "up", ![p].mfd = st[p].new, ![p].new = None]
    /\ UNCHANGED <<names, flock, committed, tried, spoilt, fails, crashes>>

\* After a failure it removes the new one.
RemoveNew(p) ==
    /\ st[p].pc = "metafailed"
    /\ man' = Restrict(man, DOMAIN man \ {st[p].new})
    /\ st' = [st EXCEPT ![p].pc = "up", ![p].new = None]
    /\ UNCHANGED <<names, flock, committed, tried, spoilt, fails, crashes>>

\* A process dies, and its locks with it.
Crash(p) ==
    /\ st[p].pc /= "off" /\ crashes < MaxCrashes
    /\ crashes' = crashes + 1
    /\ st' = [st EXCEPT ![p] = Off]
    /\ flock' = Unflocked(p)
    /\ UNCHANGED <<names, man, committed, tried, spoilt, fails>>

-----------------------------------------------------------------------------

Init ==
    /\ cur = None /\ bak = None /\ pend = << >> /\ man = << >>
    /\ flock = [ex |-> None, sh |-> {}]
    /\ st = [p \in Procs |-> Off]
    /\ committed = None /\ tried = {} /\ spoilt = FALSE /\ fails = 0 /\ crashes = 0

Next ==
    \E p \in Procs :
        \/ \E ro \in BOOLEAN : OpenStorage(p, ro)
        \/ CloseStorage(p) \/ Lock(p) \/ OpenHandle(p) \/ CloseHandle(p)
        \/ \E t \in 1 .. 2 : Unlock(p, t)
        \/ GetMeta(p) \/ FillManifest(p) \/ SetMeta(p)
        \/ \E n \in Numbers : CreateManifest(p, n)
        \/ Meta(p) \/ MetaBackup(p) \/ MetaPend(p) \/ MetaWrite(p) \/ MetaRename(p)
        \/ MetaSync(p) \/ MetaFail(p) \/ MetaOk(p) \/ RemoveOld(p) \/ RemoveNew(p) \/ Crash(p)

Spec == Init /\ [][Next]_vars

-----------------------------------------------------------------------------
(* Properties. *)

\* What the next GetMeta finds is a whole manifest: the one that the last
\* SetMeta or GetMeta settled, or the one that a SetMeta since then, which
\* was interrupted or failed, was called with.  No crash between two steps
\* of setMeta, of GetMeta's repair or of the removals loses it, nor does a
\* failure, except that of the directory's sync after CURRENT was replaced,
\* and one after which the session takes the number of a manifest again that
\* a pending rename still names.  ("changes should happen atomically":
\* storage.go, Storage.SetMeta)
MetaAtomic ==
    committed /= None /\ ~ spoilt =>
        /\ Resolve \in {committed} \cup tried
        /\ man[Resolve] = "full"

\* One process at most has the storage open to write, and then nobody else
\* has it open; and in a process the storage lock has one holder at most,
\* whatever Unlocks come late.  (newFileLock, setFileLock,
\* fileStorageLock.Unlock)
LocksExclusive ==
    /\ \A p, q \in Procs :
          p /= q /\ {st[p].pc, st[q].pc} \cap {"off"} = {} /\ ~st[p].closed /\ ~st[q].closed
              => st[p].ro /\ st[q].ro
    /\ \A p \in Procs : Cardinality(st[p].tokens) <= 1

=============================================================================

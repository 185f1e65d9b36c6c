------------------------------- MODULE KvStore -------------------------------
(***************************************************************************)
(* What a goleveldb database promises to its clients (the comments of      *)
(* DB.Write, DB.Get, DB.GetSnapshot in leveldb/db.go and db_write.go, and  *)
(* of WriteOptions.Sync in opt/options.go): a write takes effect as a      *)
(* whole and in one instant; a reader sees the contents of the moment at   *)
(* which it took its snapshot, whatever is written, flushed or compacted   *)
(* meanwhile; and a crash of the process loses nothing that was written.   *)
(***************************************************************************)
CONSTANTS
    Key,        \* the keys
    Val,        \* the values; 0 stands for a key that is not there
    None        \* nothing

\* A write as its effect: the keys it changes and what they become.
Effect == UNION {[K -> Val] : K \in SUBSET Key}

Apply(c, f) == [k \in Key |-> IF k \in DOMAIN f THEN f[k] ELSE c[k]]

VARIABLES
    kv,         \* what the database holds: what it would hold after a crash
    seen,       \* what a reader that arrives now sees
    pend,       \* the write that a client is waiting for, or None
    snap,       \* what the reader has to see, or None
    ret         \* the key and the value that the reader was given, or None

vars == <<pend, snap, ret, kv, seen>>

Init ==
    /\ kv = [k \in Key |-> 0]
    /\ seen = kv
    /\ pend = None
    /\ snap = None
    /\ ret = None

\* A client calls a write.
Call == pend = None /\ pend' \in Effect /\ UNCHANGED <<snap, ret, kv, seen>>

\* The write happens, once: its effect is never taken back.
Write == pend /= None /\ pend' = None /\ kv' = Apply(kv, pend) /\ UNCHANGED <<snap, ret, seen>>

\* Readers see it.
Publish == UNCHANGED <<pend, snap, ret>> /\ seen /= kv /\ seen' = kv /\ UNCHANGED kv

\* A reader takes a snapshot, reads from it, and lets it go.
Begin == snap = None /\ snap' /= None /\ snap' = seen /\ UNCHANGED <<pend, ret, kv, seen>>
Read ==
    /\ snap /= None /\ ret' /= ret
    /\ \E k \in Key : ret' = <<k, snap[k]>>
    /\ UNCHANGED <<pend, snap, kv, seen>>
End == snap /= None /\ snap' = None /\ ret' = None /\ UNCHANGED <<pend, kv, seen>>

\* The process dies: a write that has not happened never will.
Crash ==
    /\ pend' = None /\ snap' = None /\ ret' = None
    /\ kv' = kv /\ seen' = kv

Next == Crash \/ Call \/ Write \/ Publish \/ Begin \/ Read \/ End

Spec == Init /\ [][Next]_vars

=============================================================================

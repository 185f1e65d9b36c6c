-------------------------------- MODULE Cache --------------------------------
(***************************************************************************)
(* The cache of open tables and of blocks (leveldb/cache/cache.go and      *)
(* lru.go): a hash table that is resized while it is used, nodes with      *)
(* reference counts, and an LRU list that holds handles of its own.        *)
(*                                                                         *)
(* A step is what one goroutine does between two operations on shared      *)
(* memory: a section under the mutex of a bucket, of a node or of the LRU  *)
(* list, or an atomic operation.  The hash of a key is the key.  A value   *)
(* has size 1, as an open table has; OnDel functions are numbered.         *)
(***************************************************************************)
EXTENDS Integers, Sequences, FiniteSets, SequencesExt

CONSTANTS
    Threads, Keys,
    NS,             \* NS[k]: the namespace of key k
    Ops,            \* the operations that this instance has
    Capacity,       \* capacity of the LRU list at the start
    InitialSize,    \* mInitialSize
    Overflow,       \* mOverflowThreshold
    OverflowGrow,   \* mOverflowGrowThreshold
    MaxCalls,       \* bound on the calls
    MaxNodes,       \* enough for the nodes in use at one time
    MaxHandles,     \* enough for the handles that the LRU list has at one time
    MaxTables,      \* bound on the hash tables: the first and those of resizings
    Allow,          \* "closeWaits": Close may have to wait for readers
    None

AllOps == {"get", "peek", "delete", "evict", "evictns", "evictall", "capacity", "close", "closeweak"}

ASSUME CacheAssumption ==
    /\ Keys \subseteq Nat /\ DOMAIN NS = Keys /\ Ops \subseteq AllOps
    /\ IsFiniteSet(Threads) /\ Threads \cap Nat = {} /\ None \notin Threads \cup Nat \cup AllOps \cup {"in", "ban"}
    /\ {InitialSize, Overflow, OverflowGrow, MaxTables} \subseteq Nat \ {0}
    /\ {Capacity, MaxCalls, MaxNodes, MaxHandles} \subseteq Nat
    /\ Allow \subseteq {"closeWaits"}

VARIABLES
    tabs,       \* the hash tables, oldest first; the last one is mHead
    bg,         \* bg[x]: the goroutine that runs initBuckets of table x
    node,       \* the nodes
    hnd,        \* hnd[h]: the node of handle h; 0: none, or it was released
                \* (h in Threads: of the one that Get has returned to h)
    lru,        \* the list, most recent first; n = 0: the node is gone
    capacity, used,
    nodes,      \* Cache.nodes
    mu,         \* Cache.mu
    closed,     \* "no", "close" or "weak"
    th,         \* the goroutines that use the cache
    calls,
    asked, ran  \* history: how many OnDel functions Delete was given; those called

tabVars == <<tabs, bg, nodes>>
lruVars == <<hnd, lru, capacity, used>>
vars == <<tabs, bg, node, hnd, lru, capacity, used, nodes, mu, closed, th, calls, asked, ran>>

Free == [key |-> None, ref |-> 0, value |-> FALSE, mu |-> None, onDel |-> {}, cd |-> None]
Node == 1 .. MaxNodes
Listed == 1 .. MaxHandles
Handle == Threads \cup Listed
Idle == [pc |-> "idle", op |-> None, key |-> None, tab |-> 0, blen |-> 0, stack |-> <<>>,
         n |-> 0, dk |-> None, rel |-> <<>>, then |-> None, inner |-> FALSE]
NoInit == [on |-> FALSE, i |-> 0, stack |-> <<>>]

mHead == Len(tabs)
Nil == [set |-> FALSE, nodes |-> {}, frozen |-> FALSE]
Bucket(S) == [set |-> TRUE, nodes |-> S, frozen |-> FALSE]
Table(len, pred) ==
    [len |-> len, pred |-> pred, resizing |-> FALSE, overflow |-> 0,
     buckets |-> [i \in 0 .. len - 1 |-> IF pred = 0 THEN Bucket({}) ELSE Nil]]

To(t, p) == th' = [th EXCEPT ![t].pc = p]

-----------------------------------------------------------------------------
(* Resizing: mBucket.freeze, mNode.initBucket, initBuckets. *)

\* The buckets of the table before that bucket i of table x is made from.
Sources(x, i) ==
    LET p == tabs[x].pred
    IN  IF tabs[x].len > tabs[p].len THEN {i % tabs[p].len} ELSE {i, i + tabs[x].len}

\* initBucket, with its calls of itself on a stack: a bucket of the table
\* before that is missing is initialised first, then the buckets are frozen
\* one by one, then the new one is put in place.
InitBucket(x, i) ==
    LET p == tabs[x].pred
        missing == {j \in Sources(x, i) : ~tabs[p].buckets[j].set}
        warm == {j \in Sources(x, i) : ~tabs[p].buckets[j].frozen}
        mine == {n \in UNION {tabs[p].buckets[j].nodes : j \in Sources(x, i)} : node[n].key % tabs[x].len = i}
        over == IF Cardinality(mine) > Overflow THEN Cardinality(mine) - Overflow ELSE 0
    IN  IF tabs[x].buckets[i].set \/ p = 0
        THEN [pop |-> TRUE, push |-> <<>>, tabs |-> tabs]
        ELSE IF missing /= {}
        THEN [pop |-> FALSE, push |-> <<<<p, CHOOSE j \in missing : TRUE>>>>, tabs |-> tabs]
        ELSE IF warm /= {}
        THEN [pop |-> FALSE, push |-> <<>>,
              tabs |-> [tabs EXCEPT ![p].buckets[CHOOSE j \in warm : \A k \in warm : j <= k].frozen = TRUE]]
        ELSE [pop |-> TRUE, push |-> <<>>,
              tabs |-> [tabs EXCEPT ![x].buckets[i] = Bucket(mine), ![x].overflow = @ + over]]

\* initBuckets, which runs on its own: bucket after bucket, then the table
\* before is let go.  (Nobody looks into its buckets again: they are emptied.)
Popped(stack, r) == r.push \o (IF r.pop THEN Tail(stack) ELSE stack)
Background(x) ==
    /\ bg[x].on
    /\ IF bg[x].i < tabs[x].len
       THEN LET stack == IF bg[x].stack = <<>> THEN <<<<x, bg[x].i>>>> ELSE bg[x].stack
                r == InitBucket(stack[1][1], stack[1][2])
                rest == Popped(stack, r)
            IN  /\ tabs' = r.tabs
                /\ bg' = [bg EXCEPT ![x].stack = rest, ![x].i = IF rest = <<>> THEN @ + 1 ELSE @]
       ELSE /\ bg' = [bg EXCEPT ![x] = NoInit]
            /\ tabs' = [tabs EXCEPT ![x].pred = 0,
                                    ![x - 1].buckets = [i \in DOMAIN @ |-> [Bucket({}) EXCEPT !.frozen = TRUE]]]
    /\ UNCHANGED <<node, lruVars, nodes, mu, closed, th, calls, asked, ran>>

InitStepOf(t) ==
    /\ th[t].stack /= <<>>
    /\ LET r == InitBucket(th[t].stack[1][1], th[t].stack[1][2])
       IN  /\ tabs' = r.tabs
           /\ th' = [th EXCEPT ![t].stack = Popped(@, r)]
    /\ UNCHANGED <<bg, node, lruVars, nodes, mu, closed, calls, asked, ran>>

\* The table grows or shrinks to len buckets if nobody has begun that.
Resized(x, T, want, len) ==
    IF want /\ ~T[x].resizing /\ Len(T) < MaxTables
    THEN Append([T EXCEPT ![x].resizing = TRUE], Table(len, x))
    ELSE T
Started(T) == [x \in DOMAIN bg |-> IF x \in DOMAIN T \ DOMAIN tabs THEN [NoInit EXCEPT !.on = TRUE] ELSE bg[x]]

-----------------------------------------------------------------------------
(* Calls. *)

CanRLock == mu.writer = None /\ mu.waiting = None
RLocked(t) == [mu EXCEPT !.readers[t] = @ + 1]
RUnlocked(t) == [mu EXCEPT !.readers[t] = @ - 1]

\* Get, Get without setFunc, Delete, Evict, EvictNS, EvictAll: the read lock,
\* and nothing more if the cache is closed.
Keyed == {"get", "peek", "delete", "evict"}
Call(t, o, k) ==
    /\ th[t].pc = "idle" /\ calls < MaxCalls /\ CanRLock
    /\ o \in Ops \ {"capacity", "close", "closeweak"}
    /\ o \in {"get", "peek"} => hnd[t] = 0
    /\ calls' = calls + 1
    /\ IF closed = "no"
       THEN /\ mu' = RLocked(t)
            /\ th' = [th EXCEPT ![t] = [Idle EXCEPT !.pc = IF o \in Keyed THEN "bucket" ELSE "lru", !.op = o, !.key = IF o = "evictall" THEN None ELSE k]]
       ELSE UNCHANGED <<mu, th>>
    /\ UNCHANGED <<tabVars, node, lruVars, closed, asked, ran>>

\* RUnlock and return.
Return(t) == th' = [th EXCEPT ![t] = Idle] /\ mu' = RUnlocked(t)

\* getBucket
BucketOf(k) == <<mHead, k % tabs[mHead].len>>
GetBucket(t) ==
    /\ th[t].pc \in {"bucket", "dbucket"}
    /\ LET b == BucketOf(IF th[t].pc = "bucket" THEN th[t].key ELSE th[t].dk)
       IN  th' = [th EXCEPT ![t].tab = b[1], ![t].pc = IF @ = "bucket" THEN "get" ELSE "delete",
                            ![t].stack = IF tabs[b[1]].buckets[b[2]].set THEN <<>> ELSE <<b>>]
    /\ UNCHANGED <<tabVars, node, lruVars, mu, closed, calls, asked, ran>>

\* Mutant: a node without references is passed over.
FoundHeld(b, k) == {n \in b.nodes : node[n].key = k /\ node[n].ref > 0}

Found(b, k) == {n \in b.nodes : node[n].key = k}

\* The first node that is free.
IsNew(n) == node[n] = Free /\ \A m \in 1 .. n - 1 : node[m] /= Free

\* mBucket.get: a reference to the node, or a new node, or nothing; a frozen
\* bucket sends the caller to the new table.
Lookup(t) ==
    LET k == th[t].key
        x == th[t].tab
        i == k % tabs[x].len
        b == tabs[x].buckets[i]
        found == Found(b, k)
    IN  /\ th[t].pc = "get" /\ th[t].stack = <<>>
        /\ IF b.frozen
           THEN To(t, "bucket") /\ UNCHANGED <<tabs, node, mu, asked, ran>>
           ELSE IF found /= {}
           THEN \E n \in found :
                    /\ node' = [node EXCEPT ![n].ref = @ + 1]
                    /\ th' = [th EXCEPT ![t].n = n, ![t].pc = IF th[t].op \in {"get", "peek"} THEN "value" ELSE "found"]
                    /\ UNCHANGED <<tabs, mu, asked, ran>>
           ELSE IF th[t].op = "get"
           THEN \E n \in Node :
                    /\ IsNew(n)
                    /\ node' = [node EXCEPT ![n] = [Free EXCEPT !.key = k, !.ref = 1]]
                    /\ tabs' = [tabs EXCEPT ![x].buckets[i].nodes = @ \cup {n}]
                    /\ th' = [th EXCEPT ![t].n = n, ![t].pc = "grow", ![t].blen = Cardinality(b.nodes) + 1]
                    /\ UNCHANGED <<mu, asked, ran>>
           ELSE /\ Return(t)
                /\ asked' = IF th[t].op = "delete" THEN asked + 1 ELSE asked
                /\ ran' = IF th[t].op = "delete" THEN ran \cup {asked + 1} ELSE ran
                /\ UNCHANGED <<tabs, node>>
        /\ UNCHANGED <<bg, nodes, lruVars, closed, calls>>

\* The end of mBucket.get after a new node: counters, and a larger table.
Grow(t) ==
    LET x == th[t].tab
        over == tabs[x].overflow + (IF th[t].blen > Overflow THEN 1 ELSE 0)
        grow == nodes + 1 >= tabs[x].len * Overflow \/ (th[t].blen > Overflow /\ over >= OverflowGrow)
    IN  /\ th[t].pc = "grow"
        /\ nodes' = nodes + 1
        /\ tabs' = Resized(x, [tabs EXCEPT ![x].overflow = over], grow, tabs[x].len * 2)
        /\ bg' = Started(tabs')
        /\ To(t, "value")
        /\ UNCHANGED <<node, lruVars, mu, closed, calls, asked, ran>>

\* Get under the mutex of the node: the value is there, or setFunc makes it,
\* or setFunc fails.
Value(t) ==
    LET n == th[t].n
    IN  /\ th[t].pc = "value" /\ node[n].mu = None
        /\ IF node[n].value THEN To(t, "promote") /\ UNCHANGED node
           ELSE IF th[t].op = "peek" THEN To(t, "unref") /\ UNCHANGED node
           ELSE To(t, "set") /\ node' = [node EXCEPT ![n].mu = t]
        /\ UNCHANGED <<tabVars, lruVars, mu, closed, calls, asked, ran>>

SetFunc(t, ok) ==
    LET n == th[t].n
    IN  /\ th[t].pc = "set"
        /\ node' = [node EXCEPT ![n].mu = None, ![n].value = ok]
        /\ To(t, IF ok THEN "promote" ELSE "unref")
        /\ UNCHANGED <<tabVars, lruVars, mu, closed, calls, asked, ran>>

-----------------------------------------------------------------------------
(* The LRU list. *)

\* The first handle that neither the list nor a goroutine has.
InUse == {h \in Listed : hnd[h] /= 0} \cup {lru[i].h : i \in DOMAIN lru}
         \cup UNION {ToSet(th[t].rel) : t \in Threads}
IsNewHandle(h) == h \notin InUse /\ 1 .. h - 1 \subseteq InUse

First(n) == CHOOSE i \in DOMAIN lru : lru[i].n = n /\ \A j \in 1 .. i - 1 : lru[j].n /= n

\* The nodes of entries E leave the list: their handles are to be released.
Uncached(N, E) == [n \in DOMAIN N |-> IF \E e \in ToSet(E) : e.n = n THEN [N[n] EXCEPT !.cd = None] ELSE N[n]]

\* Mutant: the handles of what leaves the list are forgotten.
HeldNone(E) == <<>>

Held(E) == [i \in DOMAIN E |-> E[Len(E) + 1 - i].h]
Shrunk(E, c) == IF Len(E) > c THEN SubSeq(E, 1, c) ELSE E
Rest(E, c) == IF Len(E) > c THEN SubSeq(E, c + 1, Len(E)) ELSE <<>>

Releasing(t, ns, then) ==
    th' = [th EXCEPT ![t] = IF ns = <<>> /\ then = "idle" THEN Idle
                            ELSE [@ EXCEPT !.pc = IF ns = <<>> THEN then ELSE "release", !.rel = ns, !.then = then]]

\* lru.Promote
Promote(t) ==
    LET n == th[t].n
        list(h) == <<[n |-> n, h |-> h, key |-> node[n].key]>> \o lru
    IN  /\ th[t].pc = "promote"
        /\ IF node[n].cd = None /\ capacity > 0
           THEN \E h \in Listed :
                    /\ IsNewHandle(h)
                    /\ hnd' = [hnd EXCEPT ![h] = n]
                    /\ lru' = Shrunk(list(h), capacity)
                    /\ used' = used + 1 - Len(Rest(list(h), capacity))
                    /\ node' = Uncached([node EXCEPT ![n].ref = @ + 1, ![n].cd = "in"], Rest(list(h), capacity))
                    /\ Releasing(t, Held(Rest(list(h), capacity)), "handle")
           ELSE /\ lru' = IF node[n].cd = "in" THEN <<lru[First(n)]>> \o RemoveAt(lru, First(n)) ELSE lru
                /\ Releasing(t, <<>>, "handle")
                /\ UNCHANGED <<used, node, hnd>>
        /\ UNCHANGED <<tabVars, capacity, mu, closed, calls, asked, ran>>

\* The end of Get, and that of EvictNS and EvictAll.
End(t) ==
    /\ th[t].pc \in {"handle", "return"}
    /\ hnd' = IF th[t].pc = "handle" THEN [hnd EXCEPT ![t] = th[t].n] ELSE hnd
    /\ Return(t)
    /\ UNCHANGED <<tabVars, node, lru, capacity, used, closed, calls, asked, ran>>

\* Mutant: an OnDel function replaces the one before.
OnDelReplaced(t) ==
    /\ th[t].pc = "found" /\ th[t].op = "delete" /\ node[th[t].n].mu = None
    /\ node' = [node EXCEPT ![th[t].n].onDel = {asked + 1}]
    /\ asked' = asked + 1
    /\ To(t, "ban")
    /\ UNCHANGED <<tabVars, lruVars, mu, closed, calls, ran>>

\* Delete notes the OnDel function; lru.Ban.
OnDel(t) ==
    /\ th[t].pc = "found" /\ th[t].op = "delete" /\ node[th[t].n].mu = None
    /\ node' = [node EXCEPT ![th[t].n].onDel = @ \cup {asked + 1}]
    /\ asked' = asked + 1
    /\ To(t, "ban")
    /\ UNCHANGED <<tabVars, lruVars, mu, closed, calls, ran>>
Ban(t) ==
    LET n == th[t].n
    IN  /\ th[t].pc = "ban"
        /\ node' = [node EXCEPT ![n].cd = "ban"]
        /\ IF node[n].cd = "in"
           THEN /\ lru' = RemoveAt(lru, First(n))
                /\ used' = used - 1
                /\ Releasing(t, <<lru[First(n)].h>>, "unref")
           ELSE To(t, "unref") /\ UNCHANGED <<lru, used>>
        /\ UNCHANGED <<tabVars, hnd, capacity, mu, closed, calls, asked, ran>>

\* lru.Evict leaves its entry in the list, and releases its handle.
Evict(t) ==
    LET n == th[t].n
    IN  /\ th[t].pc = "found" /\ th[t].op = "evict"
        /\ IF node[n].cd = "in"
           THEN /\ node' = [node EXCEPT ![n].cd = None]
                /\ Releasing(t, <<lru[First(n)].h>>, "unref")
           ELSE To(t, "unref") /\ UNCHANGED node
        /\ UNCHANGED <<tabVars, lruVars, mu, closed, calls, asked, ran>>

\* The entries at the places I, in their order.
Pick(s, I) ==
    LET n == Cardinality(I)
        at == CHOOSE f \in [1 .. n -> I] : \A i, j \in 1 .. n : i < j => f[i] < f[j]
    IN  [i \in 1 .. n |-> s[at[i]]]

\* lru.EvictNS, lru.EvictAll, also at the end of CloseWeak.
EvictMany(t) ==
    LET out(e) == th[t].op = "evictns" => NS[e.key] = NS[th[t].key]
        I == {i \in DOMAIN lru : out(lru[i])}
        gone == Pick(lru, I)
    IN  /\ th[t].pc = "lru"
        /\ lru' = Pick(lru, DOMAIN lru \ I)
        /\ used' = IF th[t].op = "evictns" THEN used - Len(gone) ELSE 0
        /\ node' = Uncached(node, gone)
        /\ Releasing(t, Held(gone), IF th[t].op = "closeweak" THEN "idle" ELSE "return")
        /\ UNCHANGED <<tabVars, hnd, capacity, mu, closed, calls, asked, ran>>

SetCapacity(t, c) ==
    /\ th[t].pc = "idle" /\ "capacity" \in Ops /\ calls < MaxCalls /\ c /= capacity
    /\ calls' = calls + 1
    /\ capacity' = c
    /\ lru' = Shrunk(lru, c)
    /\ used' = used - Len(Rest(lru, c))
    /\ node' = Uncached(node, Rest(lru, c))
    /\ Releasing(t, Held(Rest(lru, c)), "idle")
    /\ UNCHANGED <<tabVars, hnd, mu, closed, asked, ran>>

-----------------------------------------------------------------------------
(* Release: Handle.Release, unref, unrefLocked, Cache.delete. *)

ReleaseHandle(t) ==
    /\ th[t].pc = "idle" /\ hnd[t] /= 0
    /\ Releasing(t, <<t>>, "idle")
    /\ UNCHANGED <<tabVars, node, lruVars, mu, closed, calls, asked, ran>>

\* Handle.Release of the next handle, which does nothing the second time;
\* unrefLocked: the last reference deletes the node.
Release(t) ==
    LET h == th[t].rel[1]
        n == hnd[h]
        next == Releasing(t, Tail(th[t].rel), th[t].then)
    IN  /\ th[t].pc = "release"
        /\ IF n = 0
           THEN next /\ UNCHANGED <<hnd, node>>
           ELSE /\ hnd' = [hnd EXCEPT ![h] = 0]
                /\ node' = [node EXCEPT ![n].ref = @ - 1]
                /\ IF node[n].ref = 1
                   THEN th' = [th EXCEPT ![t].pc = "rlock", ![t].dk = node[n].key]
                   ELSE next
        /\ UNCHANGED <<tabVars, lru, capacity, used, mu, closed, calls, asked, ran>>
RLock(t) ==
    /\ th[t].pc = "rlock" /\ CanRLock
    /\ IF closed = "no"
       THEN /\ mu' = RLocked(t)
            /\ th' = [th EXCEPT ![t].pc = "dbucket", ![t].inner = TRUE]
       ELSE Releasing(t, Tail(th[t].rel), th[t].then) /\ UNCHANGED mu
    /\ UNCHANGED <<tabVars, node, lruVars, closed, calls, asked, ran>>

\* unref, at the end of a call.
Unref(t) ==
    LET n == th[t].n
    IN  /\ th[t].pc = "unref"
        /\ node' = [node EXCEPT ![n].ref = @ - 1]
        /\ IF node[n].ref = 1
           THEN th' = [th EXCEPT ![t].pc = "dbucket", ![t].dk = node[n].key] /\ UNCHANGED mu
           ELSE Return(t)
        /\ UNCHANGED <<tabVars, lruVars, closed, calls, asked, ran>>

EndDelete(t) ==
    IF th[t].inner
    THEN /\ LET rel == Tail(th[t].rel)
                go == IF rel = <<>> THEN th[t].then ELSE "release"
            IN  th' = [th EXCEPT ![t] = IF go = "idle" THEN Idle
                                        ELSE [@ EXCEPT !.pc = go, !.rel = rel, !.inner = FALSE, !.dk = None]]
         /\ mu' = RUnlocked(t)
    ELSE Return(t)

\* The tables without node n.  (Those before the one it is deleted from have
\* it in a frozen bucket that nobody takes it from again.)
Without(n) ==
    [x \in DOMAIN tabs |->
        [tabs[x] EXCEPT !.buckets = [i \in DOMAIN tabs[x].buckets |-> [tabs[x].buckets[i] EXCEPT !.nodes = @ \ {n}]]]]

\* Mutant: the reference count is not looked at again.
DeadUnchecked(b, k) == {n \in b.nodes : node[n].key = k}

Dead(b, k) == {n \in b.nodes : node[n].key = k /\ node[n].ref = 0}

\* mBucket.delete: the node of the key, if nobody has got a reference since.
Delete(t) ==
    LET k == th[t].dk
        x == th[t].tab
        i == k % tabs[x].len
        b == tabs[x].buckets[i]
        dead == Dead(b, k)
    IN  /\ th[t].pc = "delete" /\ th[t].stack = <<>>
        /\ IF b.frozen
           THEN To(t, "dbucket") /\ UNCHANGED <<tabs, node, lru, mu>>
           ELSE IF dead = {} THEN EndDelete(t) /\ UNCHANGED <<tabs, node, lru>>
           ELSE \E n \in dead :
                    /\ node' = [node EXCEPT ![n].value = FALSE]
                    /\ tabs' = Without(n)
                    /\ lru' = [j \in DOMAIN lru |-> IF lru[j].n = n THEN [lru[j] EXCEPT !.n = 0] ELSE lru[j]]
                    /\ th' = [th EXCEPT ![t].pc = "deleted", ![t].dk = n, ![t].blen = Cardinality(b.nodes) - 1]
                    /\ UNCHANGED mu
        /\ UNCHANGED <<bg, nodes, hnd, capacity, used, closed, calls, asked, ran>>

\* The rest of mBucket.delete: OnDel, counters, and a smaller table.
Deleted(t) ==
    LET x == th[t].tab
        n == th[t].dk
        over == tabs[x].overflow - (IF th[t].blen >= Overflow THEN 1 ELSE 0)
        shrink == nodes - 1 < tabs[x].len \div 2 /\ tabs[x].len > InitialSize
    IN  /\ th[t].pc = "deleted"
        /\ ran' = ran \cup node[n].onDel
        /\ node' = [node EXCEPT ![n] = Free]
        /\ nodes' = nodes - 1
        /\ tabs' = Resized(x, [tabs EXCEPT ![x].overflow = over], shrink, tabs[x].len \div 2)
        /\ bg' = Started(tabs')
        /\ EndDelete(t)
        /\ UNCHANGED <<lruVars, closed, calls, asked>>

-----------------------------------------------------------------------------
(* Close and CloseWeak. *)

Close(t, o) ==
    /\ th[t].pc = "idle" /\ o \in Ops \cap {"close", "closeweak"} /\ calls < MaxCalls /\ CanRLock
    /\ "closeWaits" \in Allow \/ \A u \in Threads : mu.readers[u] = 0
    /\ calls' = calls + 1
    /\ mu' = [mu EXCEPT !.waiting = t]
    /\ th' = [th EXCEPT ![t].pc = "lock", ![t].op = o]
    /\ UNCHANGED <<tabVars, node, lruVars, closed, asked, ran>>
CloseLock(t) ==
    /\ th[t].pc = "lock" /\ \A u \in Threads : mu.readers[u] = 0
    /\ mu' = [mu EXCEPT !.waiting = None, !.writer = IF th[t].op = "close" /\ closed = "no" THEN t ELSE None]
    /\ IF th[t].op = "close"
       THEN th' = [th EXCEPT ![t] = IF closed = "no" THEN [@ EXCEPT !.pc = "sweep"] ELSE Idle]
       ELSE To(t, "lru")
    /\ closed' = IF closed /= "no" THEN closed ELSE IF th[t].op = "close" THEN "close" ELSE "weak"
    /\ UNCHANGED <<tabVars, node, lruVars, calls, asked, ran>>

\* Close: initBuckets, then every value is released and every OnDel is called.
Sweep(t) ==
    LET B == tabs[mHead].buckets
        raw == {i \in DOMAIN B : ~B[i].set}
        all == UNION {B[i].nodes : i \in DOMAIN B}
    IN  /\ th[t].pc = "sweep" /\ th[t].stack = <<>>
        /\ IF raw /= {}
           THEN /\ th' = [th EXCEPT ![t].stack = <<<<mHead, CHOOSE i \in raw : TRUE>>>>]
                /\ UNCHANGED <<node, mu, ran>>
           ELSE /\ node' = [n \in DOMAIN node |->
                               IF n \in all THEN [node[n] EXCEPT !.value = FALSE, !.onDel = {}] ELSE node[n]]
                /\ ran' = ran \cup UNION {node[n].onDel : n \in all}
                /\ mu' = [mu EXCEPT !.writer = None]
                /\ th' = [th EXCEPT ![t] = Idle]
        /\ UNCHANGED <<tabVars, lruVars, closed, calls, asked>>

-----------------------------------------------------------------------------

Init ==
    /\ tabs = <<Table(InitialSize, 0)>>
    /\ bg = [x \in 2 .. MaxTables |-> NoInit]
    /\ node = [n \in Node |-> Free] /\ hnd = [h \in Handle |-> 0]
    /\ lru = <<>> /\ capacity = Capacity /\ used = 0 /\ nodes = 0
    /\ mu = [readers |-> [t \in Threads |-> 0], writer |-> None, waiting |-> None]
    /\ closed = "no"
    /\ th = [t \in Threads |-> Idle]
    /\ calls = 0 /\ asked = 0 /\ ran = {}

\* The steps of a call, once it has begun.
Step(t) ==
    \/ InitStepOf(t) \/ GetBucket(t) \/ Lookup(t) \/ Grow(t) \/ Value(t)
    \/ SetFunc(t, TRUE) \/ SetFunc(t, FALSE)
    \/ Promote(t) \/ End(t) \/ OnDel(t) \/ Ban(t) \/ Evict(t) \/ EvictMany(t)
    \/ Release(t) \/ RLock(t) \/ Unref(t) \/ Delete(t) \/ Deleted(t) \/ CloseLock(t) \/ Sweep(t)

Next ==
    \/ \E t \in Threads :
           \/ \E o \in AllOps, k \in Keys : Call(t, o, k)
           \/ \E c \in {0, Capacity} : SetCapacity(t, c)
           \/ \E o \in {"close", "closeweak"} : Close(t, o)
           \/ ReleaseHandle(t)
           \/ Step(t)
    \/ \E x \in 2 .. MaxTables : Background(x)

Spec == Init /\ [][Next]_vars

\* The scheduler runs every goroutine that can go on.
FairSpec ==
    /\ Spec
    /\ \A t \in Threads : WF_vars(Step(t))
    /\ \A x \in 2 .. MaxTables : WF_vars(Background(x))

-----------------------------------------------------------------------------
(* Properties. *)

\* What somebody has a handle of is there: until the cache is closed by
\* force, the value behind a handle of a caller or of the LRU list has not
\* been released, whatever is deleted, evicted or resized meanwhile.
\* (Node.unref, mBucket.delete, lru)
HandleLive == closed /= "close" => \A h \in Handle : hnd[h] /= 0 => node[hnd[h]].value

\* A key has one value at a time: no table is opened twice because its node
\* was overlooked in a table that is being resized.  (mBucket.get, initBucket)
OneValue ==
    \A m, n \in DOMAIN node : m /= n /\ node[m].value /\ node[n].value => node[m].key /= node[n].key

\* No OnDel function is lost or called twice: each has been called or is on
\* one node, and never both.  (Cache.Delete, mBucket.delete, Close)  It is about
\* the functions given to Delete while the cache is open: a Delete on a closed
\* cache drops its function, uncalled, and does not count here (asked).
OnDelOnce ==
    /\ 1 .. asked = ran \cup UNION {node[n].onDel : n \in Node}
    /\ \A n \in Node :
          /\ node[n].onDel \cap ran = {}
          /\ \A m \in Node \ {n} : node[n].onDel \cap node[m].onDel = {}

\* When no call is in progress, the map holds just the nodes that a caller or
\* the LRU list has a handle of, counted once each, and the counters are
\* exact; the list stays within its capacity.  (unref, unrefLocked, lru.used)
Quiet == (\A t \in Threads : th[t].pc = "idle") /\ (\A x \in DOMAIN bg : ~bg[x].on)
InMap == UNION {tabs[mHead].buckets[i].nodes : i \in DOMAIN tabs[mHead].buckets}
Handles(n) ==
    Cardinality({h \in Threads \cup {lru[i].h : i \in DOMAIN lru} : hnd[h] = n})
QuietExact ==
    /\ used = Len(lru) /\ used <= capacity
    /\ Quiet =>
           /\ nodes = Cardinality(InMap)
           /\ \A n \in DOMAIN node : node[n].ref = Handles(n)
           /\ closed = "no" => InMap = {n \in DOMAIN node : Handles(n) > 0}

\* Every call comes to an end.  (Cache.mu, which Handle.Release takes again
\* below Get, and Close waits for)
EveryCallReturns == \A t \in Threads : th[t].pc /= "idle" ~> th[t].pc = "idle"

=============================================================================

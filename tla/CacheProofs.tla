---------------------------- MODULE CacheProofs ----------------------------
(***************************************************************************)
(* Proofs about Cache, for any number of goroutines, keys and nodes, and   *)
(* any sizes and thresholds.                                               *)
(***************************************************************************)
EXTENDS Cache, FiniteSetTheorems, TLAPS

Get == {"get", "peek"}
Labels == {"idle", "bucket", "get", "grow", "value", "set", "promote", "handle", "return", "found",
           "ban", "lru", "release", "rlock", "unref", "dbucket", "delete", "deleted", "lock", "sweep"}

\* Where a goroutine may go when it has released its handles.
Ends == {"idle", "return", "handle", "unref"}

\* A goroutine that releases handles, up to the last thing it does for one.
Releases(T) == T.pc \in {"release", "rlock"} \/ T.inner

\* T holds a reference to its node that is in no handle.
Using(T) ==
    \/ T.pc \in {"grow", "value", "set", "promote", "handle", "found", "ban", "unref"}
    \/ Releases(T) /\ T.then \in {"handle", "unref"}

\* It is on the way to return a handle of its node; the node has a value.
Getting(T) == T.pc \in {"grow", "value", "set", "promote", "handle"} \/ (Releases(T) /\ T.then = "handle")
Has(T) == T.pc \in {"promote", "handle"} \/ (Releases(T) /\ T.then = "handle")

-----------------------------------------------------------------------------
(* Types. *)

BucketType == [set : BOOLEAN, nodes : SUBSET Node, frozen : BOOLEAN]
BucketsType == UNION {[0 .. l - 1 -> BucketType] : l \in Nat \ {0}}
TableType == [len : Nat \ {0}, pred : Nat, resizing : BOOLEAN, overflow : Int, buckets : BucketsType]

\* A place <<x, i>> in the tables T.
InTables(T, f) == f[1] \in DOMAIN T /\ f[2] \in 0 .. T[f[1]].len - 1
Places(T, stack) == \A j \in DOMAIN stack : InTables(T, stack[j])

\* Table x is made when table x - 1 is the last one, and twice as large or at
\* most half as large.
TablesOK ==
    /\ tabs \in Seq(TableType) /\ Len(tabs) \in 1 .. MaxTables
    /\ \A x \in DOMAIN tabs :
          /\ DOMAIN tabs[x].buckets = 0 .. tabs[x].len - 1
          /\ tabs[x].pred = 0 \/ tabs[x].pred = x - 1
          /\ x > 1 => tabs[x].len > tabs[x - 1].len \/ 2 * tabs[x].len <= tabs[x - 1].len
          /\ x < Len(tabs) => tabs[x].resizing
    /\ bg \in [2 .. MaxTables -> [on : BOOLEAN, i : Nat, stack : Seq(Nat \X Nat)]]
    /\ \A x \in 2 .. MaxTables : Places(tabs, bg[x].stack) /\ (bg[x].on => x \in DOMAIN tabs)

NodeType == [key : Keys \cup {None}, ref : Int, value : BOOLEAN, mu : Threads \cup {None},
             onDel : SUBSET Nat, cd : {None, "in", "ban"}]
EntryType == [n : 0 .. MaxNodes, h : Listed, key : Keys]

DataOK ==
    /\ node \in [Node -> NodeType]
    /\ hnd \in [Handle -> 0 .. MaxNodes]
    /\ lru \in Seq(EntryType)
    /\ capacity \in Nat /\ closed \in {"no", "close", "weak"}

ThreadType ==
    [pc : Labels, op : AllOps \cup {None}, key : Keys \cup {None}, tab : Nat, blen : Int,
     stack : Seq(Nat \X Nat), n : 0 .. MaxNodes, dk : Nat \cup {None}, rel : Seq(Handle),
     then : Ends \cup {None}, inner : BOOLEAN]

\* What T needs at its place has been set.
Fits(T) ==
    /\ T.pc \in {"bucket", "get", "found"} => T.key \in Keys
    /\ T.pc \in {"get", "grow", "delete", "deleted"} => T.tab \in DOMAIN tabs
    /\ T.pc \in {"rlock", "dbucket", "delete"} => T.dk \in Keys
    /\ T.pc = "deleted" => T.dk \in Node
    /\ Using(T) => T.n \in Node
    /\ Releases(T) => T.rel /= <<>> /\ T.then \in Ends
    /\ T.inner => T.pc \in {"dbucket", "delete", "deleted"}
    /\ Getting(T) => T.op \in Get
    /\ T.pc = "idle" => T = Idle
    /\ T.stack /= <<>> => T.pc \in {"get", "delete", "sweep"}
    /\ T.pc = "lock" => T.op \in {"close", "closeweak"}
    /\ T.pc = "sweep" => closed = "close"
    /\ T.pc = "lru" => T.op \in {"evictns", "evictall", "closeweak"} /\ (T.op = "evictns" => T.key \in Keys)

ThreadsOK ==
    /\ th \in [Threads -> ThreadType]
    /\ \A t \in Threads : Fits(th[t]) /\ Places(tabs, th[t].stack)

TypeInv == TablesOK /\ DataOK /\ ThreadsOK

-----------------------------------------------------------------------------
(* References. *)

\* The references to node n: those of handles and those of calls.
HandlesOf(n) == {h \in Handle : hnd[h] = n}
UsersOf(n) == {t \in Threads : Using(th[t]) /\ th[t].n = n}
Referred(n) == Cardinality(HandlesOf(n)) + Cardinality(UsersOf(n))

\* A node counts them; a node that has been counted has a key.  A call that
\* is to return a handle has not got one yet.
RefInv ==
    /\ \A n \in Node : node[n].ref = Referred(n) /\ (node[n].ref /= 0 => node[n].key \in Keys)
    /\ \A t \in Threads : th[t].op \in Get => hnd[t] = 0

\* The entry of the list L that CacheData of node n leads to, with a handle
\* (of the handles H) that nobody is about to release.
Current(L, H, n, i) ==
    /\ L[i].n = n /\ \A j \in 1 .. i - 1 : L[j].n /= n
    /\ H[L[i].h] = n
    /\ \A t \in Threads : L[i].h \notin ToSet(th[t].rel)
Entries(L, N, H) ==
    /\ \A i, j \in DOMAIN L : L[i].h = L[j].h => i = j
    /\ \A n \in Node : N[n].cd = "in" => \E i \in DOMAIN L : Current(L, H, n, i)
LruInv == Entries(lru, node, hnd)

\* A node that is being deleted has no references, and is in no bucket
\* where somebody could get one.
Leaving(t) == th[t].pc = "deleted"
InBucket(n) == \E x \in DOMAIN tabs : \E i \in DOMAIN tabs[x].buckets : n \in tabs[x].buckets[i].nodes
DeadInv ==
    /\ \A n \in Node : InBucket(n) => node[n].key \in Keys /\ \A t \in Threads : Leaving(t) => th[t].dk /= n
    /\ \A t \in Threads : Leaving(t) =>
          /\ node[th[t].dk].ref = 0 /\ node[th[t].dk].key \in Keys
          /\ \A u \in Threads \ {t} : Leaving(u) => th[u].dk /= th[t].dk

\* What a handle, or a call that will return one, leads to has its value.
\* The value is made by one goroutine, while it is missing.
ValueInv ==
    /\ \A t \in Threads : th[t].pc = "set" => node[th[t].n].mu = t /\ ~node[th[t].n].value
    /\ closed /= "close" =>
          /\ \A h \in Handle : hnd[h] /= 0 => node[hnd[h]].value
          /\ \A t \in Threads : Has(th[t]) => node[th[t].n].value

HoldInv == TypeInv /\ RefInv /\ LruInv /\ DeadInv /\ ValueInv
-----------------------------------------------------------------------------
(* Counting. *)

Bit(b) == IF b THEN 1 ELSE 0

\* Sets that differ in x at most.
LEMMA CountBit ==
  ASSUME NEW S, NEW T, NEW x, IsFiniteSet(S), S \ {x} = T \ {x}
  PROVE  /\ IsFiniteSet(T) /\ Cardinality(S) \in Nat /\ Cardinality(T) \in Nat
         /\ Cardinality(T) = Cardinality(S) + Bit(x \in T) - Bit(x \in S)
<1>1. /\ IsFiniteSet(S \ {x})
      /\ Cardinality(S \ {x}) = IF x \in S THEN Cardinality(S) - 1 ELSE Cardinality(S)
  BY FS_RemoveElement
<1>2. /\ IsFiniteSet((T \ {x}) \cup {x})
      /\ Cardinality((T \ {x}) \cup {x}) = Cardinality(T \ {x}) + 1
  <2>1. IsFiniteSet(T \ {x}) /\ x \notin T \ {x}
    BY <1>1
  <2>2. QED
    BY <2>1, FS_AddElement
<1>3. x \in T => (T \ {x}) \cup {x} = T
  OBVIOUS
<1>4. x \notin T => T \ {x} = T
  OBVIOUS
<1>5. IsFiniteSet(T)
  BY <1>1, <1>2, <1>3, <1>4
<1>6. Cardinality(S) \in Nat /\ Cardinality(T) \in Nat
  BY <1>5, FS_CardinalityType
<1>7. Cardinality(T) = Cardinality(S \ {x}) + Bit(x \in T)
  BY <1>2, <1>3, <1>4, <1>6 DEF Bit
<1>8. Cardinality(S) = Cardinality(S \ {x}) + Bit(x \in S)
  BY <1>1, <1>6 DEF Bit
<1>9. Cardinality(S \ {x}) \in Nat
  BY <1>1, FS_CardinalityType
<1>10. Bit(x \in T) \in {0, 1} /\ Bit(x \in S) \in {0, 1}
  BY DEF Bit
<1>11. QED
  BY <1>5, <1>6, <1>7, <1>8, <1>9, <1>10

\* There are finitely many handles: those of the callers and those of the
\* list.
LEMMA HandlesFinite == IsFiniteSet(Handle)
<1>1. IsFiniteSet(1 .. MaxHandles)
  BY FS_Interval, CacheAssumption DEF CacheAssumption
<1>2. QED
  BY <1>1, FS_Union, CacheAssumption DEF CacheAssumption, Handle, Listed

\* A step that alters one handle and moves one goroutine.
LEMMA Counted ==
  ASSUME NEW t \in Threads, NEW h \in Handle, NEW n \in Node,
         \A u \in Threads \ {t} : th'[u] = th[u],
         \A g \in Handle \ {h} : hnd'[g] = hnd[g]
  PROVE  /\ Referred(n) \in Nat
         /\ Referred(n)' = Referred(n) + Bit(hnd'[h] = n) - Bit(hnd[h] = n)
                           + Bit(t \in UsersOf(n)') - Bit(t \in UsersOf(n))
<1>1. /\ IsFiniteSet(HandlesOf(n)) /\ IsFiniteSet(UsersOf(n))
  BY HandlesFinite, FS_Subset, CacheAssumption DEF CacheAssumption, HandlesOf, UsersOf
<1>2. HandlesOf(n) \ {h} = HandlesOf(n)' \ {h} /\ UsersOf(n) \ {t} = UsersOf(n)' \ {t}
  BY DEF HandlesOf, UsersOf
<1>3. /\ Cardinality(HandlesOf(n)) \in Nat /\ Cardinality(HandlesOf(n)') \in Nat
      /\ Cardinality(HandlesOf(n)') = Cardinality(HandlesOf(n)) + Bit(h \in HandlesOf(n)') - Bit(h \in HandlesOf(n))
  BY <1>1, <1>2, CountBit
<1>4. /\ Cardinality(UsersOf(n)) \in Nat /\ Cardinality(UsersOf(n)') \in Nat
      /\ Cardinality(UsersOf(n)') = Cardinality(UsersOf(n)) + Bit(t \in UsersOf(n)') - Bit(t \in UsersOf(n))
  BY <1>1, <1>2, CountBit
<1>5. (h \in HandlesOf(n)' <=> hnd'[h] = n) /\ (h \in HandlesOf(n) <=> hnd[h] = n)
  BY DEF HandlesOf
<1>6. Bit(h \in HandlesOf(n)') = Bit(hnd'[h] = n) /\ Bit(h \in HandlesOf(n)) = Bit(hnd[h] = n)
  BY <1>5 DEF Bit
<1>7. /\ Bit(h \in HandlesOf(n)') \in {0, 1} /\ Bit(h \in HandlesOf(n)) \in {0, 1}
      /\ Bit(t \in UsersOf(n)') \in {0, 1} /\ Bit(t \in UsersOf(n)) \in {0, 1}
  BY DEF Bit
<1>8. Referred(n)' = Cardinality(HandlesOf(n)') + Cardinality(UsersOf(n)')
  BY DEF Referred
<1>9. QED
  BY <1>3, <1>4, <1>6, <1>7, <1>8 DEF Referred

\* What is referred to is counted.
LEMMA Positive ==
  ASSUME RefInv, NEW n \in Node
  PROVE  /\ node[n].ref \in Nat
         /\ \A h \in Handle : hnd[h] = n => node[n].ref > 0
         /\ \A t \in Threads : t \in UsersOf(n) => node[n].ref > 0
<1>1. IsFiniteSet(HandlesOf(n)) /\ IsFiniteSet(UsersOf(n))
  BY HandlesFinite, FS_Subset, CacheAssumption DEF CacheAssumption, HandlesOf, UsersOf
<1>2. Cardinality(HandlesOf(n)) \in Nat /\ Cardinality(UsersOf(n)) \in Nat
  BY <1>1, FS_CardinalityType
<1>3. node[n].ref = Cardinality(HandlesOf(n)) + Cardinality(UsersOf(n))
  BY DEF RefInv, Referred
<1>4. \A h \in Handle : hnd[h] = n => HandlesOf(n) /= {}
  BY DEF HandlesOf
<1>5. (Cardinality(HandlesOf(n)) = 0 => HandlesOf(n) = {}) /\ (Cardinality(UsersOf(n)) = 0 => UsersOf(n) = {})
  BY <1>1, FS_EmptySet
<1>6. QED
  BY <1>2, <1>3, <1>4, <1>5

-----------------------------------------------------------------------------
(* What a step of goroutine t keeps. *)

\* t is the only goroutine that the step moves.
Moved(t) == th' = [th EXCEPT ![t] = th'[t]]

\* The tables stay as large as they are.
Grown ==
    /\ DOMAIN tabs \subseteq DOMAIN tabs'
    /\ \A x \in DOMAIN tabs : tabs'[x].len = tabs[x].len

\* A step of t keeps what the goroutines need at their places when it puts t
\* at one where t has what it needs.
LEMMA ThreadsKept ==
  ASSUME TypeInv, NEW t \in Threads, Moved(t), th'[t] \in ThreadType,
         Fits(th[t])', Places(tabs, th[t].stack)', Grown, closed = "close" => closed' = "close"
  PROVE  ThreadsOK'
<1>1. th \in [Threads -> ThreadType] /\ \A u \in Threads : Fits(th[u]) /\ Places(tabs, th[u].stack)
  BY DEF TypeInv, ThreadsOK
<1>2. th' \in [Threads -> ThreadType] /\ \A u \in Threads \ {t} : th'[u] = th[u]
  BY <1>1 DEF Moved
<1>3. ASSUME NEW u \in Threads, u /= t PROVE Fits(th[u])'
  <2>1. Fits(th[u]) /\ th'[u] = th[u]
    BY <1>1, <1>2, <1>3
  <2>2. th[u].tab \in DOMAIN tabs => th[u].tab \in DOMAIN tabs'
    BY DEF Grown
  <2>3. QED
    BY <2>1, <2>2 DEF Fits, Using, Releases, Getting
<1>4. ASSUME NEW u \in Threads, u /= t PROVE Places(tabs, th[u].stack)'
  <2>1. Places(tabs, th[u].stack) /\ th'[u] = th[u]
    BY <1>1, <1>2, <1>4
  <2>2. QED
    BY <2>1 DEF Places, InTables, Grown
<1>5. QED
  BY <1>2, <1>3, <1>4 DEF ThreadsOK

\* A step that alters neither the counts nor what t refers to keeps the counts
\* right.
LEMMA RefKept ==
  ASSUME TypeInv, RefInv, NEW t \in Threads, Moved(t), UNCHANGED hnd,
         \A n \in Node : node'[n].ref = node[n].ref /\ (node[n].key \in Keys => node'[n].key = node[n].key),
         \A n \in Node : t \in UsersOf(n)' <=> t \in UsersOf(n),
         th'[t].op \in Get => hnd[t] = 0
  PROVE  RefInv'
<1>1. t \in Handle /\ \A u \in Threads \ {t} : th'[u] = th[u]
  BY DEF Handle, TypeInv, ThreadsOK, Moved
<1>2. ASSUME NEW n \in Node PROVE Referred(n)' = Referred(n)
  <2>1. /\ Referred(n) \in Nat
        /\ Referred(n)' = Referred(n) + Bit(hnd'[t] = n) - Bit(hnd[t] = n)
                           + Bit(t \in UsersOf(n)') - Bit(t \in UsersOf(n))
    BY <1>1, Counted
  <2>2. Bit(hnd'[t] = n) = Bit(hnd[t] = n) /\ Bit(t \in UsersOf(n)') = Bit(t \in UsersOf(n))
    BY DEF Bit
  <2>3. Bit(hnd[t] = n) \in {0, 1} /\ Bit(t \in UsersOf(n)) \in {0, 1}
    BY DEF Bit
  <2>4. QED
    BY <2>1, <2>2, <2>3
<1>3. \A u \in Threads : th'[u].op \in Get => hnd'[u] = 0
  BY <1>1 DEF RefInv
<1>4. QED
  BY <1>2, <1>3 DEF RefInv

\* A step that leaves the list alone keeps every CacheData in front of a
\* handle that nobody is about to release.
LEMMA LruKept ==
  ASSUME TypeInv, LruInv, NEW t \in Threads, Moved(t), UNCHANGED lru,
         \A n \in Node : node'[n].cd = "in" => node[n].cd = "in",
         \A h \in Listed : hnd'[h] = hnd[h] \/ h \in ToSet(th[t].rel),
         \A h \in Listed : h \in ToSet(th'[t].rel) => h \in ToSet(th[t].rel)
  PROVE  LruInv'
<1>1. \A u \in Threads \ {t} : th'[u] = th[u]
  BY DEF TypeInv, ThreadsOK, Moved
<1>2. ASSUME NEW n \in Node, node'[n].cd = "in" PROVE \E i \in DOMAIN lru' : Current(lru, hnd, n, i)'
  <2>1. PICK i \in DOMAIN lru : Current(lru, hnd, n, i)
    BY <1>2 DEF LruInv, Entries
  <2>2. lru[i].h \in Listed
    <3>1. lru \in Seq(EntryType)
      BY DEF TypeInv, DataOK
    <3>2. lru[i] \in EntryType
      BY <3>1
    <3>3. QED
      BY <3>2 DEF EntryType
  <2>3. \A u \in Threads : lru[i].h \notin ToSet(th'[u].rel)
    BY <1>1, <2>1, <2>2 DEF Current
  <2>4. hnd'[lru[i].h] = n
    BY <2>1, <2>2 DEF Current
  <2>5. QED
    BY <2>1, <2>3, <2>4 DEF Current
<1>3. QED
  BY <1>2 DEF LruInv, Entries

\* A step that puts no node back in a bucket keeps nodes that are being
\* deleted out of reach.
LEMMA DeadKept ==
  ASSUME TypeInv, DeadInv, NEW t \in Threads, Moved(t),
         \A n \in Node : InBucket(n)' => InBucket(n),
         \A n \in Node : node[n].key \in Keys => node'[n].key = node[n].key,
         \A u \in Threads : Leaving(u) => node'[th[u].dk].ref = 0,
         th'[t].pc /= "deleted" \/ (Leaving(t) /\ th'[t].dk = th[t].dk)
  PROVE  DeadInv'
<1>1. \A u \in Threads \ {t} : th'[u] = th[u]
  BY DEF TypeInv, ThreadsOK, Moved
<1>2. \A u \in Threads : Leaving(u)' => Leaving(u) /\ th'[u].dk = th[u].dk /\ th[u].dk \in Node
  BY <1>1 DEF Leaving, TypeInv, ThreadsOK, Fits
<1>3. \A n \in Node : InBucket(n)' => node'[n].key \in Keys /\ \A u \in Threads : Leaving(u)' => th'[u].dk /= n
  BY <1>2 DEF DeadInv
<1>4. \A u \in Threads : Leaving(u)' =>
          /\ node'[th'[u].dk].ref = 0 /\ node'[th'[u].dk].key \in Keys
          /\ \A v \in Threads \ {u} : Leaving(v)' => th'[v].dk /= th'[u].dk
  BY <1>2 DEF DeadInv
<1>5. QED
  BY <1>3, <1>4 DEF DeadInv

\* A step that takes no value away, and gives t a reference to a node with
\* one, keeps the values where they are needed.
LEMMA ValueKept ==
  ASSUME TypeInv, ValueInv, NEW t \in Threads, Moved(t),
         \A n \in Node : node'[n].mu = node[n].mu /\ node'[n].value = node[n].value,
         th'[t].pc /= "set", closed = "close" => closed' = "close",
         Has(th'[t]) => (Has(th[t]) /\ th'[t].n = th[t].n) \/ node[th'[t].n].value,
         Has(th'[t]) => th'[t].n \in Node,
         \A h \in Handle : hnd'[h] \in {0, hnd[h]} \/ (hnd'[h] \in Node /\ (closed /= "close" => node[hnd'[h]].value))
  PROVE  ValueInv'
<1>1. \A u \in Threads \ {t} : th'[u] = th[u]
  BY DEF TypeInv, ThreadsOK, Moved
<1>2. \A h \in Handle : hnd[h] /= 0 => hnd[h] \in Node
  BY DEF TypeInv, DataOK, Node
<1>3. ASSUME NEW u \in Threads, th'[u].pc = "set" PROVE node'[th'[u].n].mu = u /\ ~node'[th'[u].n].value
  <2>1. u /= t /\ th'[u] = th[u]
    BY <1>1, <1>3
  <2>2. th[u].n \in Node
    BY <1>3, <2>1 DEF TypeInv, ThreadsOK, Fits, Using
  <2>3. QED
    BY <1>3, <2>1, <2>2 DEF ValueInv
<1>4. ASSUME closed' /= "close", NEW h \in Handle, hnd'[h] /= 0 PROVE node'[hnd'[h]].value
  BY <1>2, <1>4 DEF ValueInv
<1>5. ASSUME closed' /= "close", NEW u \in Threads, Has(th'[u]) PROVE node'[th'[u].n].value
  <2>1. \A v \in Threads : Has(th[v]) => th[v].n \in Node
    BY DEF TypeInv, ThreadsOK, Fits, Using, Has
  <2>2. CASE u = t
    BY <1>5, <2>2 DEF ValueInv
  <2>3. CASE u /= t
    BY <1>1, <1>5, <2>1, <2>3 DEF ValueInv
  <2>4. QED
    BY <2>2, <2>3
<1>6. QED
  BY <1>3, <1>4, <1>5 DEF ValueInv

-----------------------------------------------------------------------------
(* The tables. *)

\* T is tabs with the same lengths; no node is in a bucket that was in none.
SameTables(T) ==
    /\ T \in Seq(TableType) /\ Len(T) = Len(tabs)
    /\ \A x \in DOMAIN tabs :
          /\ T[x].len = tabs[x].len /\ DOMAIN T[x].buckets = 0 .. T[x].len - 1
          /\ T[x].pred \in {0, tabs[x].pred} /\ (tabs[x].resizing => T[x].resizing)
Fewer(T) == \A x \in DOMAIN T : \A i \in DOMAIN T[x].buckets : \A n \in T[x].buckets[i].nodes : InBucket(n)

BgType == [2 .. MaxTables -> [on : BOOLEAN, i : Nat, stack : Seq(Nat \X Nat)]]
BgFits(T, b) == b \in BgType /\ \A x \in 2 .. MaxTables : Places(T, b[x].stack) /\ (b[x].on => x \in DOMAIN T)

\* A table has as many buckets as its length says.
LEMMA BucketsOf ==
  ASSUME TablesOK, NEW x \in DOMAIN tabs
  PROVE  tabs[x] \in TableType /\ tabs[x].len \in Nat \ {0} /\ tabs[x].buckets \in [0 .. tabs[x].len - 1 -> BucketType]
<1>1. tabs[x] \in TableType
  BY DEF TablesOK
<1>2. tabs[x].len \in Nat \ {0} /\ tabs[x].buckets \in BucketsType
  BY <1>1 DEF TableType
<1>3. PICK l \in Nat \ {0} : tabs[x].buckets \in [0 .. l - 1 -> BucketType]
  BY <1>2 DEF BucketsType
<1>4. DOMAIN tabs[x].buckets = 0 .. tabs[x].len - 1
  BY DEF TablesOK
<1>5. QED
  BY <1>1, <1>2, <1>3, <1>4

\* A table with other buckets.
LEMMA TableMade ==
  ASSUME NEW T \in TableType, NEW B \in [0 .. T.len - 1 -> BucketType]
  PROVE  [T EXCEPT !.buckets = B] \in TableType
<1>1. T.len \in Nat \ {0}
  BY DEF TableType
<1>2. B \in BucketsType
  BY <1>1 DEF BucketsType
<1>3. QED
  BY <1>2 DEF TableType

\* Another table of the same length in the place of table x keeps the shape of
\* the list of tables.
LEMMA SameTable ==
  ASSUME TablesOK, NEW x \in DOMAIN tabs, NEW T \in TableType,
         T.len = tabs[x].len, DOMAIN T.buckets = 0 .. T.len - 1,
         T.pred \in {0, tabs[x].pred}, tabs[x].resizing => T.resizing
  PROVE  SameTables([tabs EXCEPT ![x] = T])
<1>1. tabs \in Seq(TableType) /\ \A y \in DOMAIN tabs : DOMAIN tabs[y].buckets = 0 .. tabs[y].len - 1
  BY DEF TablesOK
<1>2. QED
  BY <1>1 DEF SameTables

\* Tables that keep their lengths and places keep their shape.
LEMMA TablesStay ==
  ASSUME TablesOK, SameTables(tabs'), BgFits(tabs, bg')
  PROVE  TablesOK' /\ Grown
<1>1. tabs \in Seq(TableType) /\ Len(tabs) \in Nat /\ DOMAIN tabs = 1 .. Len(tabs)
  BY DEF TablesOK
<1>2. tabs' \in Seq(TableType) /\ Len(tabs') = Len(tabs) /\ DOMAIN tabs' = DOMAIN tabs
  BY <1>1 DEF SameTables
<1>3. ASSUME NEW x \in DOMAIN tabs'
      PROVE  /\ DOMAIN tabs'[x].buckets = 0 .. tabs'[x].len - 1
             /\ tabs'[x].pred = 0 \/ tabs'[x].pred = x - 1
             /\ x > 1 => tabs'[x].len > tabs'[x - 1].len \/ 2 * tabs'[x].len <= tabs'[x - 1].len
             /\ x < Len(tabs') => tabs'[x].resizing
  <2>1. x > 1 => x - 1 \in DOMAIN tabs
    BY <1>1, <1>2
  <2>2. QED
    BY <1>2, <2>1 DEF SameTables, TablesOK
<1>4. \A s : Places(tabs, s) => Places(tabs', s)
  BY <1>2 DEF Places, InTables, SameTables
<1>5. \A x \in 2 .. MaxTables : Places(tabs', bg'[x].stack) /\ (bg'[x].on => x \in DOMAIN tabs')
  BY <1>2, <1>4 DEF BgFits
<1>6. QED
  BY <1>2, <1>3, <1>5 DEF TablesOK, Grown, SameTables, BgFits, BgType

\* One step of initBucket fills a bucket or pushes the bucket that it needs
\* first; it puts nodes nowhere they were not.
LEMMA InitStep ==
  ASSUME TablesOK, NEW x, NEW i, InTables(tabs, <<x, i>>)
  PROVE  LET r == InitBucket(x, i)
         IN  /\ SameTables(r.tabs) /\ Fewer(r.tabs) /\ r.pop \in BOOLEAN
             /\ \/ r.push = <<>>
                \/ \E f \in Nat \X Nat : r.push = <<f>> /\ InTables(tabs, f)
<1> DEFINE p == tabs[x].pred
           missing == {j \in Sources(x, i) : ~tabs[p].buckets[j].set}
           warm == {j \in Sources(x, i) : ~tabs[p].buckets[j].frozen}
           mine == {n \in UNION {tabs[p].buckets[j].nodes : j \in Sources(x, i)} : node[n].key % tabs[x].len = i}
           over == IF Cardinality(mine) > Overflow THEN Cardinality(mine) - Overflow ELSE 0
           r == InitBucket(x, i)
<1>1. /\ x \in DOMAIN tabs /\ i \in 0 .. tabs[x].len - 1 /\ DOMAIN tabs = 1 .. Len(tabs)
      /\ tabs \in Seq(TableType)
  BY DEF InTables, TablesOK
<1>2. /\ tabs[x].len \in Nat \ {0} /\ tabs[x] \in TableType
      /\ tabs[x].buckets \in [0 .. tabs[x].len - 1 -> BucketType]
  BY <1>1, BucketsOf
<1>3. SameTables(tabs) /\ Fewer(tabs)
  BY <1>1 DEF SameTables, Fewer, InBucket, TablesOK
<1>4. CASE tabs[x].buckets[i].set \/ p = 0
  BY <1>3, <1>4 DEF InitBucket
<1>5. CASE ~(tabs[x].buckets[i].set \/ p = 0)
  <2>1. p \in DOMAIN tabs /\ p = x - 1
    BY <1>1, <1>5 DEF TablesOK
  <2>2. /\ tabs[p].len \in Nat \ {0} /\ tabs[p] \in TableType
        /\ tabs[p].buckets \in [0 .. tabs[p].len - 1 -> BucketType]
    BY <2>1, BucketsOf
  <2>3. tabs[x].len > tabs[p].len \/ 2 * tabs[x].len <= tabs[p].len
    <3>1. x > 1
      BY <1>1, <2>1
    <3>2. tabs[x].len > tabs[x - 1].len \/ 2 * tabs[x].len <= tabs[x - 1].len
      BY <1>1, <3>1 DEF TablesOK
    <3>3. QED
      BY <2>1, <3>2
  <2>4. Sources(x, i) \subseteq 0 .. tabs[p].len - 1
    <3>1. i \in Nat /\ i < tabs[x].len /\ tabs[x].len \in Nat
      BY <1>1, <1>2
    <3>2. CASE tabs[x].len > tabs[p].len
      <4>1. i % tabs[p].len \in 0 .. tabs[p].len - 1
        BY <2>2, <3>1
      <4>2. QED
        BY <3>2, <4>1 DEF Sources
    <3>3. CASE ~(tabs[x].len > tabs[p].len)
      <4>1. i \in 0 .. tabs[p].len - 1 /\ i + tabs[x].len \in 0 .. tabs[p].len - 1
        BY <2>2, <2>3, <3>1, <3>3
      <4>2. QED
        BY <3>3, <4>1 DEF Sources
    <3>4. QED
      BY <3>2, <3>3
  <2>5. CASE missing /= {}
    <3>1. (CHOOSE j \in missing : TRUE) \in missing
      BY <2>5
    <3>2. r = [pop |-> FALSE, push |-> <<<<p, CHOOSE j \in missing : TRUE>>>>, tabs |-> tabs]
      BY <1>5, <2>5 DEF InitBucket
    <3> DEFINE j == CHOOSE j \in missing : TRUE
    <3>3. j \in 0 .. tabs[p].len - 1 /\ p \in Nat
      BY <1>1, <2>1, <2>4, <3>1
    <3>5. r.tabs = tabs /\ r.pop = FALSE /\ r.push = <<<<p, j>>>>
      BY <3>2
    <3> HIDE DEF j
    <3>4. <<p, j>> \in Nat \X Nat /\ InTables(tabs, <<p, j>>)
      BY <2>1, <2>2, <3>3 DEF InTables
    <3>6. QED
      BY <1>3, <3>4, <3>5
  <2>6. CASE missing = {} /\ warm /= {}
    <3> DEFINE j == CHOOSE j \in warm : \A k \in warm : j <= k
               b == [tabs[p].buckets[j] EXCEPT !.frozen = TRUE]
               T == [tabs[p] EXCEPT !.buckets = [tabs[p].buckets EXCEPT ![j].frozen = TRUE]]
    <3>1. r = [pop |-> FALSE, push |-> <<>>, tabs |-> [tabs EXCEPT ![p].buckets[j].frozen = TRUE]]
      BY <1>5, <2>6 DEF InitBucket
    <3>2. [tabs EXCEPT ![p].buckets[j].frozen = TRUE] = [tabs EXCEPT ![p] = T]
      BY <1>1, <2>1
    <3>3. [tabs[p].buckets EXCEPT ![j].frozen = TRUE] \in [0 .. tabs[p].len - 1 -> BucketType]
      BY <2>2 DEF BucketType
    <3>4. \A k \in 0 .. tabs[p].len - 1 : [tabs[p].buckets EXCEPT ![j].frozen = TRUE][k].nodes = tabs[p].buckets[k].nodes
      BY <2>2 DEF BucketType
    <3> HIDE DEF j
    <3>5. T \in TableType
      BY <2>2, <3>3, TableMade
    <3>6. /\ T.len = tabs[p].len /\ T.buckets = [tabs[p].buckets EXCEPT ![j].frozen = TRUE]
          /\ T.pred = tabs[p].pred /\ T.resizing = tabs[p].resizing
      BY <2>2 DEF TableType
    <3> HIDE DEF T
    <3>7. DOMAIN T.buckets = 0 .. T.len - 1
      BY <3>3, <3>6
    <3>8. SameTables([tabs EXCEPT ![p] = T])
      BY <2>1, <3>5, <3>6, <3>7, SameTable
    <3>9. Fewer([tabs EXCEPT ![p] = T])
      <4>1. DOMAIN T.buckets = 0 .. tabs[p].len - 1 /\ DOMAIN tabs[p].buckets = 0 .. tabs[p].len - 1
        BY <2>2, <3>6, <3>7
      <4>2. \A k \in DOMAIN T.buckets : \A n \in T.buckets[k].nodes : InBucket(n)
        BY <1>3, <2>1, <3>4, <3>6, <4>1 DEF Fewer
      <4>3. DOMAIN [tabs EXCEPT ![p] = T] = DOMAIN tabs
        OBVIOUS
      <4>4. \A y \in DOMAIN tabs : [tabs EXCEPT ![p] = T][y] = IF y = p THEN T ELSE tabs[y]
        BY <2>1
      <4>5. QED
        BY <1>3, <4>2, <4>3, <4>4 DEF Fewer
    <3>10. r.pop = FALSE /\ r.push = <<>> /\ r.tabs = [tabs EXCEPT ![p] = T]
      BY <3>1, <3>2
    <3>11. QED
      BY <3>8, <3>9, <3>10
  <2>7. CASE missing = {} /\ warm = {}
    <3> DEFINE T0 == [tabs[x] EXCEPT !.buckets = [tabs[x].buckets EXCEPT ![i] = Bucket(mine)]]
               T == [T0 EXCEPT !.overflow = @ + over]
    <3>1. r = [pop |-> TRUE, push |-> <<>>, tabs |-> [tabs EXCEPT ![x].buckets[i] = Bucket(mine), ![x].overflow = @ + over]]
      BY <1>5, <2>7 DEF InitBucket
    <3>2. [tabs EXCEPT ![x].buckets[i] = Bucket(mine), ![x].overflow = @ + over] = [tabs EXCEPT ![x] = T]
      BY <1>1
    <3>3. mine \subseteq Node /\ \A n \in mine : InBucket(n)
      <4>1. \A j \in Sources(x, i) : tabs[p].buckets[j].nodes \subseteq Node /\ j \in DOMAIN tabs[p].buckets
        BY <2>2, <2>4 DEF BucketType
      <4>2. QED
        BY <2>1, <4>1 DEF InBucket
    <3>4. over \in Int
      <4>1. IsFiniteSet(mine)
        <5>1. IsFiniteSet(Node)
          BY FS_Interval, CacheAssumption DEF CacheAssumption, Node
        <5>2. QED
          BY <3>3, <5>1, FS_Subset
      <4>2. Cardinality(mine) \in Nat
        BY <4>1, FS_CardinalityType
      <4>3. QED
        BY <4>2, CacheAssumption DEF CacheAssumption
    <3> HIDE DEF over, mine
    <3>5. [tabs[x].buckets EXCEPT ![i] = Bucket(mine)] \in [0 .. tabs[x].len - 1 -> BucketType]
      BY <1>2, <3>3 DEF BucketType, Bucket
    <3>6. \A k \in 0 .. tabs[x].len - 1 : \A n \in [tabs[x].buckets EXCEPT ![i] = Bucket(mine)][k].nodes : InBucket(n)
      BY <1>1, <1>2, <3>3 DEF InBucket, Bucket
    <3>7. T0 \in TableType
      BY <1>2, <3>5, TableMade
    <3>9. T \in TableType
      <4> HIDE DEF T0
      <4>1. T0.overflow + over \in Int
        BY <3>4, <3>7 DEF TableType
      <4>2. QED
        BY <3>7, <4>1 DEF TableType
    <3>10. /\ T.len = tabs[x].len /\ T.buckets = [tabs[x].buckets EXCEPT ![i] = Bucket(mine)]
          /\ T.pred = tabs[x].pred /\ T.resizing = tabs[x].resizing
      BY <1>2 DEF TableType
    <3> HIDE DEF T
    <3>11. DOMAIN T.buckets = 0 .. T.len - 1
      BY <3>5, <3>10
    <3>12. SameTables([tabs EXCEPT ![x] = T])
      BY <1>1, <3>9, <3>10, <3>11, SameTable
    <3>13. Fewer([tabs EXCEPT ![x] = T])
      BY <1>1, <1>3, <3>6, <3>10, <3>11 DEF Fewer
    <3>14. r.pop = TRUE /\ r.push = <<>> /\ r.tabs = [tabs EXCEPT ![x] = T]
      BY <3>1, <3>2
    <3>15. QED
      BY <3>12, <3>13, <3>14
  <2>8. QED
    BY <2>5, <2>6, <2>7
<1>6. QED
  BY <1>4, <1>5

\* The stack of initBucket stays a stack of places after a step of it.
LEMMA PoppedFits ==
  ASSUME NEW T, NEW s \in Seq(Nat \X Nat), s /= <<>>, Places(T, s), NEW r, r.pop \in BOOLEAN,
         r.push = <<>> \/ \E f \in Nat \X Nat : r.push = <<f>> /\ InTables(T, f)
  PROVE  Popped(s, r) \in Seq(Nat \X Nat) /\ Places(T, Popped(s, r))
<1> DEFINE rest == IF r.pop THEN Tail(s) ELSE s
<1>1. rest \in Seq(Nat \X Nat) /\ Places(T, rest)
  BY DEF Places
<1>2. CASE r.push = <<>>
  BY <1>1, <1>2 DEF Popped
<1>3. ASSUME NEW f \in Nat \X Nat, r.push = <<f>>, InTables(T, f)
      PROVE  Popped(s, r) \in Seq(Nat \X Nat) /\ Places(T, Popped(s, r))
  <2>1. Popped(s, r) = <<f>> \o rest
    BY <1>3 DEF Popped
  <2> HIDE DEF rest
  <2>2. <<f>> \o rest \in Seq(Nat \X Nat) /\ Len(<<f>> \o rest) = Len(rest) + 1
    BY <1>1
  <2>3. \A j \in 1 .. Len(rest) + 1 : (<<f>> \o rest)[j] = IF j = 1 THEN f ELSE rest[j - 1]
    BY <1>1
  <2>4. \A j \in DOMAIN (<<f>> \o rest) : InTables(T, (<<f>> \o rest)[j])
    BY <1>1, <1>3, <2>2, <2>3 DEF Places
  <2>5. QED
    BY <2>1, <2>2, <2>4 DEF Places
<1>4. QED
  BY <1>2, <1>3

\* The table after tabs[x], which is the last, when T is tabs otherwise.
LEMMA ResizedOK ==
  ASSUME TablesOK, NEW T, SameTables(T), Fewer(T), NEW x \in DOMAIN tabs, NEW want \in BOOLEAN, NEW len \in Nat \ {0},
         len > tabs[x].len \/ 2 * len <= tabs[x].len,
         tabs' = Resized(x, T, want, len), bg' = Started(tabs')
  PROVE  TablesOK' /\ Grown /\ \A n \in Node : InBucket(n)' => InBucket(n)
<1>1. tabs \in Seq(TableType) /\ Len(tabs) \in 1 .. MaxTables /\ DOMAIN tabs = 1 .. Len(tabs) /\ MaxTables \in Nat
  BY CacheAssumption DEF TablesOK, CacheAssumption
<1>2. T \in Seq(TableType) /\ Len(T) = Len(tabs) /\ DOMAIN T = DOMAIN tabs
  BY <1>1 DEF SameTables
<1>3. \A n \in Node : (\E y \in DOMAIN T : \E i \in DOMAIN T[y].buckets : n \in T[y].buckets[i].nodes) => InBucket(n)
  BY DEF Fewer
<1>b. BgFits(tabs, bg)
  BY DEF TablesOK, BgFits, BgType
<1>4. CASE ~(want /\ ~T[x].resizing /\ Len(T) < MaxTables)
  <2>1. tabs' = T
    BY <1>4 DEF Resized
  <2>2. bg' = bg
    BY <1>1, <1>2, <1>b, <2>1 DEF Started, BgFits, BgType
  <2>3. QED
    BY <1>3, <1>b, <2>1, <2>2, TablesStay DEF InBucket
<1>5. CASE want /\ ~T[x].resizing /\ Len(T) < MaxTables
  <2> DEFINE T1 == [T EXCEPT ![x] = [T[x] EXCEPT !.resizing = TRUE]]
             N == Table(len, x)
  <2>1. tabs' = Append(T1, N)
    BY <1>5 DEF Resized
  <2>2. x = Len(tabs)
    BY <1>1, <1>2, <1>5 DEF SameTables, TablesOK
  <2>3. T[x] \in TableType /\ [T[x] EXCEPT !.resizing = TRUE] \in TableType
    <3>1. T[x] \in TableType
      BY <1>2
    <3>2. QED
      BY <3>1 DEF TableType
  <2>4. T1 \in Seq(TableType) /\ Len(T1) = Len(tabs)
    BY <1>1, <1>2, <2>3
  <2>5. N \in TableType /\ DOMAIN N.buckets = 0 .. len - 1 /\ \A i \in 0 .. len - 1 : N.buckets[i].nodes = {}
    <3>1. [i \in 0 .. len - 1 |-> Nil] \in [0 .. len - 1 -> BucketType]
      BY DEF Nil, BucketType
    <3>2. [i \in 0 .. len - 1 |-> Nil] \in BucketsType
      BY <3>1 DEF BucketsType
    <3>3. N = [len |-> len, pred |-> x, resizing |-> FALSE, overflow |-> 0, buckets |-> [i \in 0 .. len - 1 |-> Nil]]
      <4>1. x /= 0
        BY <1>1
      <4>2. QED
        BY <4>1 DEF Table
    <3>4. N \in TableType
      BY <1>1, <3>2, <3>3 DEF TableType
    <3>5. QED
      BY <3>3, <3>4 DEF Nil
  <2>6. N.len = len /\ N.pred = x
    BY DEF Table
  <2>7. /\ \A y \in DOMAIN tabs : /\ T1[y].len = tabs[y].len /\ T1[y].buckets = T[y].buckets
                                  /\ T1[y].pred \in {0, tabs[y].pred}
                                  /\ DOMAIN T1[y].buckets = 0 .. T1[y].len - 1
                                  /\ tabs[y].resizing => T1[y].resizing
        /\ T1[x].resizing
    <3>1. \A y \in DOMAIN tabs : T1[y] = IF y = x THEN [T[x] EXCEPT !.resizing = TRUE] ELSE T[y]
      BY <1>2
    <3>2. [T[x] EXCEPT !.resizing = TRUE].len = T[x].len /\ [T[x] EXCEPT !.resizing = TRUE].buckets = T[x].buckets
          /\ [T[x] EXCEPT !.resizing = TRUE].pred = T[x].pred /\ [T[x] EXCEPT !.resizing = TRUE].resizing
      BY <2>3 DEF TableType
    <3>3. QED
      BY <3>1, <3>2 DEF SameTables
  <2> HIDE DEF T1, N
  <2>8. /\ Append(T1, N) \in Seq(TableType) /\ Len(Append(T1, N)) = Len(tabs) + 1
        /\ DOMAIN Append(T1, N) = 1 .. Len(tabs) + 1
        /\ \A y \in 1 .. Len(tabs) : Append(T1, N)[y] = T1[y]
        /\ Append(T1, N)[Len(tabs) + 1] = N
    BY <1>1, <2>4, <2>5
  <2>9. ASSUME NEW y \in DOMAIN tabs'
        PROVE  /\ DOMAIN tabs'[y].buckets = 0 .. tabs'[y].len - 1
               /\ tabs'[y].pred = 0 \/ tabs'[y].pred = y - 1
               /\ y > 1 => tabs'[y].len > tabs'[y - 1].len \/ 2 * tabs'[y].len <= tabs'[y - 1].len
               /\ y < Len(tabs') => tabs'[y].resizing
    <3>1. CASE y \in DOMAIN tabs
      <4>1. tabs'[y] = T1[y] /\ (y > 1 => tabs'[y - 1] = T1[y - 1] /\ y - 1 \in DOMAIN tabs)
        BY <1>1, <2>1, <2>8, <3>1
      <4>2. tabs[y].pred = 0 \/ tabs[y].pred = y - 1
        BY <3>1 DEF TablesOK
      <4>3. y > 1 => tabs[y].len > tabs[y - 1].len \/ 2 * tabs[y].len <= tabs[y - 1].len
        BY <3>1 DEF TablesOK
      <4>4. y < Len(tabs') => tabs'[y].resizing
        <5>1. y < x \/ y = x
          BY <1>1, <2>2, <3>1
        <5>2. y < x => tabs[y].resizing
          BY <2>2, <3>1 DEF TablesOK
        <5>3. QED
          BY <2>7, <3>1, <4>1, <5>1, <5>2
      <4>5. QED
        BY <2>7, <3>1, <4>1, <4>2, <4>3, <4>4
    <3>2. CASE y \notin DOMAIN tabs
      <4>1. y = Len(tabs) + 1 /\ tabs'[y] = N /\ tabs'[y - 1] = T1[x] /\ y - 1 = x /\ Len(tabs') = y
        BY <1>1, <2>1, <2>2, <2>8, <3>2
      <4>2. QED
        BY <2>5, <2>6, <2>7, <4>1
    <3>3. QED
      BY <3>1, <3>2
  <2>10. Grown
    BY <1>1, <2>1, <2>7, <2>8 DEF Grown
  <2>11. \A s : Places(tabs, s) => Places(tabs', s)
    BY <2>10 DEF Places, InTables, Grown
  <2>12. BgFits(tabs', bg')
    <3>1. bg' = [y \in 2 .. MaxTables |-> IF y \in DOMAIN tabs' \ DOMAIN tabs THEN [NoInit EXCEPT !.on = TRUE] ELSE bg[y]]
      BY <1>b DEF Started, BgFits, BgType
    <3>2. /\ [NoInit EXCEPT !.on = TRUE] \in [on : BOOLEAN, i : Nat, stack : Seq(Nat \X Nat)]
          /\ [NoInit EXCEPT !.on = TRUE].stack = <<>>
      <4>1. <<>> \in Seq(Nat \X Nat)
        OBVIOUS
      <4>2. NoInit \in [on : BOOLEAN, i : Nat, stack : Seq(Nat \X Nat)] /\ NoInit.stack = <<>>
        BY <4>1 DEF NoInit
      <4>3. QED
        BY <4>2
    <3>3. bg' \in BgType
      BY <1>b, <3>1, <3>2 DEF BgFits, BgType
    <3>4. ASSUME NEW y \in 2 .. MaxTables PROVE Places(tabs', bg'[y].stack) /\ (bg'[y].on => y \in DOMAIN tabs')
      <4>1. CASE y \in DOMAIN tabs' \ DOMAIN tabs
        BY <3>1, <3>2, <4>1 DEF Places
      <4>2. CASE y \notin DOMAIN tabs' \ DOMAIN tabs
        BY <1>b, <2>10, <2>11, <3>1, <4>2 DEF BgFits, Grown
      <4>3. QED
        BY <4>1, <4>2
    <3>5. QED
      BY <3>3, <3>4 DEF BgFits
  <2>13. \A n \in Node : InBucket(n)' => InBucket(n)
    <3>1. ASSUME NEW n \in Node, NEW y \in DOMAIN tabs', NEW i \in DOMAIN tabs'[y].buckets, n \in tabs'[y].buckets[i].nodes
          PROVE  InBucket(n)
      <4>1. CASE y \in DOMAIN tabs
        BY <1>1, <1>2, <1>3, <2>1, <2>7, <2>8, <3>1, <4>1
      <4>2. CASE y \notin DOMAIN tabs
        BY <1>1, <2>1, <2>5, <2>8, <3>1, <4>2
      <4>3. QED
        BY <4>1, <4>2
    <3>2. QED
      BY <3>1 DEF InBucket
  <2>14. Len(tabs') \in 1 .. MaxTables /\ tabs' \in Seq(TableType)
    <3>1. Len(tabs) + 1 \in 1 .. MaxTables
      BY <1>1, <1>2, <1>5
    <3>2. QED
      BY <2>1, <2>8, <3>1
  <2>15. TablesOK'
    BY <2>9, <2>12, <2>14 DEF TablesOK, BgFits, BgType
  <2>16. QED
    BY <2>10, <2>13, <2>15
<1>6. QED
  BY <1>4, <1>5

-----------------------------------------------------------------------------
(* The steps that leave nodes, handles and the list alone. *)

\* A step that moves t alone, and at most initialises buckets, keeps the
\* invariant when t refers to what it referred to.
LEMMA QuietStep ==
  ASSUME HoldInv, NEW t \in Threads, Moved(t), UNCHANGED <<node, hnd, lru, capacity>>,
         th'[t] \in ThreadType, Fits(th[t])', Places(tabs, th[t].stack)',
         TablesOK', Grown, \A n \in Node : InBucket(n)' => InBucket(n),
         closed' \in {"no", "close", "weak"}, closed = "close" => closed' = "close",
         Using(th'[t]) <=> Using(th[t]), Using(th'[t]) => th'[t].n = th[t].n,
         th'[t].op \in Get => hnd[t] = 0,
         \A h \in Listed : h \in ToSet(th'[t].rel) => h \in ToSet(th[t].rel),
         th'[t].pc \notin {"set", "deleted"},
         Has(th'[t]) => Has(th[t]) \/ node[th[t].n].value
  PROVE  HoldInv'
<1>1. TypeInv /\ RefInv /\ LruInv /\ DeadInv /\ ValueInv
  BY DEF HoldInv
<1>2. TypeInv'
  <2>1. ThreadsOK'
    BY <1>1, ThreadsKept
  <2>2. DataOK'
    BY <1>1 DEF TypeInv, DataOK
  <2>3. QED
    BY <2>1, <2>2 DEF TypeInv
<1>3. RefInv'
  <2>1. \A n \in Node : t \in UsersOf(n)' <=> t \in UsersOf(n)
    BY DEF UsersOf
  <2>2. QED
    BY <1>1, <2>1, RefKept
<1>4. LruInv'
  BY <1>1, LruKept
<1>5. DeadInv'
  <2>1. \A u \in Threads : Leaving(u) => node'[th[u].dk].ref = 0
    BY <1>1 DEF DeadInv
  <2>2. QED
    BY <1>1, <2>1, DeadKept
<1>6. ValueInv'
  <2>1. Has(th'[t]) => Using(th'[t])
    BY DEF Has, Using
  <2>2. Has(th'[t]) => th'[t].n \in Node /\ th'[t].n = th[t].n
    BY <1>2, <2>1 DEF TypeInv, ThreadsOK, Fits
  <2>3. \A h \in Handle : hnd'[h] \in {0, hnd[h]}
    OBVIOUS
  <2>4. QED
    BY <1>1, <2>2, <2>3, ValueKept
<1>7. QED
  BY <1>2, <1>3, <1>4, <1>5, <1>6 DEF HoldInv

\* The tables are as they were.
LEMMA TablesSame ==
  ASSUME TypeInv, UNCHANGED <<tabs, bg>>
  PROVE  TablesOK' /\ Grown /\ (\A n \in Node : InBucket(n)' => InBucket(n))
         /\ \A s : Places(tabs, s) => Places(tabs', s)
BY DEF TypeInv, TablesOK, Grown, InBucket, BgType

\* A goroutine that initialises the bucket it needs (initBucket) keeps the
\* invariant.
LEMMA StepOfInit ==
  ASSUME HoldInv, NEW t \in Threads, InitStepOf(t)
  PROVE  HoldInv'
<1>1. TypeInv /\ TablesOK /\ th[t] \in ThreadType /\ Fits(th[t]) /\ Places(tabs, th[t].stack)
      /\ closed \in {"no", "close", "weak"}
  BY DEF HoldInv, TypeInv, ThreadsOK, DataOK
<1> DEFINE s == th[t].stack
           x == s[1][1]
           i == s[1][2]
           r == InitBucket(x, i)
<1>2. /\ s /= <<>> /\ tabs' = r.tabs /\ th' = [th EXCEPT ![t].stack = Popped(@, r)]
      /\ UNCHANGED <<bg, node, hnd, lru, capacity, closed>>
  BY DEF InitStepOf, lruVars
<1>3. s \in Seq(Nat \X Nat) /\ s[1] \in Nat \X Nat /\ InTables(tabs, s[1])
  <2>1. s \in Seq(Nat \X Nat)
    BY <1>1 DEF ThreadType
  <2>2. 1 \in DOMAIN s
    BY <1>2, <2>1
  <2>3. QED
    BY <1>1, <2>1, <2>2 DEF Places
<1>4. s[1] = <<x, i>> /\ InTables(tabs, <<x, i>>)
  <2>1. s[1] = <<x, i>>
    BY <1>3
  <2>2. QED
    BY <1>3, <2>1
<1>5. /\ SameTables(r.tabs) /\ Fewer(r.tabs) /\ r.pop \in BOOLEAN
      /\ \/ r.push = <<>>
         \/ \E f \in Nat \X Nat : r.push = <<f>> /\ InTables(tabs, f)
  <2> HIDE DEF x, i
  <2>1. QED
    BY <1>1, <1>4, InitStep
<1>6. TablesOK' /\ Grown
  <2>1. BgFits(tabs, bg')
    BY <1>1, <1>2 DEF TablesOK, BgFits, BgType
  <2>2. QED
    BY <1>1, <1>2, <1>5, <2>1, TablesStay
<1>7. \A n \in Node : InBucket(n)' => InBucket(n)
  <2> HIDE DEF r
  <2>1. Fewer(tabs')
    BY <1>2, <1>5
  <2>2. \A n : (\E y \in DOMAIN tabs' : \E j \in DOMAIN tabs'[y].buckets : n \in tabs'[y].buckets[j].nodes) => InBucket(n)
    BY <2>1 DEF Fewer
  <2>3. QED
    BY <2>2 DEF InBucket
<1>8. Popped(s, r) \in Seq(Nat \X Nat) /\ Places(tabs, Popped(s, r))
  <2> HIDE DEF r
  <2>1. QED
    BY <1>1, <1>2, <1>3, <1>5, PoppedFits
<1> HIDE DEF r
<1>9. Moved(t) /\ th'[t] = [th[t] EXCEPT !.stack = Popped(s, r)]
  BY <1>1, <1>2 DEF Moved, TypeInv, ThreadsOK
<1>10. th'[t] \in ThreadType
  BY <1>1, <1>8, <1>9 DEF ThreadType
<1>11. /\ th'[t].pc = th[t].pc /\ th'[t].op = th[t].op /\ th'[t].key = th[t].key /\ th'[t].tab = th[t].tab
       /\ th'[t].n = th[t].n /\ th'[t].dk = th[t].dk /\ th'[t].rel = th[t].rel /\ th'[t].then = th[t].then
       /\ th'[t].inner = th[t].inner /\ th'[t].stack = Popped(s, r)
  BY <1>1, <1>9 DEF ThreadType
<1>12. th[t].pc \in {"get", "delete", "sweep"}
  BY <1>1, <1>2 DEF Fits
<1>13. Fits(th[t])'
  BY <1>1, <1>2, <1>6, <1>11, <1>12 DEF Fits, Using, Releases, Getting, Grown
<1>14. Places(tabs, th[t].stack)'
  BY <1>6, <1>8, <1>11 DEF Places, InTables, Grown
<1>15. (Using(th'[t]) <=> Using(th[t])) /\ (Has(th'[t]) => Has(th[t]))
  BY <1>11 DEF Using, Has, Releases
<1>16. th'[t].op \in Get => hnd[t] = 0
  BY <1>11 DEF HoldInv, RefInv
<1>17. QED
  BY <1>1, <1>2, <1>6, <1>7, <1>9, <1>10, <1>11, <1>12, <1>13, <1>14, <1>15, <1>16, QuietStep

\* The tables are as they were, too.
LEMMA QuietMove ==
  ASSUME HoldInv, NEW t \in Threads, Moved(t), UNCHANGED <<tabs, bg, node, hnd, lru, capacity>>,
         th'[t] \in ThreadType, Fits(th[t])', Places(tabs, th'[t].stack),
         closed' \in {"no", "close", "weak"}, closed = "close" => closed' = "close",
         Using(th'[t]) <=> Using(th[t]), Using(th'[t]) => th'[t].n = th[t].n,
         th'[t].op \in Get => hnd[t] = 0,
         \A h \in Listed : h \in ToSet(th'[t].rel) => h \in ToSet(th[t].rel),
         th'[t].pc \notin {"set", "deleted"},
         Has(th'[t]) => Has(th[t]) \/ node[th[t].n].value
  PROVE  HoldInv'
<1>1. TypeInv
  BY DEF HoldInv
<1>2. TablesOK' /\ Grown /\ (\A n \in Node : InBucket(n)' => InBucket(n))
  BY <1>1, TablesSame
<1>3. Places(tabs, th[t].stack)'
  BY DEF Places, InTables
<1>4. QED
  BY <1>2, <1>3, QuietStep

\* What the invariant says of one goroutine.
LEMMA Thread ==
  ASSUME HoldInv, NEW t \in Threads
  PROVE  /\ TypeInv /\ th[t] \in ThreadType /\ Fits(th[t]) /\ Places(tabs, th[t].stack)
         /\ closed \in {"no", "close", "weak"} /\ (th[t].op \in Get => hnd[t] = 0)
BY DEF HoldInv, TypeInv, ThreadsOK, DataOK, RefInv

\* A step that alters the record of t moves no other goroutine.
LEMMA Becomes ==
  ASSUME HoldInv, NEW t \in Threads, NEW v, th' = [th EXCEPT ![t] = v]
  PROVE  Moved(t) /\ th'[t] = v
BY DEF HoldInv, TypeInv, ThreadsOK, Moved

\* A goroutine outside of a call refers to nothing and is nowhere in the
\* tables.
LEMMA IdleFits ==
  /\ Idle \in ThreadType /\ Fits(Idle)' /\ Idle.stack = <<>> /\ Idle.rel = <<>> /\ Idle.op = None /\ Idle.pc = "idle"
  /\ Idle.key = None /\ Idle.n = 0 /\ Idle.then = None /\ ~Idle.inner /\ Idle.dk = None
  /\ ~Using(Idle) /\ ~Has(Idle) /\ Idle.op \notin Get
<1>1. None \notin AllOps /\ MaxNodes \in Nat
  BY CacheAssumption DEF CacheAssumption
<1>2. <<>> \in Seq(Nat \X Nat) /\ <<>> \in Seq(Handle)
  OBVIOUS
<1>3. /\ Idle.stack = <<>> /\ Idle.rel = <<>> /\ Idle.op = None /\ Idle.pc = "idle"
      /\ Idle.key = None /\ Idle.n = 0 /\ Idle.then = None /\ Idle.inner = FALSE /\ Idle.dk = None /\ Idle.tab = 0 /\ Idle.blen = 0
  BY DEF Idle
<1>4. Idle \in ThreadType
  BY <1>1, <1>2 DEF Idle, ThreadType, Labels
<1>5. ~Releases(Idle)
  BY <1>3 DEF Releases
<1>6. ~Using(Idle) /\ ~Has(Idle) /\ ~Getting(Idle)
  BY <1>3, <1>5 DEF Using, Has, Getting
<1>7. Idle.op \notin Get
  BY <1>1, <1>3 DEF Get, AllOps
<1>8. Fits(Idle)'
  BY <1>3, <1>5, <1>6 DEF Fits, Using, Has, Getting, Releases
<1>9. QED
  BY <1>3, <1>4, <1>6, <1>7, <1>8

\* To(t, l) alters nothing of t but its place.
LEMMA Goes ==
  ASSUME HoldInv, NEW t \in Threads, NEW l \in Labels, To(t, l)
  PROVE  /\ Moved(t) /\ th'[t] \in ThreadType /\ th'[t].pc = l
         /\ th'[t].op = th[t].op /\ th'[t].key = th[t].key /\ th'[t].tab = th[t].tab /\ th'[t].blen = th[t].blen
         /\ th'[t].stack = th[t].stack /\ th'[t].n = th[t].n /\ th'[t].dk = th[t].dk /\ th'[t].rel = th[t].rel
         /\ th'[t].then = th[t].then /\ th'[t].inner = th[t].inner
<1>1. th[t] \in ThreadType
  BY Thread
<1>2. th' = [th EXCEPT ![t] = [th[t] EXCEPT !.pc = l]]
  BY DEF To
<1>3. Moved(t) /\ th'[t] = [th[t] EXCEPT !.pc = l]
  BY <1>2, Becomes
<1>4. QED
  BY <1>1, <1>3 DEF ThreadType

\* A call that ends without a reference of its own keeps the invariant.
LEMMA Returns ==
  ASSUME HoldInv, NEW t \in Threads, th' = [th EXCEPT ![t] = Idle], UNCHANGED <<tabs, bg, node, hnd, lru, capacity, closed>>,
         ~Using(th[t])
  PROVE  HoldInv'
<1>1. Moved(t) /\ th'[t] = Idle
  BY Becomes
<1>2. Places(tabs, th'[t].stack)
  BY <1>1, IdleFits DEF Places
<1>3. Fits(th[t])' /\ th'[t] \in ThreadType
  BY <1>1, IdleFits
<1>4. ToSet(th'[t].rel) = {}
  BY <1>1, IdleFits DEF ToSet
<1>5. QED
  BY <1>1, <1>2, <1>3, <1>4, IdleFits, Thread, QuietMove

\* The start of a call of the cache keeps the invariant.
LEMMA CallStep ==
  ASSUME HoldInv, NEW t \in Threads, NEW o \in AllOps, NEW k \in Keys, Call(t, o, k)
  PROVE  HoldInv'
<1>1. /\ th[t].pc = "idle" /\ o \in AllOps \ {"capacity", "close", "closeweak"}
      /\ o \in Get => hnd[t] = 0
      /\ UNCHANGED <<tabs, bg, node, hnd, lru, capacity, closed>>
  BY DEF Call, tabVars, lruVars, Get
<1>2. th[t] = Idle
  BY <1>1, Thread DEF Fits
<1>3. CASE UNCHANGED th
  <2>1. th' = [th EXCEPT ![t] = Idle]
    BY <1>2, <1>3, Thread DEF TypeInv, ThreadsOK
  <2>2. QED
    BY <1>1, <1>2, <2>1, IdleFits, Returns
<1>4. CASE ~UNCHANGED th
  <2> DEFINE v == [Idle EXCEPT !.pc = IF o \in Keyed THEN "bucket" ELSE "lru", !.op = o, !.key = IF o = "evictall" THEN None ELSE k]
  <2>1. th' = [th EXCEPT ![t] = v]
    BY <1>4 DEF Call
  <2>2. Moved(t) /\ th'[t] = v
    BY <2>1, Becomes
  <2>3. /\ v.pc = (IF o \in Keyed THEN "bucket" ELSE "lru") /\ v.op = o /\ v.key = (IF o = "evictall" THEN None ELSE k)
        /\ v.stack = <<>> /\ v.rel = <<>> /\ v.then = None /\ v.inner = FALSE /\ v.n = 0
    BY DEF Idle
  <2>4. v \in ThreadType
    BY IdleFits DEF ThreadType, Labels
  <2> HIDE DEF v
  <2>5. ~Releases(v) /\ ~Using(v) /\ ~Has(v) /\ ~Getting(v)
    BY <2>3 DEF Releases, Using, Has, Getting
  <2>6. o \in Keyed => o /= "evictall"
    BY DEF Keyed
  <2>7. o \notin Keyed => o \in {"evictns", "evictall"}
    BY <1>1 DEF AllOps, Keyed
  <2>8. Fits(v)'
    BY <2>3, <2>5, <2>6, <2>7 DEF Fits, Using, Releases, Getting
  <2>9. Places(tabs, th'[t].stack) /\ ToSet(th'[t].rel) = {}
    BY <2>2, <2>3 DEF Places, ToSet
  <2>10. v.pc \notin {"set", "deleted"}
    BY <2>3
  <2>11. ~Using(th[t])
    BY <1>2, IdleFits
  <2>12. v.op \in Get => hnd[t] = 0
    BY <1>1, <2>3
  <2>13. QED
    BY <1>1, <2>2, <2>4, <2>5, <2>8, <2>9, <2>10, <2>11, <2>12, Thread, QuietMove
<1>5. QED
  BY <1>3, <1>4

\* The start of Close and CloseWeak keeps the invariant.
LEMMA CloseStep ==
  ASSUME HoldInv, NEW t \in Threads, NEW o, Close(t, o)
  PROVE  HoldInv'
<1>1. /\ th[t].pc = "idle" /\ o \in {"close", "closeweak"}
      /\ th' = [th EXCEPT ![t].pc = "lock", ![t].op = o]
      /\ UNCHANGED <<tabs, bg, node, hnd, lru, capacity, closed>>
  BY DEF Close, tabVars, lruVars
<1>2. th[t] = Idle /\ th \in [Threads -> ThreadType]
  BY <1>1, Thread DEF Fits, TypeInv, ThreadsOK
<1> DEFINE v == [Idle EXCEPT !.pc = "lock", !.op = o]
<1>3. th' = [th EXCEPT ![t] = v]
  BY <1>1, <1>2
<1>4. Moved(t) /\ th'[t] = v
  BY <1>3, Becomes
<1>5. /\ v.pc = "lock" /\ v.op = o /\ v.stack = <<>> /\ v.rel = <<>> /\ v.then = None /\ v.inner = FALSE /\ v.n = 0
  BY DEF Idle
<1>6. v \in ThreadType
  BY <1>1, IdleFits DEF ThreadType, Labels, AllOps
<1> HIDE DEF v
<1>7. ~Releases(v) /\ ~Using(v) /\ ~Has(v) /\ ~Getting(v) /\ v.op \notin Get
  BY <1>1, <1>5 DEF Releases, Using, Has, Getting, Get
<1>8. Fits(v)'
  BY <1>1, <1>5, <1>7 DEF Fits, Using, Releases, Getting
<1>9. Places(tabs, th'[t].stack) /\ ToSet(th'[t].rel) = {}
  BY <1>4, <1>5 DEF Places, ToSet
<1>10. ~Using(th[t])
  BY <1>2, IdleFits
<1>11. QED
  BY <1>1, <1>4, <1>5, <1>6, <1>7, <1>8, <1>9, <1>10, Thread, QuietMove

\* Close that has got the lock of the cache keeps the invariant.
LEMMA CloseLockStep ==
  ASSUME HoldInv, NEW t \in Threads, CloseLock(t)
  PROVE  HoldInv'
<1>1. /\ th[t].pc = "lock" /\ UNCHANGED <<tabs, bg, node, hnd, lru, capacity>>
      /\ closed' = IF closed /= "no" THEN closed ELSE IF th[t].op = "close" THEN "close" ELSE "weak"
  BY DEF CloseLock, tabVars, lruVars
<1>2. closed' \in {"no", "close", "weak"} /\ (closed = "close" => closed' = "close")
  BY <1>1, Thread
<1>3. th[t] \in ThreadType /\ Fits(th[t]) /\ Places(tabs, th[t].stack)
  BY Thread
<1>4. th[t].inner = FALSE /\ ~Releases(th[t]) /\ ~Using(th[t])
  BY <1>1, <1>3 DEF Fits, ThreadType, Releases, Using
<1>5. CASE th[t].op = "close" /\ closed /= "no"
  <2>1. th' = [th EXCEPT ![t] = Idle] /\ closed' = closed
    BY <1>1, <1>5 DEF CloseLock
  <2>2. QED
    BY <1>1, <1>4, <2>1, Returns
<1>6. CASE ~(th[t].op = "close" /\ closed /= "no")
  <2> DEFINE l == IF th[t].op = "close" THEN "sweep" ELSE "lru"
  <2>1. To(t, l)
    BY <1>6 DEF CloseLock, To
  <2>2. l \in Labels
    BY DEF Labels
  <2>3. /\ Moved(t) /\ th'[t] \in ThreadType /\ th'[t].pc = l /\ th'[t].op = th[t].op /\ th'[t].key = th[t].key
        /\ th'[t].stack = th[t].stack /\ th'[t].rel = th[t].rel /\ th'[t].inner = FALSE
    BY <1>4, <2>1, <2>2, Goes
  <2>4. ~Releases(th'[t]) /\ ~Using(th'[t]) /\ ~Has(th'[t]) /\ ~Getting(th'[t])
    BY <2>3 DEF Releases, Using, Has, Getting
  <2>5. th[t].op \in {"close", "closeweak"}
    BY <1>1, <1>3 DEF Fits
  <2>6. th'[t].pc = "sweep" => closed' = "close"
    BY <1>1, <1>6, <2>3
  <2>7. th[t].stack = <<>>
    BY <1>1, <1>3 DEF Fits
  <2>8. Fits(th[t])'
    BY <2>3, <2>4, <2>5, <2>6, <2>7 DEF Fits, Using, Releases, Getting
  <2>9. QED
    BY <1>1, <1>2, <1>3, <1>4, <2>3, <2>4, <2>8, Thread, QuietMove
<1>7. QED
  BY <1>5, <1>6

\* getBucket, of a lookup or of a deletion, keeps the invariant.
LEMMA GetBucketStep ==
  ASSUME HoldInv, NEW t \in Threads, GetBucket(t)
  PROVE  HoldInv'
<1> DEFINE k == IF th[t].pc = "bucket" THEN th[t].key ELSE th[t].dk
           b == BucketOf(k)
           s == IF tabs[b[1]].buckets[b[2]].set THEN <<>> ELSE <<b>>
           l == IF th[t].pc = "bucket" THEN "get" ELSE "delete"
           v == [th[t] EXCEPT !.tab = b[1], !.pc = l, !.stack = s]
<1>1. /\ th[t].pc \in {"bucket", "dbucket"} /\ UNCHANGED <<tabs, bg, node, hnd, lru, capacity, closed>>
      /\ th' = [th EXCEPT ![t].tab = b[1], ![t].pc = IF @ = "bucket" THEN "get" ELSE "delete", ![t].stack = s]
  BY DEF GetBucket, tabVars, lruVars
<1>2. th[t] \in ThreadType /\ Fits(th[t]) /\ th \in [Threads -> ThreadType]
  BY Thread DEF TypeInv, ThreadsOK
<1>3. k \in Nat
  BY <1>1, <1>2, CacheAssumption DEF Fits, CacheAssumption
<1>4. mHead \in DOMAIN tabs /\ mHead \in Nat /\ tabs[mHead].len \in Nat \ {0}
  <2>1. TablesOK
    BY DEF HoldInv, TypeInv
  <2>2. mHead \in DOMAIN tabs
    BY <2>1, CacheAssumption DEF TablesOK, mHead, CacheAssumption
  <2>3. QED
    BY <2>1, <2>2, BucketsOf DEF mHead, TablesOK
<1>5. b = <<mHead, k % tabs[mHead].len>>
  BY DEF BucketOf
<1>6. k % tabs[mHead].len \in 0 .. tabs[mHead].len - 1 /\ k % tabs[mHead].len \in Nat
  <2> HIDE DEF k
  <2>1. QED
    BY <1>3, <1>4
<1> HIDE DEF k
<1>7. b \in Nat \X Nat /\ InTables(tabs, b) /\ b[1] = mHead
  BY <1>4, <1>5, <1>6 DEF InTables
<1> HIDE DEF b
<1>8. s \in Seq(Nat \X Nat) /\ Places(tabs, s)
  <2>1. <<>> \in Seq(Nat \X Nat) /\ Places(tabs, <<>>)
    BY DEF Places
  <2>2. <<b>> \in Seq(Nat \X Nat) /\ Places(tabs, <<b>>)
    BY <1>7 DEF Places
  <2>3. QED
    BY <2>1, <2>2
<1> HIDE DEF s
<1>9. th' = [th EXCEPT ![t] = v]
  BY <1>1, <1>2
<1>10. Moved(t) /\ th'[t] = v
  BY <1>9, Becomes
<1>11. l \in Labels /\ l \in {"get", "delete"} /\ (l = "get" <=> th[t].pc = "bucket")
  BY DEF Labels
<1>12. v \in ThreadType
  BY <1>2, <1>4, <1>7, <1>8, <1>11 DEF ThreadType
<1>13. /\ v.pc = l /\ v.tab = mHead /\ v.stack = s /\ v.op = th[t].op /\ v.key = th[t].key /\ v.n = th[t].n /\ v.dk = th[t].dk
       /\ v.rel = th[t].rel /\ v.then = th[t].then /\ v.inner = th[t].inner
  BY <1>2, <1>7 DEF ThreadType
<1> HIDE DEF v, l
<1>14. (Releases(v) <=> Releases(th[t])) /\ (Using(v) <=> Using(th[t])) /\ (Has(v) <=> Has(th[t])) /\ (Getting(v) <=> Getting(th[t]))
  BY <1>1, <1>11, <1>13 DEF Releases, Using, Has, Getting
<1>15. Fits(th[t])'
  <2>1. v.pc \in {"get", "delete"} /\ (v.pc = "get" => v.key \in Keys) /\ (v.pc = "delete" => v.dk \in Keys)
    BY <1>1, <1>2, <1>11, <1>13 DEF Fits
  <2>2. /\ v.tab \in DOMAIN tabs' /\ v.tab \in DOMAIN tabs
        /\ Using(v) => v.n \in Node
        /\ Releases(v) => v.rel /= <<>> /\ v.then \in Ends
        /\ Getting(v) => v.op \in Get
    BY <1>1, <1>2, <1>4, <1>13, <1>14 DEF Fits
  <2>3. v.inner => v.pc = "delete"
    BY <1>1, <1>2, <1>11, <1>13 DEF Fits
  <2>4. (Using(th'[t]) <=> Using(v)) /\ (Releases(th'[t]) <=> Releases(v)) /\ (Getting(th'[t]) <=> Getting(v))
    BY <1>10
  <2>5. QED
    BY <1>10, <2>1, <2>2, <2>3, <2>4 DEF Fits
<1>16. v.pc \notin {"set", "deleted"}
  BY <1>11, <1>13
<1>17. /\ Fits(th[t])' /\ th'[t] \in ThreadType /\ Places(tabs, th'[t].stack)
  BY <1>8, <1>10, <1>12, <1>13, <1>15
<1>18. th'[t].op \in Get => hnd[t] = 0
  BY <1>10, <1>13, Thread
<1>19. (Using(th'[t]) <=> Using(th[t])) /\ th'[t].n = th[t].n /\ th'[t].rel = th[t].rel /\ (Has(th'[t]) => Has(th[t]))
  BY <1>10, <1>13, <1>14
<1>20. closed' \in {"no", "close", "weak"} /\ (closed = "close" => closed' = "close")
  BY <1>1, Thread
<1>21. QED
  BY <1>1, <1>10, <1>16, <1>17, <1>18, <1>19, <1>20, QuietMove

\* t goes on to release the handles ns, and to label l after that.
After(t, ns, l) ==
    /\ Moved(t) /\ th'[t] \in ThreadType /\ Fits(th[t])' /\ th'[t].stack = <<>>
    /\ Using(th'[t]) <=> l \in {"handle", "unref"}
    /\ Has(th'[t]) <=> l = "handle"
    /\ Using(th'[t]) => th'[t].n = th[t].n
    /\ th'[t].op \in Get => th[t].op \in Get
    /\ th'[t].pc \notin {"set", "deleted"}
    /\ ToSet(th'[t].rel) = ToSet(ns)

\* A goroutine that has nothing to release and nothing left to do is idle.
LEMMA AfterIdle ==
  ASSUME HoldInv, NEW t \in Threads, th' = [th EXCEPT ![t] = Idle]
  PROVE  After(t, <<>>, "idle")
<1>1. Moved(t) /\ th'[t] = Idle
  BY Becomes
<1>2. Fits(th[t])' /\ th'[t] \in ThreadType
  BY <1>1, IdleFits
<1>3. QED
  BY <1>1, <1>2, IdleFits DEF After

\* A goroutine that starts to release the handles ns, to go on at l, refers to
\* nothing new.
LEMMA AfterGoes ==
  ASSUME HoldInv, NEW t \in Threads, NEW ns \in Seq(Handle), NEW l \in Ends, ~(ns = <<>> /\ l = "idle"),
         Moved(t), th'[t] \in ThreadType,
         th'[t].pc = IF ns = <<>> THEN l ELSE "release",
         th'[t].rel = ns, th'[t].then = l, ~th'[t].inner, th'[t].stack = <<>>,
         th'[t].n = th[t].n, th'[t].op = th[t].op, l \in {"handle", "unref"} => th[t].n \in Node,
         l = "handle" => th[t].op \in Get
  PROVE  After(t, ns, l)
<1>1. Releases(th'[t]) <=> ns /= <<>>
  BY DEF Releases, Ends
<1>2. /\ Using(th'[t]) <=> l \in {"handle", "unref"}
      /\ Has(th'[t]) <=> l = "handle"
      /\ Getting(th'[t]) <=> l = "handle"
  <2>1. CASE ns = <<>>
    BY <1>1, <2>1 DEF Using, Has, Getting, Ends
  <2>2. CASE ns /= <<>>
    BY <1>1, <2>2 DEF Using, Has, Getting, Ends
  <2>3. QED
    BY <2>1, <2>2
<1>3. th'[t].pc \in {"return", "handle", "unref", "release"}
  BY DEF Ends
<1>4. Fits(th[t])'
  BY <1>1, <1>2, <1>3 DEF Fits
<1>5. QED
  BY <1>2, <1>3, <1>4 DEF After

\* The same for the code that hands ns over to be released.
LEMMA ReleasingGoes ==
  ASSUME HoldInv, NEW t \in Threads, NEW ns \in Seq(Handle), NEW l \in Ends, Releasing(t, ns, l),
         ~th[t].inner, th[t].stack = <<>>, l \in {"handle", "unref"} => th[t].n \in Node,
         l = "handle" => th[t].op \in Get
  PROVE  After(t, ns, l)
<1>1. CASE ns = <<>> /\ l = "idle"
  <2>1. th' = [th EXCEPT ![t] = Idle]
    BY <1>1 DEF Releasing
  <2>2. QED
    BY <1>1, <2>1, AfterIdle
<1>2. CASE ~(ns = <<>> /\ l = "idle")
  <2> DEFINE v == [th[t] EXCEPT !.pc = IF ns = <<>> THEN l ELSE "release", !.rel = ns, !.then = l]
  <2>1. th' = [th EXCEPT ![t] = v]
    BY <1>2 DEF Releasing
  <2>2. Moved(t) /\ th'[t] = v
    BY <2>1, Becomes
  <2>3. th[t] \in ThreadType
    BY Thread
  <2>4. (IF ns = <<>> THEN l ELSE "release") \in Labels
    BY DEF Ends, Labels
  <2>5. v \in ThreadType
    BY <2>3, <2>4 DEF ThreadType, Ends
  <2>6. /\ v.pc = (IF ns = <<>> THEN l ELSE "release") /\ v.rel = ns /\ v.then = l /\ v.inner = th[t].inner
        /\ v.stack = th[t].stack /\ v.n = th[t].n /\ v.op = th[t].op
    BY <2>3 DEF ThreadType
  <2>7. QED
    BY <1>2, <2>2, <2>5, <2>6, AfterGoes
<1>3. QED
  BY <1>1, <1>2

\* The handle that is being released goes from the list.
LEMMA TailOf ==
  ASSUME NEW s \in Seq(Handle), s /= <<>>
  PROVE  Tail(s) \in Seq(Handle) /\ s[1] \in Handle /\ s[1] \in ToSet(s) /\ ToSet(Tail(s)) \subseteq ToSet(s)
<1>1. Tail(s) \in Seq(Handle) /\ 1 \in DOMAIN s /\ s[1] \in Handle
  OBVIOUS
<1>2. \A i \in DOMAIN Tail(s) : i + 1 \in DOMAIN s /\ Tail(s)[i] = s[i + 1]
  OBVIOUS
<1>3. QED
  BY <1>1, <1>2 DEF ToSet

\* The end of a deletion: the next handle to release, or the end of the call.
LEMMA EndDeleteGoes ==
  ASSUME HoldInv, NEW t \in Threads, EndDelete(t), th[t].pc \in {"delete", "deleted"}, th[t].stack = <<>>
  PROVE  /\ th[t].inner => After(t, Tail(th[t].rel), th[t].then) /\ th[t].then \in Ends
         /\ ~th[t].inner => After(t, <<>>, "idle")
<1>1. th[t] \in ThreadType /\ Fits(th[t])
  BY Thread
<1>2. CASE ~th[t].inner
  <2>1. th' = [th EXCEPT ![t] = Idle]
    BY <1>2 DEF EndDelete, Return
  <2>2. QED
    BY <1>2, <2>1, AfterIdle
<1>3. CASE th[t].inner
  <2> DEFINE rel == Tail(th[t].rel)
             l == th[t].then
             go == IF rel = <<>> THEN l ELSE "release"
             v == [th[t] EXCEPT !.pc = go, !.rel = rel, !.inner = FALSE, !.dk = None]
  <2>1. Releases(th[t])
    BY <1>3 DEF Releases
  <2>2. rel \in Seq(Handle) /\ l \in Ends
    BY <1>1, <2>1, TailOf DEF Fits, ThreadType, Ends
  <2>3. go \in Labels
    BY <2>2 DEF Ends, Labels
  <2>4. th' = [th EXCEPT ![t] = IF go = "idle" THEN Idle ELSE v]
    BY <1>3 DEF EndDelete
  <2>5. CASE rel = <<>> /\ l = "idle"
    <3>1. th' = [th EXCEPT ![t] = Idle]
      BY <2>4, <2>5
    <3>2. QED
      BY <1>3, <2>2, <2>5, <3>1, AfterIdle
  <2>6. CASE ~(rel = <<>> /\ l = "idle")
    <3>1. th' = [th EXCEPT ![t] = v]
      BY <2>4, <2>6
    <3>2. Moved(t) /\ th'[t] = v
      BY <3>1, Becomes
    <3> HIDE DEF rel
    <3>3. v \in ThreadType
      BY <1>1, <2>2, <2>3 DEF ThreadType
    <3>4. /\ v.pc = go /\ v.rel = rel /\ v.then = l /\ v.inner = FALSE
          /\ v.stack = <<>> /\ v.n = th[t].n /\ v.op = th[t].op
      BY <1>1 DEF ThreadType
    <3>5. l \in {"handle", "unref"} => th[t].n \in Node
      BY <1>1, <2>1 DEF Fits, Using
    <3>6. l = "handle" => th[t].op \in Get
      BY <1>1, <2>1 DEF Fits, Getting
    <3>7. After(t, rel, l)
      BY <2>2, <2>6, <3>2, <3>3, <3>4, <3>5, <3>6, AfterGoes
    <3>8. QED
      BY <1>3, <2>2, <3>7 DEF rel
  <2>7. QED
    BY <2>5, <2>6
<1>4. QED
  BY <1>2, <1>3

\* The quiet steps that end so.
LEMMA QuietAfter ==
  ASSUME HoldInv, NEW t \in Threads, NEW ns \in Seq(Handle), NEW l \in Ends, After(t, ns, l),
         UNCHANGED <<tabs, bg, node, hnd, lru, capacity, closed>>,
         Using(th[t]) <=> l \in {"handle", "unref"}, l = "handle" => Has(th[t]),
         \A h \in Listed : h \in ToSet(ns) => h \in ToSet(th[t].rel)
  PROVE  HoldInv'
<1>1. /\ Moved(t) /\ th'[t] \in ThreadType /\ Fits(th[t])' /\ th'[t].stack = <<>>
      /\ Using(th'[t]) <=> Using(th[t])
      /\ Has(th'[t]) => Has(th[t])
      /\ Using(th'[t]) => th'[t].n = th[t].n
      /\ th'[t].op \in Get => hnd[t] = 0
      /\ th'[t].pc \notin {"set", "deleted"}
      /\ ToSet(th'[t].rel) = ToSet(ns)
  BY Thread DEF After
<1>2. Places(tabs, th'[t].stack)
  BY <1>1 DEF Places
<1>3. closed' \in {"no", "close", "weak"} /\ (closed = "close" => closed' = "close")
  BY Thread
<1>4. QED
  BY <1>1, <1>2, <1>3, QuietMove

\* Handle.Release of a caller keeps the invariant.
LEMMA ReleaseHandleStep ==
  ASSUME HoldInv, NEW t \in Threads, ReleaseHandle(t)
  PROVE  HoldInv'
<1>1. /\ th[t].pc = "idle" /\ Releasing(t, <<t>>, "idle")
      /\ UNCHANGED <<tabs, bg, node, hnd, lru, capacity, closed>>
  BY DEF ReleaseHandle, tabVars, lruVars
<1>2. th[t] = Idle
  BY <1>1, Thread DEF Fits
<1>3. t \in Handle /\ t \notin Listed
  BY CacheAssumption DEF Handle, Listed, CacheAssumption
<1>4. <<t>> \in Seq(Handle) /\ ToSet(<<t>>) = {t} /\ "idle" \in Ends
  BY <1>3 DEF ToSet, Ends
<1>5. After(t, <<t>>, "idle")
  BY <1>1, <1>2, <1>4, IdleFits, ReleasingGoes
<1>6. ~Using(th[t])
  BY <1>2, IdleFits
<1>7. \A h \in Listed : h \notin ToSet(<<t>>)
  BY <1>3, <1>4
<1>8. QED
  BY <1>1, <1>4, <1>5, <1>6, <1>7, QuietAfter

\* The read lock that unRefExternal takes keeps the invariant.
LEMMA RLockStep ==
  ASSUME HoldInv, NEW t \in Threads, RLock(t)
  PROVE  HoldInv'
<1>1. /\ th[t].pc = "rlock" /\ UNCHANGED <<tabs, bg, node, hnd, lru, capacity, closed>>
  BY DEF RLock, tabVars, lruVars
<1>2. th[t] \in ThreadType /\ Fits(th[t]) /\ Releases(th[t]) /\ ~th[t].inner /\ th[t].stack = <<>>
  BY <1>1, Thread DEF Fits, Releases, ThreadType
<1>3. th[t].rel \in Seq(Handle) /\ th[t].rel /= <<>> /\ th[t].then \in Ends
  BY <1>2 DEF Fits, ThreadType, Ends
<1>4. CASE closed = "no"
  <2> DEFINE v == [th[t] EXCEPT !.pc = "dbucket", !.inner = TRUE]
  <2>1. th' = [th EXCEPT ![t] = v]
    BY <1>4 DEF RLock
  <2>2. Moved(t) /\ th'[t] = v
    BY <2>1, Becomes
  <2>3. v \in ThreadType
    BY <1>2 DEF ThreadType, Labels
  <2>4. /\ v.pc = "dbucket" /\ v.inner = TRUE /\ v.op = th[t].op /\ v.key = th[t].key /\ v.tab = th[t].tab
        /\ v.stack = th[t].stack /\ v.n = th[t].n /\ v.dk = th[t].dk /\ v.rel = th[t].rel /\ v.then = th[t].then
    BY <1>2 DEF ThreadType
  <2> HIDE DEF v
  <2>5. /\ Releases(v) /\ (Using(v) <=> Using(th[t])) /\ (Has(v) <=> Has(th[t])) /\ (Getting(v) <=> Getting(th[t]))
    BY <1>1, <1>2, <2>4 DEF Releases, Using, Has, Getting
  <2>6. Fits(th[t])'
    <3>1. /\ th[t].dk \in Keys
          /\ Using(v) => v.n \in Node
          /\ v.rel /= <<>> /\ v.then \in Ends
          /\ Getting(v) => v.op \in Get
      BY <1>1, <1>2, <2>4, <2>5 DEF Fits
    <3>2. (Using(th'[t]) <=> Using(v)) /\ (Releases(th'[t]) <=> Releases(v)) /\ (Getting(th'[t]) <=> Getting(v))
      BY <2>2
    <3>3. QED
      BY <1>2, <2>2, <2>4, <3>1, <3>2 DEF Fits
  <2>7. Places(tabs, th'[t].stack)
    BY <1>2, <2>2, <2>4 DEF Places
  <2>8. QED
    BY <1>1, <2>2, <2>3, <2>4, <2>5, <2>6, <2>7, Thread, QuietMove
<1>5. CASE closed /= "no"
  <2>1. Releasing(t, Tail(th[t].rel), th[t].then)
    BY <1>5 DEF RLock
  <2>2. Tail(th[t].rel) \in Seq(Handle) /\ ToSet(Tail(th[t].rel)) \subseteq ToSet(th[t].rel)
    BY <1>3, TailOf
  <2>3. th[t].then \in {"handle", "unref"} <=> Using(th[t])
    BY <1>1, <1>2 DEF Using
  <2>4. th[t].then = "handle" <=> Has(th[t])
    BY <1>1, <1>2 DEF Has
  <2>5. Has(th[t]) => Getting(th[t])
    BY DEF Has, Getting
  <2>6. After(t, Tail(th[t].rel), th[t].then)
    BY <1>2, <1>3, <2>1, <2>2, <2>3, <2>4, <2>5, ReleasingGoes DEF Fits
  <2>7. QED
    BY <1>1, <1>3, <2>2, <2>3, <2>4, <2>6, QuietAfter
<1>6. QED
  BY <1>4, <1>5

-----------------------------------------------------------------------------
(* The steps that alter nodes and references. *)

\* A step that moves one reference, of handle h or of t, and counts it keeps
\* the counts right.
LEMMA RefMoved ==
  ASSUME TypeInv, RefInv, NEW t \in Threads, NEW h \in Handle, Moved(t),
         \A g \in Handle \ {h} : hnd'[g] = hnd[g],
         \A n \in Node : node'[n].ref = node[n].ref + Bit(hnd'[h] = n) - Bit(hnd[h] = n)
                                        + Bit(Using(th'[t]) /\ th'[t].n = n) - Bit(Using(th[t]) /\ th[t].n = n),
         \A n \in Node : node'[n].ref /= 0 => node'[n].key \in Keys,
         \A u \in Threads : th'[u].op \in Get => hnd'[u] = 0
  PROVE  RefInv'
<1>1. \A u \in Threads \ {t} : th'[u] = th[u]
  BY DEF TypeInv, ThreadsOK, Moved
<1>2. ASSUME NEW n \in Node PROVE node'[n].ref = Referred(n)'
  <2>1. /\ Referred(n) \in Nat
        /\ Referred(n)' = Referred(n) + Bit(hnd'[h] = n) - Bit(hnd[h] = n)
                           + Bit(t \in UsersOf(n)') - Bit(t \in UsersOf(n))
    BY <1>1, Counted
  <2>2. node[n].ref = Referred(n)
    BY DEF RefInv
  <2>3. (t \in UsersOf(n)' <=> Using(th'[t]) /\ th'[t].n = n) /\ (t \in UsersOf(n) <=> Using(th[t]) /\ th[t].n = n)
    BY DEF UsersOf
  <2>4. /\ Bit(t \in UsersOf(n)') = Bit(Using(th'[t]) /\ th'[t].n = n)
        /\ Bit(t \in UsersOf(n)) = Bit(Using(th[t]) /\ th[t].n = n)
    BY <2>3 DEF Bit
  <2>5. node'[n].ref = node[n].ref + Bit(hnd'[h] = n) - Bit(hnd[h] = n)
                        + Bit(Using(th'[t]) /\ th'[t].n = n) - Bit(Using(th[t]) /\ th[t].n = n)
    OBVIOUS
  <2>6. QED
    BY <2>1, <2>2, <2>4, <2>5
<1>3. QED
  BY <1>2 DEF RefInv

\* Labels of a call that has a node, and goes on.
LEMMA GoesOn ==
  ASSUME HoldInv, NEW t \in Threads, NEW l \in {"value", "set", "promote", "unref", "ban"}, To(t, l),
         Using(th[t]), ~th[t].inner, th[t].stack = <<>>, l \in {"value", "set", "promote"} => th[t].op \in Get
  PROVE  /\ Moved(t) /\ th'[t] \in ThreadType /\ Fits(th[t])' /\ th'[t].stack = <<>> /\ Using(th'[t])
         /\ th'[t].n = th[t].n /\ th[t].n \in Node /\ th'[t].op = th[t].op /\ th'[t].pc = l /\ th'[t].rel = th[t].rel
         /\ Has(th'[t]) <=> l = "promote"
<1>1. th[t] \in ThreadType /\ Fits(th[t])
  BY Thread
<1>2. l \in Labels
  BY DEF Labels
<1>3. /\ Moved(t) /\ th'[t] \in ThreadType /\ th'[t].pc = l
      /\ th'[t].op = th[t].op /\ th'[t].stack = th[t].stack /\ th'[t].n = th[t].n /\ th'[t].rel = th[t].rel
      /\ th'[t].inner = th[t].inner
  BY <1>2, Goes
<1>4. ~Releases(th'[t]) /\ Using(th'[t]) /\ (Has(th'[t]) <=> l = "promote") /\ (Getting(th'[t]) => l \in {"value", "set", "promote"})
  BY <1>3 DEF Releases, Using, Has, Getting
<1>5. th[t].n \in Node
  BY <1>1 DEF Fits
<1>6. Fits(th[t])'
  BY <1>3, <1>4, <1>5 DEF Fits
<1>7. QED
  BY <1>3, <1>4, <1>5, <1>6

\* A step that leaves the tables, the handles, the keys and the counts alone.
LEMMA NodeStep ==
  ASSUME HoldInv, NEW t \in Threads, Moved(t), UNCHANGED <<tabs, bg, hnd, closed>>,
         th'[t] \in ThreadType, Fits(th[t])', th'[t].stack = <<>>, th'[t].pc /= "deleted",
         lru' \in Seq(EntryType), capacity' \in Nat, node' \in [Node -> NodeType],
         \A n \in Node : node'[n].ref = node[n].ref /\ node'[n].key = node[n].key,
         Using(th'[t]) <=> Using(th[t]), Using(th'[t]) => th'[t].n = th[t].n,
         th'[t].op \in Get => hnd[t] = 0,
         LruInv', ValueInv'
  PROVE  HoldInv'
<1>1. TypeInv /\ RefInv /\ LruInv /\ DeadInv /\ ValueInv
  BY DEF HoldInv
<1>2. TablesOK' /\ Grown /\ (\A n \in Node : InBucket(n)' => InBucket(n))
  BY <1>1, TablesSame
<1>3. TypeInv'
  <2>1. Places(tabs, th[t].stack)'
    BY DEF Places
  <2>2. ThreadsOK'
    BY <1>1, <1>2, <2>1, ThreadsKept
  <2>3. DataOK'
    BY <1>1 DEF TypeInv, DataOK
  <2>4. QED
    BY <1>2, <2>2, <2>3 DEF TypeInv
<1>4. RefInv'
  <2>1. \A n \in Node : t \in UsersOf(n)' <=> t \in UsersOf(n)
    BY DEF UsersOf
  <2>2. QED
    BY <1>1, <2>1, RefKept
<1>5. DeadInv'
  <2>1. \A u \in Threads : Leaving(u) => th[u].dk \in Node
    BY <1>1 DEF Leaving, TypeInv, ThreadsOK, Fits
  <2>2. \A u \in Threads : Leaving(u) => node'[th[u].dk].ref = 0
    BY <1>1, <2>1 DEF DeadInv
  <2>3. QED
    BY <1>1, <1>2, <2>2, DeadKept
<1>6. QED
  BY <1>1, <1>3, <1>4, <1>5 DEF HoldInv

\* The look at the value under the lock of the node keeps the invariant.
LEMMA ValueStep ==
  ASSUME HoldInv, NEW t \in Threads, Value(t)
  PROVE  HoldInv'
<1> DEFINE n == th[t].n
<1>1. /\ th[t].pc = "value" /\ node[n].mu = None
      /\ UNCHANGED <<tabs, bg, hnd, lru, capacity, closed>>
  BY DEF Value, tabVars, lruVars
<1>2. th[t] \in ThreadType /\ Fits(th[t]) /\ Using(th[t]) /\ Getting(th[t])
  BY <1>1, Thread DEF Using, Getting
<1>3. n \in Node /\ th[t].op \in Get /\ ~th[t].inner /\ th[t].stack = <<>> /\ hnd[t] = 0
  BY <1>1, <1>2, Thread DEF Fits
<1>4. ASSUME NEW l \in {"promote", "unref"}, To(t, l), UNCHANGED node, l = "promote" => node[n].value
      PROVE  HoldInv'
  <2>1. /\ Moved(t) /\ th'[t] \in ThreadType /\ Fits(th[t])' /\ th'[t].stack = <<>> /\ Using(th'[t])
        /\ th'[t].n = n /\ th'[t].op = th[t].op /\ th'[t].pc = l /\ th'[t].rel = th[t].rel
        /\ Has(th'[t]) <=> l = "promote"
    BY <1>2, <1>3, <1>4, GoesOn
  <2>2. Places(tabs, th'[t].stack)
    BY <2>1 DEF Places
  <2>3. th'[t].pc \notin {"set", "deleted"}
    BY <2>1
  <2>4. QED
    BY <1>1, <1>2, <1>3, <1>4, <2>1, <2>2, <2>3, Thread, QuietMove
<1>5. ASSUME To(t, "set"), node' = [node EXCEPT ![n].mu = t], ~node[n].value
      PROVE  HoldInv'
  <2>1. /\ Moved(t) /\ th'[t] \in ThreadType /\ Fits(th[t])' /\ th'[t].stack = <<>> /\ Using(th'[t])
        /\ th'[t].n = n /\ th'[t].op = th[t].op /\ th'[t].pc = "set" /\ th'[t].rel = th[t].rel
        /\ ~Has(th'[t])
    BY <1>2, <1>3, <1>5, GoesOn
  <2>2. TypeInv /\ LruInv /\ ValueInv /\ node \in [Node -> NodeType] /\ hnd \in [Handle -> 0 .. MaxNodes] /\ lru \in Seq(EntryType) /\ capacity \in Nat
    BY DEF HoldInv, TypeInv, DataOK
  <2>3. node' \in [Node -> NodeType] /\ \A m \in Node : /\ node'[m].ref = node[m].ref /\ node'[m].key = node[m].key
                                                        /\ node'[m].cd = node[m].cd /\ node'[m].value = node[m].value
                                                        /\ node'[m].mu = IF m = n THEN t ELSE node[m].mu
    BY <1>3, <1>5, <2>2 DEF NodeType
  <2>4. LruInv'
    BY <1>1, <2>1, <2>2, <2>3, LruKept
  <2>5. ValueInv'
    <3>1. \A u \in Threads \ {t} : th'[u] = th[u]
      BY <2>1, <2>2 DEF TypeInv, ThreadsOK, Moved
    <3>2. \A u \in Threads : th[u].pc = "set" => th[u].n \in Node /\ th[u].n /= n
      <4>1. ASSUME NEW u \in Threads, th[u].pc = "set" PROVE th[u].n \in Node /\ th[u].n /= n
        <5>1. th[u].n \in Node
          BY <4>1, Thread DEF Fits, Using
        <5>2. node[th[u].n].mu = u /\ u /= None
          BY <2>2, <4>1, CacheAssumption DEF ValueInv, CacheAssumption
        <5>3. QED
          BY <1>1, <5>1, <5>2
      <4>2. QED
        BY <4>1
    <3>3. \A u \in Threads : th'[u].pc = "set" => node'[th'[u].n].mu = u /\ ~node'[th'[u].n].value
      BY <1>3, <1>5, <2>1, <2>2, <2>3, <3>1, <3>2 DEF ValueInv
    <3>4. \A u \in Threads : Has(th[u]) => th[u].n \in Node
      BY Thread DEF Fits, Using, Has
    <3>5. \A h \in Handle : hnd[h] /= 0 => hnd[h] \in Node
      BY <2>2 DEF Node
    <3>6. QED
      BY <1>1, <2>1, <2>2, <2>3, <3>1, <3>3, <3>4, <3>5 DEF ValueInv
  <2>6. QED
    BY <1>1, <1>2, <1>3, <2>1, <2>2, <2>3, <2>4, <2>5, NodeStep
<1>6. QED
  BY <1>4, <1>5 DEF Value

\* setFunc keeps the invariant: it gives the node its value once, or leaves it
\* without one.
LEMMA SetFuncStep ==
  ASSUME HoldInv, NEW t \in Threads, NEW ok \in BOOLEAN, SetFunc(t, ok)
  PROVE  HoldInv'
<1> DEFINE n == th[t].n
           l == IF ok THEN "promote" ELSE "unref"
<1>1. /\ th[t].pc = "set" /\ node' = [node EXCEPT ![n].mu = None, ![n].value = ok] /\ To(t, l)
      /\ UNCHANGED <<tabs, bg, hnd, lru, capacity, closed>>
  BY DEF SetFunc, tabVars, lruVars
<1>2. th[t] \in ThreadType /\ Fits(th[t]) /\ Using(th[t]) /\ Getting(th[t])
  BY <1>1, Thread DEF Using, Getting
<1>3. n \in Node /\ th[t].op \in Get /\ ~th[t].inner /\ th[t].stack = <<>> /\ hnd[t] = 0
  BY <1>1, <1>2, Thread DEF Fits
<1>4. /\ Moved(t) /\ th'[t] \in ThreadType /\ Fits(th[t])' /\ th'[t].stack = <<>> /\ Using(th'[t])
      /\ th'[t].n = n /\ th'[t].op = th[t].op /\ th'[t].pc = l /\ th'[t].rel = th[t].rel
      /\ Has(th'[t]) <=> l = "promote"
  BY <1>1, <1>2, <1>3, GoesOn
<1>5. TypeInv /\ LruInv /\ ValueInv /\ node \in [Node -> NodeType] /\ hnd \in [Handle -> 0 .. MaxNodes] /\ lru \in Seq(EntryType) /\ capacity \in Nat
  BY DEF HoldInv, TypeInv, DataOK
<1>6. node' \in [Node -> NodeType] /\ \A m \in Node : /\ node'[m].ref = node[m].ref /\ node'[m].key = node[m].key
                                                      /\ node'[m].cd = node[m].cd
                                                      /\ m /= n => node'[m].value = node[m].value /\ node'[m].mu = node[m].mu
                                                      /\ m = n => node'[m].value = ok
  <2>1. \A m \in Node : node[m] \in NodeType
    BY <1>5
  <2>2. node' = [node EXCEPT ![n] = [node[n] EXCEPT !.mu = None, !.value = ok]]
    BY <1>1, <1>3, <1>5
  <2>3. [node[n] EXCEPT !.mu = None, !.value = ok] \in NodeType
    <3>1. node[n] \in NodeType
      BY <1>3, <2>1
    <3>2. [node[n] EXCEPT !.mu = None] \in NodeType
      BY <3>1 DEF NodeType
    <3>3. [[node[n] EXCEPT !.mu = None] EXCEPT !.value = ok] \in NodeType
      BY <3>2 DEF NodeType
    <3>4. QED
      BY <3>1, <3>3
  <2>4. QED
    BY <1>3, <1>5, <2>1, <2>2, <2>3 DEF NodeType
<1>7. LruInv'
  BY <1>1, <1>4, <1>5, <1>6, LruKept
<1>8. ValueInv'
  <2>1. \A u \in Threads \ {t} : th'[u] = th[u]
    BY <1>4, <1>5 DEF TypeInv, ThreadsOK, Moved
  <2>2. node[n].mu = t /\ ~node[n].value
    BY <1>1, <1>5 DEF ValueInv
  <2>3. \A u \in Threads \ {t} : th[u].pc = "set" => th[u].n \in Node /\ th[u].n /= n
    <3>1. ASSUME NEW u \in Threads \ {t}, th[u].pc = "set" PROVE th[u].n \in Node /\ th[u].n /= n
      <4>1. th[u].n \in Node
        BY <3>1, Thread DEF Fits, Using
      <4>2. node[th[u].n].mu = u
        BY <1>5, <3>1 DEF ValueInv
      <4>3. QED
        BY <2>2, <4>1, <4>2
    <3>2. QED
      BY <3>1
  <2>4. \A u \in Threads : th'[u].pc = "set" => node'[th'[u].n].mu = u /\ ~node'[th'[u].n].value
    BY <1>4, <1>5, <1>6, <2>1, <2>3 DEF ValueInv
  <2>5. \A u \in Threads : Has(th[u]) => th[u].n \in Node
    BY Thread DEF Fits, Using, Has
  <2>6. \A h \in Handle : hnd[h] /= 0 => hnd[h] \in Node
    BY <1>5 DEF Node
  <2>7. closed /= "close" => /\ \A h \in Handle : hnd[h] /= 0 => hnd[h] /= n
                             /\ \A u \in Threads : Has(th[u]) => th[u].n /= n
    BY <1>5, <2>2 DEF ValueInv
  <2>8. Has(th'[t]) => ok
    BY <1>4
  <2>9. ASSUME closed' /= "close", NEW h \in Handle, hnd'[h] /= 0 PROVE node'[hnd'[h]].value
    <3>1. hnd'[h] = hnd[h] /\ hnd[h] \in Node /\ hnd[h] /= n /\ node[hnd[h]].value
      BY <1>1, <1>5, <2>6, <2>7, <2>9 DEF ValueInv
    <3>2. QED
      BY <1>6, <3>1
  <2>10. ASSUME closed' /= "close", NEW u \in Threads, Has(th'[u]) PROVE node'[th'[u].n].value
    <3>1. CASE u = t
      BY <1>3, <1>4, <1>6, <2>8, <2>10, <3>1
    <3>2. CASE u /= t
      <4>1. th'[u] = th[u] /\ th[u].n \in Node /\ th[u].n /= n /\ node[th[u].n].value
        BY <1>1, <1>5, <2>1, <2>5, <2>7, <2>10, <3>2 DEF ValueInv
      <4>2. QED
        BY <1>6, <4>1
    <3>3. QED
      BY <3>1, <3>2
  <2>11. QED
    BY <2>4, <2>9, <2>10 DEF ValueInv
<1>9. QED
  BY <1>1, <1>2, <1>3, <1>4, <1>5, <1>6, <1>7, <1>8, NodeStep

\* The registration of an OnDel function keeps the invariant.
LEMMA OnDelStep ==
  ASSUME HoldInv, NEW t \in Threads, asked \in Nat, OnDel(t)
  PROVE  HoldInv'
<1> DEFINE n == th[t].n
<1>1. /\ th[t].pc = "found" /\ th[t].op = "delete" /\ node' = [node EXCEPT ![n].onDel = @ \cup {asked + 1}] /\ To(t, "ban")
      /\ UNCHANGED <<tabs, bg, hnd, lru, capacity, closed>>
  BY DEF OnDel, tabVars, lruVars
<1>2. th[t] \in ThreadType /\ Fits(th[t]) /\ Using(th[t])
  BY <1>1, Thread DEF Using
<1>3. n \in Node /\ ~th[t].inner /\ th[t].stack = <<>>
  BY <1>1, <1>2, Thread DEF Fits
<1>4. /\ Moved(t) /\ th'[t] \in ThreadType /\ Fits(th[t])' /\ th'[t].stack = <<>> /\ Using(th'[t])
      /\ th'[t].n = n /\ th'[t].op = th[t].op /\ th'[t].pc = "ban" /\ th'[t].rel = th[t].rel
      /\ ~Has(th'[t])
  BY <1>1, <1>2, <1>3, GoesOn
<1>5. TypeInv /\ LruInv /\ ValueInv /\ node \in [Node -> NodeType] /\ lru \in Seq(EntryType) /\ capacity \in Nat
  BY DEF HoldInv, TypeInv, DataOK
<1>6. node' \in [Node -> NodeType] /\ \A m \in Node : /\ node'[m].ref = node[m].ref /\ node'[m].key = node[m].key
                                                      /\ node'[m].cd = node[m].cd /\ node'[m].value = node[m].value /\ node'[m].mu = node[m].mu
  <2> DEFINE v == [node[n] EXCEPT !.onDel = @ \cup {asked + 1}]
  <2>1. node[n] \in NodeType
    BY <1>3, <1>5
  <2>2. node' = [node EXCEPT ![n] = v]
    BY <1>1
  <2>3. v \in NodeType /\ v.ref = node[n].ref /\ v.key = node[n].key /\ v.cd = node[n].cd /\ v.value = node[n].value /\ v.mu = node[n].mu
    BY <2>1 DEF NodeType
  <2> HIDE DEF v
  <2>4. QED
    BY <1>3, <1>5, <2>2, <2>3
<1>7. LruInv'
  BY <1>1, <1>4, <1>5, <1>6, LruKept
<1>8. ValueInv'
  BY <1>1, <1>4, <1>5, <1>6, ValueKept
<1>9. th'[t].op \in Get => hnd[t] = 0
  BY <1>4, Thread
<1>10. QED
  BY <1>1, <1>2, <1>4, <1>5, <1>6, <1>7, <1>8, <1>9, NodeStep

-----------------------------------------------------------------------------
(* The list. *)

\* A set of places has an increasing enumeration: by the number of places
\* that are not after it.
LEMMA Numbered ==
  ASSUME NEW k \in Nat, NEW I \in SUBSET (1 .. k)
  PROVE  /\ IsFiniteSet(I) /\ Cardinality(I) \in Nat
         /\ \E f \in [1 .. Cardinality(I) -> I] :
               /\ \A i, j \in 1 .. Cardinality(I) : i < j => f[i] < f[j]
               /\ \A x \in I : \E i \in 1 .. Cardinality(I) : f[i] = x
<1> DEFINE n == Cardinality(I)
           Below(x) == {y \in I : y <= x}
           r == [x \in I |-> Cardinality(Below(x))]
           f == [i \in 1 .. n |-> CHOOSE x \in I : r[x] = i]
<1>0. \A x \in I : x \in Int
  OBVIOUS
<1>1. IsFiniteSet(I) /\ n \in Nat
  <2>1. IsFiniteSet(1 .. k)
    BY FS_Interval
  <2>2. IsFiniteSet(I)
    BY <2>1, FS_Subset
  <2>3. QED
    BY <2>2, FS_CardinalityType
<1>2. ASSUME NEW x \in I PROVE IsFiniteSet(Below(x)) /\ Cardinality(Below(x)) \in 1 .. n
  <2>1. IsFiniteSet(Below(x)) /\ Cardinality(Below(x)) <= n
    BY <1>1, FS_Subset
  <2>2. Cardinality(Below(x)) \in Nat /\ Cardinality(Below(x)) /= 0
    <3>1. x \in Below(x)
      OBVIOUS
    <3>2. Cardinality(Below(x)) \in Nat
      BY <2>1, FS_CardinalityType
    <3>3. QED
      BY <2>1, <3>1, <3>2, FS_EmptySet
  <2>3. QED
    BY <1>1, <2>1, <2>2
<1>3. ASSUME NEW x \in I, NEW y \in I, x < y PROVE r[x] < r[y]
  <2>0. \A z \in I : z \in Int
    BY <1>0
  <2>1. Below(x) \in SUBSET Below(y) /\ y \in Below(y) /\ y \notin Below(x)
    <3>1. x \in Int /\ y \in Int /\ \A z \in I : z <= x => z <= y
      BY <1>3, <2>0
    <3>2. ~(y <= x) /\ y <= y
      BY <1>3, <3>1
    <3>3. QED
      BY <3>1, <3>2
  <2>2. Cardinality(Below(x)) <= Cardinality(Below(y)) /\ Cardinality(Below(x)) /= Cardinality(Below(y))
    <3> HIDE DEF Below
    <3>1. IsFiniteSet(Below(y))
      BY <1>2
    <3>2. /\ Cardinality(Below(x)) <= Cardinality(Below(y))
          /\ Cardinality(Below(y)) = Cardinality(Below(x)) => Below(y) = Below(x)
      BY <2>1, <3>1, FS_Subset
    <3>3. QED
      BY <2>1, <3>2
  <2>3. Cardinality(Below(x)) \in 1 .. n /\ Cardinality(Below(y)) \in 1 .. n
    BY <1>2
  <2>4. QED
    BY <1>1, <2>2, <2>3
<1>4. r \in [I -> 1 .. n]
  BY <1>2
<1> HIDE DEF r, n
<1>5. r \in Surjection(I, 1 .. n)
  <2>1. \A x, y \in I : r[x] = r[y] => x = y
    <3>1. ASSUME NEW x \in I, NEW y \in I, r[x] = r[y], x /= y PROVE FALSE
      <4>1. x < y \/ y < x
        BY <3>1
      <4>2. r[x] \in Nat /\ r[y] \in Nat
        BY <1>4
      <4>3. QED
        BY <1>3, <3>1, <4>1, <4>2
    <3>2. QED
      BY <3>1
  <2>2. r \in Injection(I, 1 .. n)
    BY <1>4, <2>1 DEF Injection, IsInjective
  <2>3. IsFiniteSet(1 .. n) /\ Cardinality(1 .. n) = n
    <3>1. IsFiniteSet(1 .. n) /\ Cardinality(1 .. n) = IF 1 > n THEN 0 ELSE n - 1 + 1
      BY <1>1, FS_Interval
    <3>2. QED
      BY <1>1, <3>1
  <2>4. Cardinality(I) = Cardinality(1 .. n) <=> r \in Surjection(I, 1 .. n)
    BY <2>2, <2>3, FS_Injection
  <2>5. QED
    BY <2>3, <2>4 DEF n
<1>6. \A i \in 1 .. n : f[i] \in I /\ r[f[i]] = i
  BY <1>5 DEF Surjection
<1>7. f \in [1 .. n -> I]
  BY <1>6
<1> HIDE DEF f
<1>8. ASSUME NEW i \in 1 .. n, NEW j \in 1 .. n, i < j PROVE f[i] < f[j]
  <2>1. f[i] \in I /\ f[j] \in I /\ r[f[i]] = i /\ r[f[j]] = j
    BY <1>6
  <2>2. f[i] \in Int /\ f[j] \in Int
    BY <1>0, <2>1
  <2>3. f[j] < f[i] => j < i
    BY <1>3, <2>1
  <2>4. f[j] = f[i] => j = i
    BY <2>1
  <2>5. QED
    BY <1>8, <2>2, <2>3, <2>4
<1>9. ASSUME NEW x \in I PROVE \E i \in 1 .. n : f[i] = x
  <2>1. r[x] \in 1 .. n /\ f[r[x]] \in I /\ r[f[r[x]]] = r[x]
    BY <1>4, <1>6
  <2>2. f[r[x]] = x
    <3>1. f[r[x]] < x \/ f[r[x]] = x \/ x < f[r[x]]
      <4>1. f[r[x]] \in Int /\ x \in Int
        BY <1>0, <2>1
      <4>2. QED
        BY <4>1
    <3>2. ~(r[x] < r[x])
      BY <2>1
    <3>3. ~(f[r[x]] < x)
      <4>1. f[r[x]] < x => r[f[r[x]]] < r[x]
        BY <1>3, <2>1
      <4>2. QED
        BY <2>1, <3>2, <4>1
    <3>4. ~(x < f[r[x]])
      <4>1. x < f[r[x]] => r[x] < r[f[r[x]]]
        BY <1>3, <2>1
      <4>2. QED
        BY <2>1, <3>2, <4>1
    <3>5. QED
      BY <3>1, <3>3, <3>4
  <2>3. QED
    BY <2>1, <2>2
<1>10. QED
  BY <1>1, <1>7, <1>8, <1>9 DEF n

\* The entries at the places I are picked in their order.
LEMMA Picked ==
  ASSUME NEW L \in Seq(EntryType), NEW I \in SUBSET DOMAIN L
  PROVE  /\ Pick(L, I) \in Seq(EntryType) /\ ToSet(Pick(L, I)) = {L[i] : i \in I}
         /\ \E f \in [DOMAIN Pick(L, I) -> I] :
               /\ \A i \in DOMAIN Pick(L, I) : Pick(L, I)[i] = L[f[i]]
               /\ \A i, j \in DOMAIN Pick(L, I) : i < j => f[i] < f[j]
               /\ \A x \in I : \E i \in DOMAIN Pick(L, I) : f[i] = x
<1> DEFINE n == Cardinality(I)
           at == CHOOSE f \in [1 .. n -> I] : \A i, j \in 1 .. n : i < j => f[i] < f[j]
           S == [i \in 1 .. n |-> L[at[i]]]
<1>1. Len(L) \in Nat /\ DOMAIN L = 1 .. Len(L)
  OBVIOUS
<1>2. PICK g \in [1 .. n -> I] : /\ \A i, j \in 1 .. n : i < j => g[i] < g[j]
  BY <1>1, Numbered
<1>3. at \in [1 .. n -> I] /\ \A i, j \in 1 .. n : i < j => at[i] < at[j]
  BY <1>2
<1>4. IsFiniteSet(I) /\ n \in Nat
  BY <1>1, Numbered
<1> HIDE DEF at, n
<1>5. Pick(L, I) = S
  BY DEF Pick, at, n
<1>6. \A x \in I : \E i \in 1 .. n : at[i] = x
  <2>1. \A i, j \in 1 .. n : at[i] = at[j] => i = j
    <3>1. ASSUME NEW i \in 1 .. n, NEW j \in 1 .. n, at[i] = at[j], i /= j PROVE FALSE
      <4>1. i < j \/ j < i
        BY <3>1
      <4>2. at[i] \in Int /\ at[j] \in Int
        BY <1>1, <1>3
      <4>3. QED
        BY <1>3, <3>1, <4>1, <4>2
    <3>2. QED
      BY <3>1
  <2>2. at \in Injection(1 .. n, I)
    BY <1>3, <2>1 DEF Injection, IsInjective
  <2>3. Cardinality(1 .. n) = n
    <3>1. Cardinality(1 .. n) = IF 1 > n THEN 0 ELSE n - 1 + 1
      BY <1>4, FS_Interval
    <3>2. QED
      BY <1>4, <3>1
  <2>4. Cardinality(1 .. n) = Cardinality(I) <=> at \in Surjection(1 .. n, I)
    BY <1>4, <2>2, FS_Injection
  <2>5. at \in Surjection(1 .. n, I)
    BY <2>3, <2>4 DEF n
  <2>6. QED
    BY <2>5 DEF Surjection
<1>7. \A i \in 1 .. n : L[at[i]] \in EntryType /\ at[i] \in I
  BY <1>3
<1>8. S \in Seq(EntryType) /\ DOMAIN S = 1 .. n
  BY <1>4, <1>7
<1>9. ToSet(S) = {L[i] : i \in I}
  BY <1>6, <1>7, <1>8 DEF ToSet
<1> HIDE DEF S
<1>10. \A i \in 1 .. n : S[i] = L[at[i]]
  BY DEF S
<1>11. \E f \in [DOMAIN S -> I] :
          /\ \A i \in DOMAIN S : S[i] = L[f[i]]
          /\ \A i, j \in DOMAIN S : i < j => f[i] < f[j]
          /\ \A x \in I : \E i \in DOMAIN S : f[i] = x
  <2>1. at \in [DOMAIN S -> I]
    BY <1>3, <1>8
  <2>2. /\ \A i \in DOMAIN S : S[i] = L[at[i]]
        /\ \A i, j \in DOMAIN S : i < j => at[i] < at[j]
        /\ \A x \in I : \E i \in DOMAIN S : at[i] = x
    BY <1>3, <1>6, <1>8, <1>10
  <2>3. QED
    BY <2>1, <2>2
<1>12. QED
  BY <1>5, <1>8, <1>9, <1>11

\* A step that takes entries from the list L, or moves one to the front, and
\* that makes t release handles of nodes that are not in the list any more.
LEMMA SubList ==
  ASSUME TypeInv, NEW t \in Threads, Moved(t), NEW L \in Seq(EntryType), NEW N, Entries(L, N, hnd'),
         lru' \in Seq(EntryType), NEW f \in [DOMAIN lru' -> DOMAIN L],
         \A i \in DOMAIN lru' : lru'[i] = L[f[i]],
         \A i, j \in DOMAIN lru' : i < j => f[i] < f[j] \/ L[f[i]].n /= L[f[j]].n,
         \A n \in Node : node'[n].cd = "in" =>
            N[n].cd = "in" /\ \A i \in DOMAIN L : L[i].n = n => \E j \in DOMAIN lru' : f[j] = i,
         \A h \in Listed : h \in ToSet(th'[t].rel) =>
            \/ h \in ToSet(th[t].rel)
            \/ \E i \in DOMAIN L : L[i].h = h /\ \A n \in Node : node'[n].cd = "in" => L[i].n /= n
  PROVE  LruInv'
<1>1. \A u \in Threads \ {t} : th'[u] = th[u]
  BY DEF TypeInv, ThreadsOK, Moved
<1>2. DOMAIN L = 1 .. Len(L) /\ Len(L) \in Nat /\ DOMAIN lru' = 1 .. Len(lru') /\ Len(lru') \in Nat
  OBVIOUS
<1>3. \A i, j \in DOMAIN L : L[i].h = L[j].h => i = j
  BY DEF Entries
<1>4. ASSUME NEW i \in DOMAIN lru', NEW j \in DOMAIN lru', lru'[i].h = lru'[j].h PROVE i = j
  <2>1. f[i] = f[j] /\ f[i] \in DOMAIN L
    BY <1>3, <1>4
  <2>2. ~(f[i] < f[j]) /\ ~(f[j] < f[i])
    BY <1>2, <2>1
  <2>3. ~(i < j) /\ ~(j < i)
    BY <2>1, <2>2
  <2>4. QED
    BY <1>2, <2>3
<1>5. ASSUME NEW n \in Node, node'[n].cd = "in" PROVE \E i \in DOMAIN lru' : Current(lru, hnd, n, i)'
  <2>1. N[n].cd = "in" /\ \A i \in DOMAIN L : L[i].n = n => \E j \in DOMAIN lru' : f[j] = i
    BY <1>5
  <2>2. PICK i \in DOMAIN L : Current(L, hnd', n, i)
    BY <2>1 DEF Entries
  <2>3. PICK j \in DOMAIN lru' : f[j] = i
    BY <2>1, <2>2 DEF Current
  <2>4. lru'[j] = L[i] /\ L[i] \in EntryType
    BY <2>3
  <2>5. /\ L[i].n = n /\ \A k \in 1 .. i - 1 : L[k].n /= n
        /\ hnd'[L[i].h] = n
        /\ \A u \in Threads : L[i].h \notin ToSet(th[u].rel)
    BY <2>2 DEF Current
  <2>6. \A k \in 1 .. j - 1 : lru'[k].n /= n
    <3>1. ASSUME NEW k \in 1 .. j - 1 PROVE lru'[k].n /= n
      <4>1. k \in DOMAIN lru' /\ k < j
        BY <1>2
      <4>2. f[k] \in DOMAIN L /\ lru'[k] = L[f[k]] /\ (f[k] < i \/ L[f[k]].n /= n)
        BY <2>3, <2>5, <4>1
      <4>3. f[k] < i => f[k] \in 1 .. i - 1
        BY <1>2, <4>2
      <4>4. QED
        BY <2>5, <4>2, <4>3
    <3>2. QED
      BY <3>1
  <2>7. L[i].h \in Listed
    BY <2>4 DEF EntryType
  <2>8. \A u \in Threads : L[i].h \notin ToSet(th'[u].rel)
    <3>1. L[i].h \notin ToSet(th'[t].rel)
      BY <1>3, <1>5, <2>5, <2>7
    <3>2. QED
      BY <1>1, <2>5, <3>1
  <2>9. QED
    BY <2>4, <2>5, <2>6, <2>8 DEF Current
<1>6. QED
  BY <1>4, <1>5 DEF LruInv, Entries

\* What the entries E of the list lead to loses its CacheData, and nothing
\* else of it is altered.
LEMMA UncachedOf ==
  ASSUME NEW N \in [Node -> NodeType], NEW E
  PROVE  /\ Uncached(N, E) \in [Node -> NodeType]
         /\ \A n \in Node :
               /\ Uncached(N, E)[n].ref = N[n].ref /\ Uncached(N, E)[n].key = N[n].key
               /\ Uncached(N, E)[n].value = N[n].value /\ Uncached(N, E)[n].mu = N[n].mu
               /\ Uncached(N, E)[n].onDel = N[n].onDel
               /\ Uncached(N, E)[n].cd = "in" => N[n].cd = "in" /\ \A e \in ToSet(E) : e.n /= n
<1>1. ASSUME NEW n \in Node
      PROVE  /\ Uncached(N, E)[n] \in NodeType
             /\ Uncached(N, E)[n].ref = N[n].ref /\ Uncached(N, E)[n].key = N[n].key
             /\ Uncached(N, E)[n].value = N[n].value /\ Uncached(N, E)[n].mu = N[n].mu
             /\ Uncached(N, E)[n].onDel = N[n].onDel
             /\ Uncached(N, E)[n].cd = "in" => N[n].cd = "in" /\ \A e \in ToSet(E) : e.n /= n
  <2>1. N[n] \in NodeType /\ None /= "in"
    BY CacheAssumption DEF CacheAssumption
  <2> DEFINE v == [N[n] EXCEPT !.cd = None]
  <2>2. v \in NodeType /\ v.ref = N[n].ref /\ v.key = N[n].key /\ v.value = N[n].value /\ v.mu = N[n].mu /\ v.onDel = N[n].onDel
        /\ v.cd = None
    BY <2>1 DEF NodeType
  <2>3. Uncached(N, E)[n] = IF \E e \in ToSet(E) : e.n = n THEN v ELSE N[n]
    BY DEF Uncached
  <2> HIDE DEF v
  <2>4. QED
    BY <2>1, <2>2, <2>3
<1>2. Uncached(N, E) = [n \in Node |-> Uncached(N, E)[n]]
  BY DEF Uncached
<1>3. QED
  BY <1>1, <1>2

\* The list is cut in a front that fits and the rest that is evicted.
LEMMA ShrunkOf ==
  ASSUME NEW L \in Seq(EntryType), NEW c \in Nat
  PROVE  /\ Shrunk(L, c) \in Seq(EntryType) /\ Rest(L, c) \in Seq(EntryType)
         /\ DOMAIN Shrunk(L, c) \subseteq DOMAIN L /\ \A i \in DOMAIN Shrunk(L, c) : Shrunk(L, c)[i] = L[i]
         /\ ToSet(Rest(L, c)) \subseteq ToSet(L)
         /\ \A i \in DOMAIN L : i \in DOMAIN Shrunk(L, c) \/ L[i] \in ToSet(Rest(L, c))
<1>1. CASE Len(L) > c
  <2> DEFINE S == SubSeq(L, 1, c)
             R == SubSeq(L, c + 1, Len(L))
  <2>1. /\ S \in Seq(EntryType) /\ Len(S) = c /\ \A i \in 1 .. c : S[i] = L[i]
        /\ R \in Seq(EntryType) /\ Len(R) = Len(L) - c /\ \A i \in 1 .. Len(L) - c : R[i] = L[i + c]
    BY <1>1
  <2>2. Shrunk(L, c) = S /\ Rest(L, c) = R
    BY <1>1 DEF Shrunk, Rest
  <2> HIDE DEF S, R
  <2>3. DOMAIN S = 1 .. c /\ DOMAIN R = 1 .. Len(L) - c /\ DOMAIN L = 1 .. Len(L) /\ Len(L) \in Nat
    BY <2>1
  <2>4. \A i \in DOMAIN L : i \in DOMAIN S \/ L[i] \in ToSet(R)
    <3>1. ASSUME NEW i \in DOMAIN L, i \notin DOMAIN S PROVE L[i] \in ToSet(R)
      <4>1. i - c \in DOMAIN R /\ (i - c) + c = i
        BY <2>3, <3>1
      <4>2. R[i - c] = L[i]
        BY <2>1, <2>3, <4>1
      <4>3. QED
        BY <4>1, <4>2 DEF ToSet
    <3>2. QED
      BY <3>1
  <2>5. ToSet(R) \subseteq ToSet(L)
    <3>1. \A i \in DOMAIN R : i + c \in DOMAIN L /\ R[i] = L[i + c]
      BY <2>1, <2>3
    <3>2. QED
      BY <3>1 DEF ToSet
  <2>6. DOMAIN S \subseteq DOMAIN L
    BY <1>1, <2>3
  <2>7. QED
    BY <2>1, <2>2, <2>3, <2>4, <2>5, <2>6
<1>2. CASE ~(Len(L) > c)
  <2>1. Shrunk(L, c) = L /\ Rest(L, c) = <<>>
    BY <1>2 DEF Shrunk, Rest
  <2>2. <<>> \in Seq(EntryType) /\ ToSet(<<>>) = {}
    BY DEF ToSet
  <2>3. QED
    BY <2>1, <2>2
<1>3. QED
  BY <1>1, <1>2

\* The handles of entries of the list.
LEMMA HeldOf ==
  ASSUME NEW E \in Seq(EntryType)
  PROVE  Held(E) \in Seq(Handle) /\ \A h \in ToSet(Held(E)) : \E e \in ToSet(E) : e.h = h
<1>1. Len(E) \in Nat /\ DOMAIN E = 1 .. Len(E)
  OBVIOUS
<1>2. \A i \in 1 .. Len(E) : Len(E) + 1 - i \in DOMAIN E
  BY <1>1
<1>3. \A i \in 1 .. Len(E) : E[Len(E) + 1 - i] \in EntryType
  BY <1>2
<1>4. \A i \in 1 .. Len(E) : E[Len(E) + 1 - i].h \in Handle
  BY <1>3 DEF EntryType, Handle
<1>5. Held(E) = [i \in 1 .. Len(E) |-> E[Len(E) + 1 - i].h]
  BY <1>1 DEF Held
<1>6. Held(E) \in Seq(Handle) /\ DOMAIN Held(E) = 1 .. Len(E)
  BY <1>1, <1>4, <1>5
<1>7. QED
  BY <1>2, <1>5, <1>6 DEF ToSet

\* The list S is L without the entries E.
Part(S, L, E) ==
    /\ S \in Seq(EntryType) /\ E \in Seq(EntryType) /\ ToSet(E) \subseteq ToSet(L)
    /\ \E f \in [DOMAIN S -> DOMAIN L] :
          /\ \A i \in DOMAIN S : S[i] = L[f[i]]
          /\ \A i, j \in DOMAIN S : i < j => f[i] < f[j]
          /\ \A i \in DOMAIN L : (\E j \in DOMAIN S : f[j] = i) \/ L[i] \in ToSet(E)

\* The entries E leave the list L; t releases their handles.
LEMMA Trimmed ==
  ASSUME TypeInv, NEW t \in Threads, Moved(t), NEW L \in Seq(EntryType), NEW N \in [Node -> NodeType],
         Entries(L, N, hnd'), NEW E, Part(lru', L, E), node' = Uncached(N, E),
         ToSet(th'[t].rel) = ToSet(Held(E))
  PROVE  LruInv'
<1>0. /\ lru' \in Seq(EntryType) /\ ToSet(E) \subseteq ToSet(L)
      /\ \E f \in [DOMAIN lru' -> DOMAIN L] :
            /\ \A i \in DOMAIN lru' : lru'[i] = L[f[i]]
            /\ \A i, j \in DOMAIN lru' : i < j => f[i] < f[j]
            /\ \A i \in DOMAIN L : (\E j \in DOMAIN lru' : f[j] = i) \/ L[i] \in ToSet(E)
  BY DEF Part
<1>p. PICK f \in [DOMAIN lru' -> DOMAIN L] :
         /\ \A i \in DOMAIN lru' : lru'[i] = L[f[i]]
         /\ \A i, j \in DOMAIN lru' : i < j => f[i] < f[j]
         /\ \A i \in DOMAIN L : (\E j \in DOMAIN lru' : f[j] = i) \/ L[i] \in ToSet(E)
  BY <1>0
<1>h. \A h \in Listed : h \in ToSet(th'[t].rel) => \E e \in ToSet(E) : e.h = h
  BY HeldOf DEF Part
<1>1. \A n \in Node : node'[n].cd = "in" => N[n].cd = "in" /\ \A e \in ToSet(E) : e.n /= n
  BY UncachedOf
<1>2. \A n \in Node : node'[n].cd = "in" =>
         N[n].cd = "in" /\ \A i \in DOMAIN L : L[i].n = n => \E j \in DOMAIN lru' : f[j] = i
  BY <1>1, <1>p
<1>3. ASSUME NEW h \in Listed, h \in ToSet(th'[t].rel)
      PROVE  \E i \in DOMAIN L : L[i].h = h /\ \A n \in Node : node'[n].cd = "in" => L[i].n /= n
  <2>1. PICK e \in ToSet(E) : e.h = h
    BY <1>3, <1>h
  <2>2. PICK i \in DOMAIN L : L[i] = e
    BY <1>0, <2>1 DEF ToSet
  <2>3. QED
    BY <1>1, <2>1, <2>2
<1>4. QED
  BY <1>0, <1>p, <1>2, <1>3, SubList

\* The list that fits and the rest make up the list.
LEMMA ShrunkPart ==
  ASSUME NEW L \in Seq(EntryType), NEW c \in Nat
  PROVE  Part(Shrunk(L, c), L, Rest(L, c))
<1> DEFINE S == Shrunk(L, c)
           f == [i \in DOMAIN S |-> i]
<1>1. /\ S \in Seq(EntryType) /\ Rest(L, c) \in Seq(EntryType)
      /\ DOMAIN S \subseteq DOMAIN L /\ \A i \in DOMAIN S : S[i] = L[i]
      /\ ToSet(Rest(L, c)) \subseteq ToSet(L)
      /\ \A i \in DOMAIN L : i \in DOMAIN S \/ L[i] \in ToSet(Rest(L, c))
  BY ShrunkOf
<1> HIDE DEF S
<1>2. f \in [DOMAIN S -> DOMAIN L] /\ \A i \in DOMAIN S : f[i] = i
  BY <1>1
<1> HIDE DEF f
<1>3. /\ \A i \in DOMAIN S : S[i] = L[f[i]]
      /\ \A i, j \in DOMAIN S : i < j => f[i] < f[j]
      /\ \A i \in DOMAIN L : (\E j \in DOMAIN S : f[j] = i) \/ L[i] \in ToSet(Rest(L, c))
  BY <1>1, <1>2
<1>4. Part(S, L, Rest(L, c))
  BY <1>1, <1>2, <1>3 DEF Part
<1>5. QED
  BY <1>4 DEF S

\* The entries that are evicted and the others make up the list.
LEMMA PickedPart ==
  ASSUME NEW L \in Seq(EntryType), NEW I \in SUBSET DOMAIN L
  PROVE  Part(Pick(L, DOMAIN L \ I), L, Pick(L, I))
<1> DEFINE J == DOMAIN L \ I
           S == Pick(L, J)
           E == Pick(L, I)
<1>1. E \in Seq(EntryType) /\ ToSet(E) = {L[i] : i \in I}
  BY Picked
<1>2. J \in SUBSET DOMAIN L /\ \A i \in DOMAIN L : i \in I \/ i \in J
  OBVIOUS
<1> HIDE DEF J, E
<1>3. S \in Seq(EntryType) /\ \E f \in [DOMAIN S -> J] :
         /\ \A i \in DOMAIN S : S[i] = L[f[i]]
         /\ \A i, j \in DOMAIN S : i < j => f[i] < f[j]
         /\ \A x \in J : \E i \in DOMAIN S : f[i] = x
  BY <1>2, Picked
<1> HIDE DEF S
<1>4. PICK f \in [DOMAIN S -> J] :
         /\ \A i \in DOMAIN S : S[i] = L[f[i]]
         /\ \A i, j \in DOMAIN S : i < j => f[i] < f[j]
         /\ \A x \in J : \E i \in DOMAIN S : f[i] = x
  BY <1>3
<1>5. f \in [DOMAIN S -> DOMAIN L] /\ ToSet(E) \subseteq ToSet(L)
      /\ \A i \in DOMAIN L : (\E j \in DOMAIN S : f[j] = i) \/ L[i] \in ToSet(E)
  BY <1>1, <1>2, <1>4 DEF ToSet
<1>6. Part(S, L, E)
  BY <1>1, <1>3, <1>4, <1>5 DEF Part
<1>7. QED
  BY <1>6 DEF S, E, J

\* The first entry of a node in the list.
LEMMA FirstOf ==
  ASSUME HoldInv, NEW n \in Node, node[n].cd = "in"
  PROVE  First(n) \in DOMAIN lru /\ Current(lru, hnd, n, First(n)) /\ lru[First(n)] \in EntryType /\ lru[First(n)].h \in Listed
<1>1. lru \in Seq(EntryType) /\ Len(lru) \in Nat /\ DOMAIN lru = 1 .. Len(lru)
  BY DEF HoldInv, TypeInv, DataOK
<1>2. PICK i \in DOMAIN lru : Current(lru, hnd, n, i)
  BY DEF HoldInv, LruInv, Entries
<1> DEFINE P(k) == lru[k].n = n /\ \A j \in 1 .. k - 1 : lru[j].n /= n
<1>3. P(i)
  BY <1>2 DEF Current
<1>4. First(n) = CHOOSE k \in DOMAIN lru : P(k)
  BY DEF First
<1> HIDE DEF P
<1>5. First(n) \in DOMAIN lru /\ P(First(n))
  BY <1>3, <1>4
<1>6. First(n) = i
  <2>1. First(n) < i => First(n) \in 1 .. i - 1
    BY <1>1, <1>5
  <2>2. i < First(n) => i \in 1 .. First(n) - 1
    BY <1>1, <1>5
  <2>3. ~(First(n) < i) /\ ~(i < First(n))
    BY <1>3, <1>5, <2>1, <2>2 DEF P
  <2>4. QED
    BY <1>1, <1>5, <2>3
<1>7. lru[i] \in EntryType
  BY <1>1
<1>8. QED
  BY <1>2, <1>6, <1>7 DEF EntryType

\* The elements of two sequences, one after the other.
LEMMA Concatenated ==
  ASSUME NEW S, NEW A \in Seq(S), NEW B \in Seq(S)
  PROVE  /\ A \o B \in Seq(S) /\ Len(A \o B) = Len(A) + Len(B) /\ DOMAIN (A \o B) = 1 .. Len(A) + Len(B)
         /\ \A i \in 1 .. Len(A) + Len(B) : (A \o B)[i] = IF i <= Len(A) THEN A[i] ELSE B[i - Len(A)]
OBVIOUS

\* What remains of the list when entry k is taken out, and where each entry
\* was.
LEMMA RemovedAt ==
  ASSUME NEW L \in Seq(EntryType), NEW k \in DOMAIN L
  PROVE  LET R == RemoveAt(L, k)
             f == [i \in DOMAIN R |-> IF i < k THEN i ELSE i + 1]
         IN  /\ R \in Seq(EntryType) /\ Len(R) = Len(L) - 1 /\ f \in [DOMAIN R -> DOMAIN L]
             /\ \A i \in DOMAIN R : R[i] = L[f[i]]
             /\ \A i, j \in DOMAIN R : i < j => f[i] < f[j]
             /\ \A i \in DOMAIN L : i = k \/ \E j \in DOMAIN R : f[j] = i
             /\ \A j \in DOMAIN R : f[j] /= k
<1> DEFINE A == SubSeq(L, 1, k - 1)
           B == SubSeq(L, k + 1, Len(L))
           R == A \o B
           f == [i \in DOMAIN R |-> IF i < k THEN i ELSE i + 1]
<1>1. /\ Len(L) \in Nat /\ k \in 1 .. Len(L) /\ DOMAIN L = 1 .. Len(L)
  OBVIOUS
<1>2. /\ A \in Seq(EntryType) /\ Len(A) = k - 1 /\ \A i \in 1 .. k - 1 : A[i] = L[i]
  BY <1>1
<1>3. /\ B \in Seq(EntryType) /\ Len(B) = Len(L) - k /\ \A i \in 1 .. Len(L) - k : B[i] = L[i + k]
  BY <1>1
<1> HIDE DEF A, B
<1>4. /\ R \in Seq(EntryType) /\ Len(R) = Len(L) - 1 /\ DOMAIN R = 1 .. Len(L) - 1
      /\ \A i \in 1 .. Len(L) - 1 : R[i] = IF i < k THEN A[i] ELSE B[i - (k - 1)]
  <2>1. R \in Seq(EntryType) /\ Len(R) = Len(A) + Len(B) /\ DOMAIN R = 1 .. Len(A) + Len(B)
    BY <1>2, <1>3, Concatenated
  <2>2. \A i \in 1 .. Len(A) + Len(B) : R[i] = IF i <= Len(A) THEN A[i] ELSE B[i - Len(A)]
    BY <1>2, <1>3, Concatenated
  <2> HIDE DEF R
  <2>3. Len(R) = Len(L) - 1 /\ DOMAIN R = 1 .. Len(L) - 1
    BY <1>1, <1>2, <1>3, <2>1
  <2>4. ASSUME NEW i \in 1 .. Len(L) - 1 PROVE R[i] = IF i < k THEN A[i] ELSE B[i - (k - 1)]
    <3>1. i \in 1 .. Len(A) + Len(B) /\ (i <= Len(A) <=> i < k)
      BY <1>1, <1>2, <1>3
    <3>2. QED
      BY <1>2, <2>2, <3>1
  <2>5. QED
    BY <2>1, <2>3, <2>4
<1>5. RemoveAt(L, k) = R
  BY DEF RemoveAt, A, B
<1> HIDE DEF R
<1>6. \A i \in DOMAIN R : f[i] = (IF i < k THEN i ELSE i + 1) /\ f[i] \in DOMAIN L /\ f[i] /= k
  BY <1>1, <1>4
<1>7. f \in [DOMAIN R -> DOMAIN L]
  BY <1>6
<1>8. \A i \in DOMAIN R : R[i] = L[f[i]]
  <2>1. ASSUME NEW i \in DOMAIN R PROVE R[i] = L[f[i]]
    <3>1. CASE i < k
      <4>1. i \in 1 .. k - 1
        BY <1>1, <1>4, <3>1
      <4>2. QED
        BY <1>2, <1>4, <1>6, <3>1, <4>1
    <3>2. CASE ~(i < k)
      <4>1. i - (k - 1) \in 1 .. Len(L) - k /\ i - (k - 1) + k = i + 1
        BY <1>1, <1>4, <3>2
      <4>2. B[i - (k - 1)] = L[i + 1]
        BY <1>3, <4>1
      <4>3. QED
        BY <1>4, <1>6, <3>2, <4>2
    <3>3. QED
      BY <3>1, <3>2
  <2>2. QED
    BY <2>1
<1>9. \A i, j \in DOMAIN R : i < j => f[i] < f[j]
  BY <1>1, <1>4, <1>6
<1>10. \A i \in DOMAIN L : i = k \/ \E j \in DOMAIN R : f[j] = i
  <2>1. ASSUME NEW i \in DOMAIN L, i < k PROVE \E j \in DOMAIN R : f[j] = i
    <3>1. i \in DOMAIN R
      BY <1>1, <1>4, <2>1
    <3>2. QED
      BY <1>6, <2>1, <3>1
  <2>2. ASSUME NEW i \in DOMAIN L, i > k PROVE \E j \in DOMAIN R : f[j] = i
    <3>1. i - 1 \in DOMAIN R /\ ~(i - 1 < k) /\ (i - 1) + 1 = i
      BY <1>1, <1>4, <2>2
    <3>2. f[i - 1] = i
      BY <1>6, <3>1
    <3>3. QED
      BY <3>1, <3>2
  <2>3. QED
    BY <1>1, <2>1, <2>2
<1>11. QED
  BY <1>4, <1>5, <1>6, <1>7, <1>8, <1>9, <1>10

\* lru.Evict keeps the invariant.
LEMMA EvictStep ==
  ASSUME HoldInv, NEW t \in Threads, Evict(t)
  PROVE  HoldInv'
<1> DEFINE n == th[t].n
<1>1. /\ th[t].pc = "found" /\ th[t].op = "evict" /\ UNCHANGED <<tabs, bg, hnd, lru, capacity, closed>>
  BY DEF Evict, tabVars, lruVars
<1>2. th[t] \in ThreadType /\ Fits(th[t]) /\ Using(th[t])
  BY <1>1, Thread DEF Using
<1>3. n \in Node /\ ~th[t].inner /\ th[t].stack = <<>>
  BY <1>1, <1>2, Thread DEF Fits
<1>4. CASE node[n].cd = "in"
  <2> DEFINE h == lru[First(n)].h
  <2>1. node' = [node EXCEPT ![n].cd = None] /\ Releasing(t, <<h>>, "unref")
    BY <1>4 DEF Evict
  <2>2. First(n) \in DOMAIN lru /\ lru[First(n)].n = n /\ h \in Listed
    BY <1>3, <1>4, FirstOf DEF Current
  <2>3. <<h>> \in Seq(Handle) /\ ToSet(<<h>>) = {h} /\ "unref" \in Ends
    BY <2>2 DEF ToSet, Ends, Handle
  <2> HIDE DEF h
  <2>4. After(t, <<h>>, "unref")
    BY <1>3, <2>1, <2>3, ReleasingGoes
  <2>5. TypeInv /\ LruInv /\ ValueInv /\ node \in [Node -> NodeType] /\ lru \in Seq(EntryType) /\ capacity \in Nat
    BY DEF HoldInv, TypeInv, DataOK
  <2> DEFINE v == [node[n] EXCEPT !.cd = None]
  <2>6. v \in NodeType /\ v.ref = node[n].ref /\ v.key = node[n].key /\ v.value = node[n].value /\ v.mu = node[n].mu /\ v.cd = None
    <3>1. node[n] \in NodeType
      BY <1>3, <2>5
    <3>2. QED
      BY <3>1 DEF NodeType
  <2>7. node' = [node EXCEPT ![n] = v]
    BY <2>1
  <2> HIDE DEF v
  <2>8. /\ node' \in [Node -> NodeType]
        /\ \A m \in Node : node'[m].ref = node[m].ref /\ node'[m].key = node[m].key
        /\ \A m \in Node : node'[m].value = node[m].value /\ node'[m].mu = node[m].mu
        /\ \A m \in Node : node'[m].cd = "in" => node[m].cd = "in" /\ m /= n
    BY <1>3, <2>5, <2>6, <2>7, CacheAssumption DEF CacheAssumption
  <2>9. /\ Moved(t) /\ th'[t] \in ThreadType /\ Fits(th[t])' /\ th'[t].stack = <<>>
        /\ Using(th'[t]) /\ ~Has(th'[t]) /\ th'[t].n = n
        /\ (th'[t].op \in Get => th[t].op \in Get)
        /\ th'[t].pc \notin {"set", "deleted"} /\ ToSet(th'[t].rel) = {h}
    BY <2>3, <2>4 DEF After
  <2>10. LruInv'
    <3> DEFINE f == [i \in DOMAIN lru' |-> i]
    <3>1. f \in [DOMAIN lru' -> DOMAIN lru] /\ \A i \in DOMAIN lru' : f[i] = i
      BY <1>1
    <3> HIDE DEF f
    <3>2. /\ Entries(lru, node, hnd') /\ lru' \in Seq(EntryType) /\ \A i \in DOMAIN lru' : lru'[i] = lru[f[i]]
          /\ \A i, j \in DOMAIN lru' : i < j => f[i] < f[j] \/ lru[f[i]].n /= lru[f[j]].n
      BY <1>1, <2>5, <3>1 DEF LruInv
    <3>3. \A m \in Node : node'[m].cd = "in" =>
             node[m].cd = "in" /\ \A i \in DOMAIN lru : lru[i].n = m => \E j \in DOMAIN lru' : f[j] = i
      BY <1>1, <2>8, <3>1
    <3>4. \A g \in Listed : g \in ToSet(th'[t].rel) =>
             \E i \in DOMAIN lru : lru[i].h = g /\ \A m \in Node : node'[m].cd = "in" => lru[i].n /= m
      BY <2>2, <2>8, <2>9 DEF h
    <3>5. QED
      BY <2>5, <2>9, <3>1, <3>2, <3>3, <3>4, SubList
  <2>11. ValueInv'
    BY <1>1, <2>5, <2>8, <2>9, ValueKept
  <2>12. th'[t].op \in Get => hnd[t] = 0
    BY <2>9, Thread
  <2>13. QED
    BY <1>1, <1>2, <2>5, <2>8, <2>9, <2>10, <2>11, <2>12, NodeStep
<1>5. CASE node[n].cd /= "in"
  <2>1. To(t, "unref") /\ UNCHANGED node
    BY <1>5 DEF Evict
  <2>2. /\ Moved(t) /\ th'[t] \in ThreadType /\ Fits(th[t])' /\ th'[t].stack = <<>> /\ Using(th'[t])
        /\ th'[t].n = n /\ th'[t].op = th[t].op /\ th'[t].pc = "unref" /\ th'[t].rel = th[t].rel
        /\ ~Has(th'[t])
    BY <1>2, <1>3, <2>1, GoesOn
  <2>3. Places(tabs, th'[t].stack)
    BY <2>2 DEF Places
  <2>4. QED
    BY <1>1, <1>2, <2>1, <2>2, <2>3, Thread, QuietMove
<1>6. QED
  BY <1>4, <1>5

\* lru.Ban keeps the invariant.
LEMMA BanStep ==
  ASSUME HoldInv, NEW t \in Threads, Ban(t)
  PROVE  HoldInv'
<1> DEFINE n == th[t].n
           v == [node[n] EXCEPT !.cd = "ban"]
<1>1. /\ th[t].pc = "ban" /\ UNCHANGED <<tabs, bg, hnd, capacity, closed>>
      /\ node' = [node EXCEPT ![n].cd = "ban"]
  BY DEF Ban, tabVars
<1>2. th[t] \in ThreadType /\ Fits(th[t]) /\ Using(th[t])
  BY <1>1, Thread DEF Using
<1>3. n \in Node /\ ~th[t].inner /\ th[t].stack = <<>>
  BY <1>1, <1>2, Thread DEF Fits
<1>4. TypeInv /\ LruInv /\ ValueInv /\ node \in [Node -> NodeType] /\ lru \in Seq(EntryType) /\ capacity \in Nat
  BY DEF HoldInv, TypeInv, DataOK
<1>5. v \in NodeType /\ v.ref = node[n].ref /\ v.key = node[n].key /\ v.value = node[n].value /\ v.mu = node[n].mu /\ v.cd = "ban"
  <2>1. node[n] \in NodeType
    BY <1>3, <1>4
  <2>2. QED
    BY <2>1 DEF NodeType
<1>6. node' = [node EXCEPT ![n] = v]
  BY <1>1
<1> HIDE DEF v
<1>7. /\ node' \in [Node -> NodeType]
      /\ \A m \in Node : node'[m].ref = node[m].ref /\ node'[m].key = node[m].key
      /\ \A m \in Node : node'[m].value = node[m].value /\ node'[m].mu = node[m].mu
      /\ \A m \in Node : node'[m].cd = "in" => node[m].cd = "in" /\ m /= n
  BY <1>3, <1>4, <1>5, <1>6
<1>8. CASE node[n].cd = "in"
  <2> DEFINE k == First(n)
             h == lru[k].h
             R == RemoveAt(lru, k)
             f == [i \in DOMAIN R |-> IF i < k THEN i ELSE i + 1]
  <2>1. lru' = R /\ Releasing(t, <<h>>, "unref")
    BY <1>8 DEF Ban
  <2>2. k \in DOMAIN lru /\ lru[k].n = n /\ h \in Listed
    BY <1>3, <1>8, FirstOf DEF Current
  <2> HIDE DEF k
  <2>3. <<h>> \in Seq(Handle) /\ ToSet(<<h>>) = {h} /\ "unref" \in Ends
    BY <2>2 DEF ToSet, Ends, Handle
  <2>4. After(t, <<h>>, "unref")
    BY <1>3, <2>1, <2>3, ReleasingGoes
  <2>5. /\ Moved(t) /\ th'[t] \in ThreadType /\ Fits(th[t])' /\ th'[t].stack = <<>>
        /\ Using(th'[t]) /\ ~Has(th'[t]) /\ th'[t].n = n
        /\ (th'[t].op \in Get => th[t].op \in Get)
        /\ th'[t].pc \notin {"set", "deleted"} /\ ToSet(th'[t].rel) = {h}
    BY <2>3, <2>4 DEF After
  <2>6. /\ R \in Seq(EntryType) /\ f \in [DOMAIN R -> DOMAIN lru]
        /\ \A i \in DOMAIN R : R[i] = lru[f[i]]
        /\ \A i, j \in DOMAIN R : i < j => f[i] < f[j]
        /\ \A i \in DOMAIN lru : i = k \/ \E j \in DOMAIN R : f[j] = i
    BY <1>4, <2>2, RemovedAt
  <2> HIDE DEF R, f
  <2>7. LruInv'
    <3>1. Entries(lru, node, hnd')
      BY <1>1, <1>4 DEF LruInv
    <3>2. \A m \in Node : node'[m].cd = "in" =>
             node[m].cd = "in" /\ \A i \in DOMAIN lru : lru[i].n = m => \E j \in DOMAIN lru' : f[j] = i
      BY <1>7, <2>1, <2>2, <2>6
    <3>3. \A g \in Listed : g \in ToSet(th'[t].rel) =>
             \/ g \in ToSet(th[t].rel)
             \/ \E i \in DOMAIN lru : lru[i].h = g /\ \A m \in Node : node'[m].cd = "in" => lru[i].n /= m
      BY <1>7, <2>2, <2>5
    <3>4. /\ lru' \in Seq(EntryType) /\ f \in [DOMAIN lru' -> DOMAIN lru]
          /\ \A i \in DOMAIN lru' : lru'[i] = lru[f[i]]
          /\ \A i, j \in DOMAIN lru' : i < j => f[i] < f[j] \/ lru[f[i]].n /= lru[f[j]].n
      BY <2>1, <2>6
    <3>5. TypeInv /\ lru \in Seq(EntryType) /\ Moved(t)
      BY <1>4, <2>5
    <3>6. QED
      BY <3>1, <3>2, <3>3, <3>4, <3>5, SubList
  <2>8. ValueInv'
    BY <1>1, <1>4, <1>7, <2>5, ValueKept
  <2>9. th'[t].op \in Get => hnd[t] = 0
    BY <2>5, Thread
  <2>10. QED
    BY <1>1, <1>2, <1>4, <1>7, <2>1, <2>5, <2>6, <2>7, <2>8, <2>9, NodeStep
<1>9. CASE node[n].cd /= "in"
  <2>1. To(t, "unref") /\ UNCHANGED lru
    BY <1>9 DEF Ban
  <2>2. /\ Moved(t) /\ th'[t] \in ThreadType /\ Fits(th[t])' /\ th'[t].stack = <<>> /\ Using(th'[t])
        /\ th'[t].n = n /\ th'[t].op = th[t].op /\ th'[t].pc = "unref" /\ th'[t].rel = th[t].rel
        /\ ~Has(th'[t])
    BY <1>2, <1>3, <2>1, GoesOn
  <2>3. LruInv'
    BY <1>1, <1>4, <1>7, <2>1, <2>2, LruKept
  <2>4. ValueInv'
    BY <1>1, <1>4, <1>7, <2>2, ValueKept
  <2>5. th'[t].op \in Get => hnd[t] = 0
    BY <2>2, Thread
  <2>6. QED
    BY <1>1, <1>2, <1>4, <1>7, <2>1, <2>2, <2>3, <2>4, <2>5, NodeStep
<1>10. QED
  BY <1>8, <1>9

\* A step that makes the list a part of itself, and releases handles.
LEMMA TrimStep ==
  ASSUME HoldInv, NEW t \in Threads, ~Using(th[t]), ~th[t].inner, th[t].stack = <<>>,
         UNCHANGED <<tabs, bg, hnd, closed>>, capacity' \in Nat, NEW E, Part(lru', lru, E),
         node' = Uncached(node, E), NEW l \in {"idle", "return"}, Releasing(t, Held(E), l)
  PROVE  HoldInv'
<1>1. TypeInv /\ LruInv /\ ValueInv /\ node \in [Node -> NodeType] /\ lru \in Seq(EntryType)
  BY DEF HoldInv, TypeInv, DataOK
<1>2. Held(E) \in Seq(Handle) /\ l \in Ends /\ lru' \in Seq(EntryType)
  BY HeldOf DEF Ends, Part
<1>3. After(t, Held(E), l)
  BY <1>2, ReleasingGoes
<1>4. /\ Moved(t) /\ th'[t] \in ThreadType /\ Fits(th[t])' /\ th'[t].stack = <<>>
      /\ ~Using(th'[t]) /\ ~Has(th'[t])
      /\ (th'[t].op \in Get => th[t].op \in Get)
      /\ th'[t].pc \notin {"set", "deleted"} /\ ToSet(th'[t].rel) = ToSet(Held(E))
  BY <1>3 DEF After
<1>5. /\ node' \in [Node -> NodeType]
      /\ \A m \in Node : node'[m].ref = node[m].ref /\ node'[m].key = node[m].key
      /\ \A m \in Node : node'[m].mu = node[m].mu /\ node'[m].value = node[m].value
  BY <1>1, UncachedOf
<1>6. LruInv'
  <2>1. Entries(lru, node, hnd')
    BY <1>1 DEF LruInv
  <2>2. QED
    BY <1>1, <1>4, <2>1, Trimmed
<1>7. ValueInv'
  BY <1>1, <1>4, <1>5, ValueKept
<1>8. th'[t].op \in Get => hnd[t] = 0
  BY <1>4, Thread
<1>9. QED
  BY <1>1, <1>2, <1>4, <1>5, <1>6, <1>7, <1>8, NodeStep

\* EvictNS and EvictAll of the list keep the invariant.
LEMMA EvictManyStep ==
  ASSUME HoldInv, NEW t \in Threads, EvictMany(t)
  PROVE  HoldInv'
<1> DEFINE out(e) == th[t].op = "evictns" => NS[e.key] = NS[th[t].key]
           I == {i \in DOMAIN lru : out(lru[i])}
           gone == Pick(lru, I)
           l == IF th[t].op = "closeweak" THEN "idle" ELSE "return"
<1>1. /\ th[t].pc = "lru" /\ lru' = Pick(lru, DOMAIN lru \ I) /\ node' = Uncached(node, gone) /\ Releasing(t, Held(gone), l)
      /\ UNCHANGED <<tabs, bg, hnd, capacity, closed>>
  BY DEF EvictMany, tabVars
<1>2. lru \in Seq(EntryType) /\ capacity \in Nat /\ I \in SUBSET DOMAIN lru
  BY DEF HoldInv, TypeInv, DataOK
<1> HIDE DEF I, l
<1>3. Part(lru', lru, gone)
  BY <1>1, <1>2, PickedPart
<1> HIDE DEF gone
<1>4. ~Using(th[t]) /\ ~th[t].inner /\ th[t].stack = <<>>
  BY <1>1, Thread DEF Fits, Using, Releases
<1>5. l \in {"idle", "return"}
  BY DEF l
<1>6. QED
  BY <1>1, <1>2, <1>3, <1>4, <1>5, TrimStep

\* SetCapacity keeps the invariant: what does not fit any longer is handed
\* over to be released.
LEMMA SetCapacityStep ==
  ASSUME HoldInv, NEW t \in Threads, NEW c \in Nat, SetCapacity(t, c)
  PROVE  HoldInv'
<1> DEFINE E == Rest(lru, c)
<1>1. /\ th[t].pc = "idle" /\ capacity' = c /\ lru' = Shrunk(lru, c) /\ node' = Uncached(node, E) /\ Releasing(t, Held(E), "idle")
      /\ UNCHANGED <<tabs, bg, hnd, closed>>
  BY DEF SetCapacity, tabVars
<1>2. lru \in Seq(EntryType)
  BY DEF HoldInv, TypeInv, DataOK
<1>3. Part(lru', lru, E)
  BY <1>1, <1>2, ShrunkPart
<1> HIDE DEF E
<1>4. ~Using(th[t]) /\ ~th[t].inner /\ th[t].stack = <<>>
  BY <1>1, Thread DEF Fits, Using, Releases
<1>5. QED
  BY <1>1, <1>3, <1>4, TrimStep

-----------------------------------------------------------------------------
(* The steps that take or give up a reference. *)

\* A step that moves t and alters counts and handles keeps the invariant when
\* it keeps its parts and gives nobody a node that is being deleted.
LEMMA RefStep ==
  ASSUME HoldInv, NEW t \in Threads, Moved(t), TablesOK', Grown, \A n \in Node : InBucket(n)' => InBucket(n),
         UNCHANGED closed, th'[t] \in ThreadType, Fits(th[t])', th'[t].stack = <<>>, th'[t].pc /= "deleted",
         hnd' \in [Handle -> 0 .. MaxNodes], lru' \in Seq(EntryType), capacity' \in Nat, node' \in [Node -> NodeType],
         \A n \in Node : node[n].key \in Keys => node'[n].key = node[n].key,
         \A n \in Node : node[n].ref = 0 /\ (\E u \in Threads : Leaving(u) /\ th[u].dk = n) => node'[n].ref = 0,
         RefInv', LruInv', ValueInv'
  PROVE  HoldInv'
<1>1. TypeInv /\ RefInv /\ LruInv /\ DeadInv /\ ValueInv
  BY DEF HoldInv
<1>2. TypeInv'
  <2>1. Places(tabs, th[t].stack)'
    BY DEF Places
  <2>2. ThreadsOK'
    BY <1>1, <2>1, ThreadsKept
  <2>3. DataOK'
    BY <1>1 DEF TypeInv, DataOK
  <2>4. QED
    BY <2>2, <2>3 DEF TypeInv
<1>3. DeadInv'
  <2>1. \A u \in Threads : Leaving(u) => th[u].dk \in Node
    BY <1>1 DEF Leaving, TypeInv, ThreadsOK, Fits
  <2>2. \A u \in Threads : Leaving(u) => node'[th[u].dk].ref = 0
    BY <1>1, <2>1 DEF DeadInv
  <2>3. QED
    BY <1>1, <2>2, DeadKept
<1>4. QED
  BY <1>1, <1>2, <1>3 DEF HoldInv

\* The end of a call keeps the invariant: the reference of the call becomes
\* the handle of the caller.
LEMMA EndStep ==
  ASSUME HoldInv, NEW t \in Threads, End(t)
  PROVE  HoldInv'
<1> DEFINE n == th[t].n
<1>1. /\ th[t].pc \in {"handle", "return"} /\ UNCHANGED <<tabs, bg, node, lru, capacity, closed>>
      /\ hnd' = (IF th[t].pc = "handle" THEN [hnd EXCEPT ![t] = n] ELSE hnd)
      /\ th' = [th EXCEPT ![t] = Idle]
  BY DEF End, tabVars, Return
<1>2. th[t] \in ThreadType /\ Fits(th[t])
  BY Thread
<1>3. CASE th[t].pc = "return"
  <2>1. ~Using(th[t]) /\ UNCHANGED hnd
    BY <1>1, <1>2, <1>3 DEF Using, Releases, Fits
  <2>2. QED
    BY <1>1, <2>1, Returns
<1>4. CASE th[t].pc = "handle"
  <2>1. Using(th[t]) /\ Getting(th[t]) /\ Has(th[t])
    BY <1>4 DEF Using, Getting, Has
  <2>2. n \in Node /\ hnd[t] = 0 /\ t \in Handle /\ t \notin Listed
    BY <1>2, <2>1, Thread, CacheAssumption DEF Fits, Handle, Listed, CacheAssumption
  <2>3. /\ TypeInv /\ RefInv /\ LruInv /\ ValueInv /\ TablesOK /\ node \in [Node -> NodeType] /\ hnd \in [Handle -> 0 .. MaxNodes]
        /\ lru \in Seq(EntryType) /\ capacity \in Nat
    BY DEF HoldInv, TypeInv, DataOK
  <2>4. n \in 0 .. MaxNodes /\ n /= 0
    BY <2>2, CacheAssumption DEF Node, CacheAssumption
  <2>5. /\ hnd' \in [Handle -> 0 .. MaxNodes] /\ hnd'[t] = n /\ \A g \in Handle \ {t} : hnd'[g] = hnd[g]
    BY <1>1, <1>4, <2>2, <2>3, <2>4
  <2>6. Moved(t) /\ th'[t] = Idle
    BY <1>1, Becomes
  <2>7. RefInv'
    <3>1. ASSUME NEW m \in Node
          PROVE  node'[m].ref = node[m].ref + Bit(hnd'[t] = m) - Bit(hnd[t] = m)
                                 + Bit(Using(th'[t]) /\ th'[t].n = m) - Bit(Using(th[t]) /\ th[t].n = m)
      <4>1. node'[m].ref = node[m].ref /\ node[m].ref \in Int
        BY <1>1, <2>3 DEF NodeType
      <4>2. m /= 0 /\ ~Using(th'[t])
        BY <2>6, IdleFits, CacheAssumption DEF Node, CacheAssumption
      <4>3. Bit(hnd[t] = m) = 0 /\ Bit(Using(th'[t]) /\ th'[t].n = m) = 0
        BY <2>2, <4>2 DEF Bit
      <4>4. Bit(Using(th[t]) /\ th[t].n = m) = Bit(hnd'[t] = m) /\ Bit(hnd'[t] = m) \in {0, 1}
        BY <2>1, <2>5 DEF Bit
      <4>5. QED
        BY <4>1, <4>3, <4>4
    <3>2. \A m \in Node : node'[m].ref /= 0 => node'[m].key \in Keys
      BY <1>1, <2>3 DEF RefInv
    <3>3. \A u \in Threads : th'[u].op \in Get => hnd'[u] = 0
      <4>1. th'[t].op \notin Get
        BY <2>6, IdleFits
      <4>2. \A u \in Threads \ {t} : th'[u] = th[u] /\ u \in Handle
        BY <2>3, <2>6 DEF TypeInv, ThreadsOK, Moved, Handle
      <4>3. QED
        BY <2>3, <2>5, <4>1, <4>2 DEF RefInv
    <3>4. QED
      BY <2>2, <2>3, <2>5, <2>6, <3>1, <3>2, <3>3, RefMoved
  <2>8. ToSet(th'[t].rel) = {}
    BY <2>6, IdleFits DEF ToSet
  <2>9. LruInv'
    <3>1. \A h \in Listed : hnd'[h] = hnd[h]
      BY <2>2, <2>5 DEF Handle
    <3>2. QED
      BY <1>1, <2>3, <2>6, <2>8, <3>1, LruKept
  <2>10. ValueInv'
    <3>1. closed /= "close" => node[n].value
      BY <2>1, <2>3 DEF ValueInv
    <3>2. \A h \in Handle : hnd'[h] \in {0, hnd[h]} \/ (hnd'[h] \in Node /\ (closed /= "close" => node[hnd'[h]].value))
      BY <2>2, <2>5, <3>1
    <3>3. th'[t].pc /= "set" /\ ~Has(th'[t])
      BY <2>6, IdleFits
    <3>4. QED
      BY <1>1, <2>3, <2>6, <3>2, <3>3, ValueKept
  <2>11. th'[t] \in ThreadType /\ Fits(th[t])' /\ th'[t].stack = <<>> /\ th'[t].pc /= "deleted"
    BY <2>6, IdleFits
  <2>12. TablesOK' /\ Grown /\ (\A m \in Node : InBucket(m)' => InBucket(m))
    BY <1>1, <2>3, TablesSame
  <2>13. QED
    BY <1>1, <2>3, <2>5, <2>6, <2>7, <2>9, <2>10, <2>11, <2>12, RefStep
<1>5. QED
  BY <1>1, <1>3, <1>4

\* The release of a handle of the list keeps the invariant: it is empty, and
\* the count is one less.
LEMMA ReleaseStep ==
  ASSUME HoldInv, NEW t \in Threads, Release(t)
  PROVE  HoldInv'
<1> DEFINE h == th[t].rel[1]
           n == hnd[h]
           next == Releasing(t, Tail(th[t].rel), th[t].then)
<1>1. th[t].pc = "release" /\ UNCHANGED <<tabs, bg, lru, capacity, closed>>
  BY DEF Release, tabVars
<1>2. th[t] \in ThreadType /\ Fits(th[t]) /\ Releases(th[t]) /\ ~th[t].inner /\ th[t].stack = <<>>
  BY <1>1, Thread DEF Fits, Releases, ThreadType
<1>3. th[t].rel \in Seq(Handle) /\ th[t].rel /= <<>> /\ th[t].then \in Ends
  BY <1>2 DEF Fits, ThreadType, Ends
<1>4. Tail(th[t].rel) \in Seq(Handle) /\ h \in Handle /\ h \in ToSet(th[t].rel) /\ ToSet(Tail(th[t].rel)) \subseteq ToSet(th[t].rel)
  BY <1>3, TailOf
<1>5. /\ Using(th[t]) <=> th[t].then \in {"handle", "unref"}
      /\ Has(th[t]) <=> th[t].then = "handle"
      /\ Getting(th[t]) <=> th[t].then = "handle"
  BY <1>1, <1>2 DEF Using, Has, Getting
<1>6. ASSUME next PROVE After(t, Tail(th[t].rel), th[t].then)
  BY <1>2, <1>3, <1>4, <1>5, <1>6, ReleasingGoes DEF Fits
<1> HIDE DEF h
<1>7. CASE n = 0
  <2>1. next /\ UNCHANGED <<hnd, node>>
    BY <1>7 DEF Release, h
  <2>2. QED
    BY <1>1, <1>3, <1>4, <1>5, <1>6, <2>1, QuietAfter
<1>8. CASE n /= 0
  <2>1. /\ hnd' = [hnd EXCEPT ![h] = 0] /\ node' = [node EXCEPT ![n].ref = @ - 1]
        /\ IF node[n].ref = 1
           THEN th' = [th EXCEPT ![t].pc = "rlock", ![t].dk = node[n].key]
           ELSE next
    BY <1>8 DEF Release, h
  <2>2. /\ TypeInv /\ RefInv /\ LruInv /\ ValueInv /\ node \in [Node -> NodeType] /\ hnd \in [Handle -> 0 .. MaxNodes]
        /\ lru \in Seq(EntryType) /\ capacity \in Nat
    BY DEF HoldInv, TypeInv, DataOK
  <2>3. n \in Node /\ MaxNodes \in Nat
    BY <1>4, <1>8, <2>2, CacheAssumption DEF Node, CacheAssumption
  <2> HIDE DEF n
  <2>4. node[n].ref > 0 /\ node[n].key \in Keys /\ node[n] \in NodeType /\ node[n].ref \in Nat
    <3>1. node[n].ref \in Nat /\ node[n].ref > 0
      BY <1>4, <2>2, <2>3, Positive DEF n
    <3>2. QED
      BY <2>2, <2>3, <3>1 DEF RefInv
  <2> DEFINE w == [node[n] EXCEPT !.ref = @ - 1]
  <2>5. /\ w \in NodeType /\ w.ref = node[n].ref - 1 /\ w.key = node[n].key /\ w.value = node[n].value /\ w.mu = node[n].mu /\ w.cd = node[n].cd
    BY <2>4 DEF NodeType
  <2>6. node' = [node EXCEPT ![n] = w]
    BY <2>1
  <2> HIDE DEF w
  <2>7. /\ node' \in [Node -> NodeType] /\ \A m \in Node : m /= n => node'[m] = node[m]
        /\ node'[n].ref = node[n].ref - 1
        /\ \A m \in Node : node'[m].key = node[m].key /\ node'[m].cd = node[m].cd
        /\ \A m \in Node : node'[m].value = node[m].value /\ node'[m].mu = node[m].mu
    BY <2>2, <2>3, <2>5, <2>6
  <2>8. /\ hnd' \in [Handle -> 0 .. MaxNodes] /\ hnd'[h] = 0 /\ \A g \in Handle \ {h} : hnd'[g] = hnd[g]
    BY <1>4, <2>1, <2>2, <2>3
  <2>9. /\ Moved(t) /\ th'[t] \in ThreadType /\ Fits(th[t])' /\ th'[t].stack = <<>>
        /\ Using(th'[t]) <=> Using(th[t])
        /\ Has(th'[t]) <=> Has(th[t])
        /\ Using(th'[t]) => th'[t].n = th[t].n
        /\ th'[t].op \in Get => th[t].op \in Get
        /\ th'[t].pc \notin {"set", "deleted"}
        /\ ToSet(th'[t].rel) \subseteq ToSet(th[t].rel)
    <3>1. CASE node[n].ref /= 1
      <4>1. After(t, Tail(th[t].rel), th[t].then)
        BY <1>6, <2>1, <3>1
      <4>2. QED
        BY <1>4, <1>5, <4>1 DEF After
    <3>2. CASE node[n].ref = 1
      <4> DEFINE v == [th[t] EXCEPT !.pc = "rlock", !.dk = node[n].key]
      <4>1. th' = [th EXCEPT ![t] = v]
        BY <2>1, <3>2
      <4>2. Moved(t) /\ th'[t] = v
        BY <4>1, Becomes
      <4>3. node[n].key \in Nat
        BY <2>4, CacheAssumption DEF CacheAssumption
      <4>4. v \in ThreadType
        BY <1>2, <4>3 DEF ThreadType, Labels
      <4>5. /\ v.pc = "rlock" /\ v.dk = node[n].key /\ v.op = th[t].op /\ v.stack = <<>> /\ v.n = th[t].n /\ v.rel = th[t].rel
            /\ v.then = th[t].then /\ ~v.inner
        BY <1>2 DEF ThreadType
      <4> HIDE DEF v
      <4>6. Releases(v) /\ (Using(v) <=> Using(th[t])) /\ (Has(v) <=> Has(th[t])) /\ (Getting(v) <=> Getting(th[t]))
        BY <1>1, <1>2, <4>5 DEF Releases, Using, Has, Getting
      <4>7. Fits(th[t])'
        <5>1. /\ Using(v) => v.n \in Node
              /\ v.rel /= <<>> /\ v.then \in Ends /\ v.dk \in Keys
              /\ Getting(v) => v.op \in Get
          BY <1>2, <1>3, <2>4, <4>5, <4>6 DEF Fits
        <5>2. (Using(th'[t]) <=> Using(v)) /\ (Releases(th'[t]) <=> Releases(v)) /\ (Getting(th'[t]) <=> Getting(v))
          BY <4>2
        <5>3. QED
          BY <4>2, <4>5, <4>6, <5>1, <5>2 DEF Fits
      <4>8. QED
        BY <4>2, <4>4, <4>5, <4>6, <4>7
    <3>3. QED
      BY <3>1, <3>2
  <2>10. RefInv'
    <3>1. ASSUME NEW m \in Node
          PROVE  node'[m].ref = node[m].ref + Bit(hnd'[h] = m) - Bit(hnd[h] = m)
                                 + Bit(Using(th'[t]) /\ th'[t].n = m) - Bit(Using(th[t]) /\ th[t].n = m)
      <4>1. node[m].ref \in Int /\ node'[m].ref = IF m = n THEN node[m].ref - 1 ELSE node[m].ref
        BY <2>2, <2>7 DEF NodeType
      <4>2. m /= 0
        BY <2>3 DEF Node
      <4>3. Bit(hnd'[h] = m) = 0 /\ Bit(hnd[h] = m) = IF m = n THEN 1 ELSE 0
        BY <2>8, <4>2 DEF Bit, n
      <4>4. Bit(Using(th'[t]) /\ th'[t].n = m) = Bit(Using(th[t]) /\ th[t].n = m) /\ Bit(Using(th[t]) /\ th[t].n = m) \in {0, 1}
        BY <2>9 DEF Bit
      <4>5. QED
        BY <4>1, <4>3, <4>4
    <3>2. \A m \in Node : node'[m].ref /= 0 => node'[m].key \in Keys
      BY <2>2, <2>4, <2>7 DEF RefInv
    <3>3. \A u \in Threads : th'[u].op \in Get => hnd'[u] = 0
      <4>1. \A u \in Threads : u \in Handle /\ (hnd[u] = 0 => hnd'[u] = 0)
        BY <2>8 DEF Handle
      <4>2. \A u \in Threads \ {t} : th'[u] = th[u]
        BY <2>2, <2>9 DEF TypeInv, ThreadsOK, Moved
      <4>3. QED
        BY <2>2, <2>9, <4>1, <4>2 DEF RefInv
    <3>4. QED
      BY <1>4, <2>2, <2>8, <2>9, <3>1, <3>2, <3>3, RefMoved
  <2>11. LruInv'
    <3>1. \A g \in Listed : hnd'[g] = hnd[g] \/ g \in ToSet(th[t].rel)
      BY <1>4, <2>8 DEF Handle
    <3>2. QED
      BY <1>1, <2>2, <2>7, <2>9, <3>1, LruKept
  <2>12. ValueInv'
    <3>1. \A g \in Handle : hnd'[g] \in {0, hnd[g]}
      BY <2>8
    <3>2. Has(th[t]) => Using(th'[t])
      BY <2>9 DEF Has, Using
    <3>3. Has(th'[t]) => Has(th[t]) /\ th'[t].n = th[t].n /\ th'[t].n \in Node
      BY <1>2, <2>9, <3>2 DEF Fits
    <3>4. QED
      BY <1>1, <2>2, <2>7, <2>9, <3>1, <3>3, ValueKept
  <2>13. \A m \in Node : node[m].ref = 0 => node'[m].ref = 0
    BY <2>4, <2>7
  <2>14. TablesOK' /\ Grown /\ (\A m \in Node : InBucket(m)' => InBucket(m))
    BY <1>1, <2>2, TablesSame
  <2>15. QED
    BY <1>1, <2>2, <2>7, <2>8, <2>9, <2>10, <2>11, <2>12, <2>13, <2>14, RefStep
<1>9. QED
  BY <1>7, <1>8

\* unRefExternal of a call that returns no handle keeps the invariant.
LEMMA UnrefStep ==
  ASSUME HoldInv, NEW t \in Threads, Unref(t)
  PROVE  HoldInv'
<1> DEFINE n == th[t].n
<1>1. /\ th[t].pc = "unref" /\ UNCHANGED <<tabs, bg, hnd, lru, capacity, closed>>
      /\ node' = [node EXCEPT ![n].ref = @ - 1]
  BY DEF Unref, tabVars, lruVars
<1>2. th[t] \in ThreadType /\ Fits(th[t]) /\ Using(th[t]) /\ ~th[t].inner /\ th[t].stack = <<>>
  BY <1>1, Thread DEF Fits, Using, ThreadType
<1>3. n \in Node
  BY <1>2 DEF Fits
<1>4. /\ TypeInv /\ RefInv /\ LruInv /\ ValueInv /\ node \in [Node -> NodeType] /\ hnd \in [Handle -> 0 .. MaxNodes]
      /\ lru \in Seq(EntryType) /\ capacity \in Nat
  BY DEF HoldInv, TypeInv, DataOK
<1>5. node[n].ref > 0 /\ node[n].key \in Keys /\ node[n] \in NodeType /\ node[n].ref \in Nat
  <2>1. t \in UsersOf(n)
    BY <1>2 DEF UsersOf
  <2>2. node[n].ref \in Nat /\ node[n].ref > 0
    BY <1>3, <1>4, <2>1, Positive
  <2>3. QED
    BY <1>3, <1>4, <2>2 DEF RefInv
<1> DEFINE w == [node[n] EXCEPT !.ref = @ - 1]
<1>6. /\ w \in NodeType /\ w.ref = node[n].ref - 1 /\ w.key = node[n].key /\ w.value = node[n].value /\ w.mu = node[n].mu /\ w.cd = node[n].cd
  BY <1>5 DEF NodeType
<1>7. node' = [node EXCEPT ![n] = w]
  BY <1>1
<1> HIDE DEF w
<1>8. /\ node' \in [Node -> NodeType] /\ \A m \in Node : m /= n => node'[m] = node[m]
      /\ node'[n].ref = node[n].ref - 1
      /\ \A m \in Node : node'[m].key = node[m].key /\ node'[m].cd = node[m].cd
      /\ \A m \in Node : node'[m].value = node[m].value /\ node'[m].mu = node[m].mu
  BY <1>3, <1>4, <1>6, <1>7
<1>9. /\ Moved(t) /\ th'[t] \in ThreadType /\ Fits(th[t])' /\ th'[t].stack = <<>>
      /\ ~Using(th'[t]) /\ ~Has(th'[t])
      /\ th'[t].op \in Get => th[t].op \in Get
      /\ th'[t].pc \notin {"set", "deleted"}
      /\ ToSet(th'[t].rel) \subseteq ToSet(th[t].rel)
  <2>1. CASE node[n].ref /= 1
    <3>1. th' = [th EXCEPT ![t] = Idle]
      BY <2>1 DEF Unref, Return
    <3>2. After(t, <<>>, "idle")
      BY <3>1, AfterIdle
    <3>3. ToSet(<<>>) = {}
      BY DEF ToSet
    <3>4. QED
      BY <3>2, <3>3 DEF After
  <2>2. CASE node[n].ref = 1
    <3> DEFINE v == [th[t] EXCEPT !.pc = "dbucket", !.dk = node[n].key]
    <3>1. th' = [th EXCEPT ![t] = v]
      BY <2>2 DEF Unref
    <3>2. Moved(t) /\ th'[t] = v
      BY <3>1, Becomes
    <3>3. node[n].key \in Nat
      BY <1>5, CacheAssumption DEF CacheAssumption
    <3>4. v \in ThreadType
      BY <1>2, <3>3 DEF ThreadType, Labels
    <3>5. /\ v.pc = "dbucket" /\ v.dk = node[n].key /\ v.op = th[t].op /\ v.stack = <<>> /\ v.rel = th[t].rel /\ ~v.inner
      BY <1>2 DEF ThreadType
    <3> HIDE DEF v
    <3>6. ~Releases(v) /\ ~Using(v) /\ ~Has(v) /\ ~Getting(v)
      BY <3>5 DEF Releases, Using, Has, Getting
    <3>7. Fits(th[t])'
      <4>1. ~Using(th'[t]) /\ ~Releases(th'[t]) /\ ~Getting(th'[t])
        BY <3>2, <3>6
      <4>2. QED
        BY <1>5, <3>2, <3>5, <4>1 DEF Fits
    <3>8. QED
      BY <3>2, <3>4, <3>5, <3>6, <3>7
  <2>3. QED
    BY <2>1, <2>2
<1>10. RefInv'
  <2>1. ASSUME NEW m \in Node
        PROVE  node'[m].ref = node[m].ref + Bit(hnd'[t] = m) - Bit(hnd[t] = m)
                               + Bit(Using(th'[t]) /\ th'[t].n = m) - Bit(Using(th[t]) /\ th[t].n = m)
    <3>1. node[m].ref \in Int /\ node'[m].ref = IF m = n THEN node[m].ref - 1 ELSE node[m].ref
      BY <1>4, <1>8 DEF NodeType
    <3>2. Bit(hnd'[t] = m) = Bit(hnd[t] = m) /\ Bit(hnd[t] = m) \in {0, 1}
      BY <1>1 DEF Bit
    <3>3. Bit(Using(th'[t]) /\ th'[t].n = m) = 0 /\ Bit(Using(th[t]) /\ th[t].n = m) = IF m = n THEN 1 ELSE 0
      BY <1>2, <1>9 DEF Bit
    <3>4. QED
      BY <3>1, <3>2, <3>3
  <2>2. \A m \in Node : node'[m].ref /= 0 => node'[m].key \in Keys
    BY <1>4, <1>5, <1>8 DEF RefInv
  <2>3. \A u \in Threads : th'[u].op \in Get => hnd'[u] = 0
    <3>1. \A u \in Threads \ {t} : th'[u] = th[u]
      BY <1>4, <1>9 DEF TypeInv, ThreadsOK, Moved
    <3>2. QED
      BY <1>1, <1>4, <1>9, <3>1 DEF RefInv
  <2>4. t \in Handle
    BY DEF Handle
  <2>5. QED
    BY <1>1, <1>4, <1>9, <2>1, <2>2, <2>3, <2>4, RefMoved
<1>11. LruInv'
  BY <1>1, <1>4, <1>8, <1>9, LruKept
<1>12. ValueInv'
  BY <1>1, <1>4, <1>8, <1>9, ValueKept
<1>13. \A m \in Node : node[m].ref = 0 => node'[m].ref = 0
  BY <1>5, <1>8
<1>14. TablesOK' /\ Grown /\ (\A m \in Node : InBucket(m)' => InBucket(m))
  BY <1>1, <1>4, TablesSame
<1>15. QED
  BY <1>1, <1>4, <1>8, <1>9, <1>10, <1>11, <1>12, <1>13, <1>14, RefStep

\* A goroutine takes a reference to a node that is in a bucket.
LEMMA LookupFound ==
  ASSUME HoldInv, NEW t \in Threads, th[t].pc = "get", th[t].stack = <<>>, NEW n \in Node, InBucket(n),
         node' = [node EXCEPT ![n].ref = @ + 1],
         NEW l \in {"value", "found"}, l = "value" => th[t].op \in Get,
         th' = [th EXCEPT ![t].n = n, ![t].pc = l],
         UNCHANGED <<tabs, bg, hnd, lru, capacity, closed>>
  PROVE  HoldInv'
<1>1. th[t] \in ThreadType /\ Fits(th[t]) /\ ~Using(th[t]) /\ ~th[t].inner /\ th[t].key \in Keys
  BY Thread DEF Fits, Using, Releases
<1>2. /\ TypeInv /\ RefInv /\ LruInv /\ ValueInv /\ node \in [Node -> NodeType] /\ hnd \in [Handle -> 0 .. MaxNodes]
      /\ lru \in Seq(EntryType) /\ capacity \in Nat /\ DeadInv
  BY DEF HoldInv, TypeInv, DataOK
<1>3. node[n] \in NodeType /\ node[n].key \in Keys /\ node[n].ref \in Nat
  BY <1>2, Positive DEF DeadInv
<1> DEFINE w == [node[n] EXCEPT !.ref = @ + 1]
<1>4. /\ w \in NodeType /\ w.ref = node[n].ref + 1 /\ w.key = node[n].key /\ w.value = node[n].value /\ w.mu = node[n].mu /\ w.cd = node[n].cd
  BY <1>3 DEF NodeType
<1>5. node' = [node EXCEPT ![n] = w]
  OBVIOUS
<1> HIDE DEF w
<1>6. /\ node' \in [Node -> NodeType] /\ \A m \in Node : m /= n => node'[m] = node[m]
      /\ node'[n].ref = node[n].ref + 1
      /\ \A m \in Node : node'[m].key = node[m].key /\ node'[m].cd = node[m].cd
      /\ \A m \in Node : node'[m].value = node[m].value /\ node'[m].mu = node[m].mu
  BY <1>2, <1>4, <1>5
<1> DEFINE v == [th[t] EXCEPT !.n = n, !.pc = l]
<1>7. Moved(t) /\ th'[t] = v
  <2>1. th' = [th EXCEPT ![t] = v]
    OBVIOUS
  <2>2. QED
    BY <2>1, Becomes
<1>8. v \in ThreadType
  <2>1. n \in 0 .. MaxNodes /\ l \in Labels
    BY CacheAssumption DEF Node, Labels, CacheAssumption
  <2>2. QED
    BY <1>1, <2>1 DEF ThreadType
<1>9. /\ v.pc = l /\ v.n = n /\ v.op = th[t].op /\ v.key = th[t].key /\ v.stack = <<>> /\ v.rel = th[t].rel /\ ~v.inner
  BY <1>1 DEF ThreadType
<1> HIDE DEF v
<1>10. ~Releases(v) /\ Using(v) /\ ~Has(v) /\ (Getting(v) <=> l = "value")
  BY <1>9 DEF Releases, Using, Has, Getting
<1>11. Fits(th[t])'
  <2>1. ~Releases(th'[t]) /\ Using(th'[t]) /\ (Getting(th'[t]) <=> l = "value")
    BY <1>7, <1>10
  <2>2. QED
    BY <1>1, <1>7, <1>9, <2>1 DEF Fits
<1>12. Using(th'[t]) /\ ~Has(th'[t]) /\ th'[t].n = n /\ th'[t].pc \notin {"set", "deleted"} /\ th'[t].op = th[t].op /\ th'[t].rel = th[t].rel
       /\ th'[t].stack = <<>> /\ th'[t] \in ThreadType
  BY <1>7, <1>8, <1>9, <1>10
<1>13. RefInv'
  <2>1. ASSUME NEW m \in Node
        PROVE  node'[m].ref = node[m].ref + Bit(hnd'[t] = m) - Bit(hnd[t] = m)
                               + Bit(Using(th'[t]) /\ th'[t].n = m) - Bit(Using(th[t]) /\ th[t].n = m)
    <3>1. node[m].ref \in Int /\ node'[m].ref = IF m = n THEN node[m].ref + 1 ELSE node[m].ref
      BY <1>2, <1>6 DEF NodeType
    <3>2. Bit(hnd'[t] = m) = Bit(hnd[t] = m) /\ Bit(hnd[t] = m) \in {0, 1}
      BY DEF Bit
    <3>3. Bit(Using(th'[t]) /\ th'[t].n = m) = (IF m = n THEN 1 ELSE 0) /\ Bit(Using(th[t]) /\ th[t].n = m) = 0
      BY <1>1, <1>12 DEF Bit
    <3>4. QED
      BY <3>1, <3>2, <3>3
  <2>2. \A m \in Node : node'[m].ref /= 0 => node'[m].key \in Keys
    BY <1>2, <1>3, <1>6 DEF RefInv
  <2>3. \A u \in Threads : th'[u].op \in Get => hnd'[u] = 0
    <3>1. \A u \in Threads \ {t} : th'[u] = th[u]
      BY <1>2, <1>7 DEF TypeInv, ThreadsOK, Moved
    <3>2. QED
      BY <1>2, <1>12, <3>1 DEF RefInv
  <2>4. t \in Handle
    BY DEF Handle
  <2>5. QED
    BY <1>2, <1>7, <2>1, <2>2, <2>3, <2>4, RefMoved
<1>14. LruInv'
  BY <1>2, <1>6, <1>7, <1>12, LruKept
<1>15. ValueInv'
  BY <1>2, <1>6, <1>7, <1>12, ValueKept
<1>16. \A m \in Node : node[m].ref = 0 /\ (\E u \in Threads : Leaving(u) /\ th[u].dk = m) => node'[m].ref = 0
  <2>1. \A u \in Threads : Leaving(u) => th[u].dk /= n
    BY <1>2 DEF DeadInv
  <2>2. QED
    BY <1>6, <2>1
<1>17. TablesOK' /\ Grown /\ (\A m \in Node : InBucket(m)' => InBucket(m))
  BY <1>2, TablesSame
<1>18. QED
  BY <1>2, <1>6, <1>7, <1>11, <1>12, <1>13, <1>14, <1>15, <1>16, <1>17, RefStep

\* A node is put into a bucket.
LEMMA Added ==
  ASSUME HoldInv, NEW x \in DOMAIN tabs, NEW i \in 0 .. tabs[x].len - 1, NEW n \in Node,
         tabs' = [tabs EXCEPT ![x].buckets[i].nodes = @ \cup {n}], UNCHANGED bg
  PROVE  TablesOK' /\ Grown /\ \A m \in Node : InBucket(m)' => InBucket(m) \/ m = n
<1>1. TablesOK /\ tabs \in Seq(TableType)
  BY DEF HoldInv, TypeInv, TablesOK
<1>2. /\ tabs[x] \in TableType /\ tabs[x].len \in Nat \ {0} /\ tabs[x].buckets \in [0 .. tabs[x].len - 1 -> BucketType]
  BY <1>1, BucketsOf
<1> DEFINE B == [tabs[x].buckets EXCEPT ![i].nodes = @ \cup {n}]
           T == [tabs[x] EXCEPT !.buckets = B]
<1>3. tabs' = [tabs EXCEPT ![x] = T]
  BY <1>1
<1>4. B \in [0 .. tabs[x].len - 1 -> BucketType] /\ \A j \in 0 .. tabs[x].len - 1 : B[j].nodes \subseteq tabs[x].buckets[j].nodes \cup {n}
  <2> DEFINE b == [tabs[x].buckets[i] EXCEPT !.nodes = @ \cup {n}]
  <2>1. tabs[x].buckets[i] \in BucketType
    BY <1>2
  <2>2. b \in BucketType /\ b.nodes = tabs[x].buckets[i].nodes \cup {n}
    BY <2>1 DEF BucketType
  <2>3. B = [tabs[x].buckets EXCEPT ![i] = b]
    OBVIOUS
  <2> HIDE DEF b, B
  <2>4. QED
    BY <1>2, <2>2, <2>3
<1> HIDE DEF B
<1>5. T \in TableType
  BY <1>2, <1>4, TableMade
<1>6. T.len = tabs[x].len /\ T.buckets = B /\ T.pred = tabs[x].pred /\ T.resizing = tabs[x].resizing
  BY <1>2 DEF TableType
<1> HIDE DEF T
<1>7. DOMAIN T.buckets = 0 .. T.len - 1
  BY <1>4, <1>6
<1>8. SameTables(tabs')
  BY <1>1, <1>3, <1>5, <1>6, <1>7, SameTable
<1>9. BgFits(tabs, bg')
  BY <1>1 DEF TablesOK, BgFits, BgType
<1>10. TablesOK' /\ Grown
  BY <1>1, <1>8, <1>9, TablesStay
<1>11. ASSUME NEW m \in Node, InBucket(m)' PROVE InBucket(m) \/ m = n
  <2>1. PICK y \in DOMAIN tabs' : \E j \in DOMAIN tabs'[y].buckets : m \in tabs'[y].buckets[j].nodes
    BY <1>11 DEF InBucket
  <2>2. y \in DOMAIN tabs /\ tabs'[y] = IF y = x THEN T ELSE tabs[y]
    BY <1>1, <1>3, <2>1
  <2>3. CASE y = x
    <3>1. PICK j \in 0 .. tabs[x].len - 1 : m \in B[j].nodes
      BY <1>4, <1>6, <2>1, <2>2, <2>3
    <3>2. m \in tabs[x].buckets[j].nodes \/ m = n
      BY <1>4, <3>1
    <3>3. j \in DOMAIN tabs[x].buckets
      BY <1>2, <3>1
    <3>4. QED
      BY <3>2, <3>3 DEF InBucket
  <2>4. CASE y /= x
    BY <2>1, <2>2, <2>4 DEF InBucket
  <2>5. QED
    BY <2>3, <2>4
<1>12. QED
  BY <1>10, <1>11

\* A new node.
LEMMA LookupNew ==
  ASSUME HoldInv, NEW t \in Threads, th[t].pc = "get", th[t].op \in Get, th[t].stack = <<>>,
         NEW n \in Node, node[n] = Free, node' = [node EXCEPT ![n] = [Free EXCEPT !.key = th[t].key, !.ref = 1]],
         NEW i \in 0 .. tabs[th[t].tab].len - 1, tabs' = [tabs EXCEPT ![th[t].tab].buckets[i].nodes = @ \cup {n}],
         NEW c \in Int, th' = [th EXCEPT ![t].n = n, ![t].pc = "grow", ![t].blen = c],
         UNCHANGED <<bg, hnd, lru, capacity, closed>>
  PROVE  HoldInv'
<1>1. th[t] \in ThreadType /\ Fits(th[t]) /\ ~Using(th[t]) /\ ~th[t].inner /\ th[t].key \in Keys /\ th[t].tab \in DOMAIN tabs
  BY Thread DEF Fits, Using, Releases
<1>2. /\ TypeInv /\ RefInv /\ LruInv /\ ValueInv /\ node \in [Node -> NodeType] /\ hnd \in [Handle -> 0 .. MaxNodes]
      /\ lru \in Seq(EntryType) /\ capacity \in Nat /\ DeadInv
  BY DEF HoldInv, TypeInv, DataOK
<1> DEFINE w == [Free EXCEPT !.key = th[t].key, !.ref = 1]
<1>3. /\ w.ref = 1 /\ w.key = th[t].key /\ w.value = FALSE /\ w.mu = None /\ w.onDel = {} /\ w.cd = None
      /\ node[n].ref = 0 /\ node[n].key = None /\ node[n].value = FALSE
  BY DEF Free
<1>4. w \in NodeType
  <2>1. Free \in NodeType
    BY DEF Free, NodeType
  <2>2. th[t].key \in Keys
    BY <1>1
  <2>3. \A e \in NodeType : \A k \in Keys : [e EXCEPT !.key = k] \in NodeType
    BY DEF NodeType
  <2>4. \A e \in NodeType : [e EXCEPT !.ref = 1] \in NodeType
    BY DEF NodeType
  <2>5. w = [[Free EXCEPT !.key = th[t].key] EXCEPT !.ref = 1]
    OBVIOUS
  <2> HIDE DEF w
  <2>6. [Free EXCEPT !.key = th[t].key] \in NodeType
    BY <2>1, <2>2, <2>3
  <2>7. QED
    BY <2>4, <2>5, <2>6
<1> HIDE DEF w
<1>5. /\ node' \in [Node -> NodeType] /\ node'[n] = w /\ \A m \in Node : m /= n => node'[m] = node[m]
  BY <1>2, <1>4 DEF w
<1>6. None \notin Keys /\ None /= "in"
  BY CacheAssumption DEF CacheAssumption
<1>7. /\ \A h \in Handle : hnd[h] /= n
      /\ \A u \in Threads : Using(th[u]) => th[u].n /= n
      /\ \A u \in Threads : Leaving(u) => th[u].dk /= n
  <2>1. \A h \in Handle : hnd[h] /= n
    BY <1>2, <1>3, Positive
  <2>2. \A u \in Threads : u \notin UsersOf(n)
    BY <1>2, <1>3, Positive
  <2>3. \A u \in Threads : Leaving(u) => th[u].dk /= n
    BY <1>2, <1>3, <1>6 DEF DeadInv
  <2>4. QED
    BY <2>1, <2>2, <2>3 DEF UsersOf
<1> DEFINE v == [th[t] EXCEPT !.n = n, !.pc = "grow", !.blen = c]
<1>8. Moved(t) /\ th'[t] = v
  <2>1. th' = [th EXCEPT ![t] = v]
    OBVIOUS
  <2>2. QED
    BY <2>1, Becomes
<1>9. v \in ThreadType
  <2>1. n \in 0 .. MaxNodes /\ "grow" \in Labels
    BY CacheAssumption DEF Node, Labels, CacheAssumption
  <2>2. QED
    BY <1>1, <2>1 DEF ThreadType
<1>10. /\ v.pc = "grow" /\ v.n = n /\ v.op = th[t].op /\ v.tab = th[t].tab /\ v.stack = <<>> /\ v.rel = th[t].rel /\ ~v.inner
  BY <1>1 DEF ThreadType
<1> HIDE DEF v
<1>11. ~Releases(v) /\ Using(v) /\ ~Has(v)
  BY <1>10 DEF Releases, Using, Has
<1>12. TablesOK' /\ Grown /\ \A m \in Node : InBucket(m)' => InBucket(m) \/ m = n
  BY <1>1, Added
<1>13. Fits(th[t])'
  <2>1. ~Releases(th'[t]) /\ Using(th'[t]) /\ th'[t].tab \in DOMAIN tabs'
    BY <1>1, <1>8, <1>10, <1>11, <1>12 DEF Grown
  <2>2. QED
    BY <1>1, <1>8, <1>10, <2>1 DEF Fits
<1>14. Using(th'[t]) /\ ~Has(th'[t]) /\ th'[t].n = n /\ th'[t].pc \notin {"set", "deleted"} /\ th'[t].op = th[t].op /\ th'[t].rel = th[t].rel
       /\ th'[t].stack = <<>> /\ th'[t] \in ThreadType
  BY <1>8, <1>9, <1>10, <1>11
<1>15. \A u \in Threads \ {t} : th'[u] = th[u]
  BY <1>2, <1>8 DEF TypeInv, ThreadsOK, Moved
<1>16. TypeInv'
  <2>1. Places(tabs, th[t].stack)'
    BY <1>14 DEF Places
  <2>2. ThreadsOK'
    BY <1>2, <1>8, <1>12, <1>13, <1>14, <2>1, ThreadsKept
  <2>3. DataOK'
    BY <1>2, <1>5 DEF TypeInv, DataOK
  <2>4. QED
    BY <1>12, <2>2, <2>3 DEF TypeInv
<1>17. RefInv'
  <2>1. ASSUME NEW m \in Node
        PROVE  node'[m].ref = node[m].ref + Bit(hnd'[t] = m) - Bit(hnd[t] = m)
                               + Bit(Using(th'[t]) /\ th'[t].n = m) - Bit(Using(th[t]) /\ th[t].n = m)
    <3>1. node[m].ref \in Int /\ node'[m].ref = IF m = n THEN node[m].ref + 1 ELSE node[m].ref
      BY <1>2, <1>3, <1>5 DEF NodeType
    <3>2. Bit(hnd'[t] = m) = Bit(hnd[t] = m) /\ Bit(hnd[t] = m) \in {0, 1}
      BY DEF Bit
    <3>3. Bit(Using(th'[t]) /\ th'[t].n = m) = (IF m = n THEN 1 ELSE 0) /\ Bit(Using(th[t]) /\ th[t].n = m) = 0
      BY <1>1, <1>14 DEF Bit
    <3>4. QED
      BY <3>1, <3>2, <3>3
  <2>2. \A m \in Node : node'[m].ref /= 0 => node'[m].key \in Keys
    BY <1>1, <1>2, <1>3, <1>5 DEF RefInv
  <2>3. \A u \in Threads : th'[u].op \in Get => hnd'[u] = 0
    BY <1>2, <1>14, <1>15 DEF RefInv
  <2>4. t \in Handle
    BY DEF Handle
  <2>5. QED
    BY <1>2, <1>8, <2>1, <2>2, <2>3, <2>4, RefMoved
<1>18. LruInv'
  <2>1. \A m \in Node : node'[m].cd = "in" => node[m].cd = "in"
    BY <1>3, <1>5, <1>6
  <2>2. QED
    BY <1>2, <1>8, <1>14, <2>1, LruKept
<1>19. DeadInv'
  <2>1. \A u \in Threads : Leaving(u)' => Leaving(u) /\ th'[u].dk = th[u].dk /\ th[u].dk \in Node /\ th[u].dk /= n
    <3>1. \A u \in Threads : Leaving(u) => th[u].dk \in Node
      BY <1>2 DEF Leaving, TypeInv, ThreadsOK, Fits
    <3>2. QED
      BY <1>7, <1>14, <1>15, <3>1 DEF Leaving
  <2>2. \A m \in Node : InBucket(m)' => node'[m].key \in Keys /\ \A u \in Threads : Leaving(u)' => th'[u].dk /= m
    <3>1. ASSUME NEW m \in Node, InBucket(m)' PROVE node'[m].key \in Keys /\ \A u \in Threads : Leaving(u)' => th'[u].dk /= m
      <4>1. CASE m = n
        BY <1>1, <1>3, <1>5, <2>1, <4>1
      <4>2. CASE m /= n
        <5>1. InBucket(m) /\ node'[m] = node[m]
          BY <1>5, <1>12, <3>1, <4>2
        <5>2. node[m].key \in Keys /\ \A u \in Threads : Leaving(u) => th[u].dk /= m
          BY <1>2, <5>1 DEF DeadInv
        <5>3. QED
          BY <2>1, <5>1, <5>2
      <4>3. QED
        BY <4>1, <4>2
    <3>2. QED
      BY <3>1
  <2>3. \A u \in Threads : Leaving(u)' =>
          /\ node'[th'[u].dk].ref = 0 /\ node'[th'[u].dk].key \in Keys
          /\ \A z \in Threads \ {u} : Leaving(z)' => th'[z].dk /= th'[u].dk
    <3>1. ASSUME NEW u \in Threads, Leaving(u)'
          PROVE  /\ node'[th'[u].dk].ref = 0 /\ node'[th'[u].dk].key \in Keys
                 /\ \A z \in Threads \ {u} : Leaving(z)' => th'[z].dk /= th'[u].dk
      <4>1. Leaving(u) /\ th'[u].dk = th[u].dk /\ node'[th[u].dk] = node[th[u].dk]
        BY <1>5, <2>1, <3>1
      <4>2. /\ node[th[u].dk].ref = 0 /\ node[th[u].dk].key \in Keys
            /\ \A z \in Threads \ {u} : Leaving(z) => th[z].dk /= th[u].dk
        BY <1>2, <4>1 DEF DeadInv
      <4>3. QED
        BY <2>1, <4>1, <4>2
    <3>2. QED
      BY <3>1
  <2>4. QED
    BY <2>2, <2>3 DEF DeadInv
<1>20. ValueInv'
  <2>1. \A u \in Threads : th[u].pc = "set" => Using(th[u]) /\ th[u].n \in Node
    BY Thread DEF Using, Fits
  <2>2. \A u \in Threads : Has(th[u]) => Using(th[u]) /\ th[u].n \in Node
    BY Thread DEF Using, Fits, Has
  <2>3. \A h \in Handle : hnd[h] /= 0 => hnd[h] \in Node
    BY <1>2 DEF Node
  <2>4. \A u \in Threads : th'[u].pc = "set" => node'[th'[u].n].mu = u /\ ~node'[th'[u].n].value
    <3>1. ASSUME NEW u \in Threads, th'[u].pc = "set" PROVE node'[th'[u].n].mu = u /\ ~node'[th'[u].n].value
      <4>1. u /= t /\ th'[u] = th[u]
        BY <1>14, <1>15, <3>1
      <4>2. node'[th[u].n] = node[th[u].n]
        BY <1>5, <1>7, <2>1, <3>1, <4>1
      <4>3. QED
        BY <1>2, <3>1, <4>1, <4>2 DEF ValueInv
    <3>2. QED
      BY <3>1
  <2>5. closed' /= "close" => \A h \in Handle : hnd'[h] /= 0 => node'[hnd'[h]].value
    BY <1>2, <1>5, <1>7, <2>3 DEF ValueInv
  <2>6. closed' /= "close" => \A u \in Threads : Has(th'[u]) => node'[th'[u].n].value
    <3>1. ASSUME closed' /= "close", NEW u \in Threads, Has(th'[u]) PROVE node'[th'[u].n].value
      <4>1. u /= t /\ th'[u] = th[u]
        BY <1>14, <1>15, <3>1
      <4>2. node'[th[u].n] = node[th[u].n] /\ Has(th[u])
        BY <1>5, <1>7, <2>2, <3>1, <4>1
      <4>3. QED
        BY <1>2, <3>1, <4>1, <4>2 DEF ValueInv
    <3>2. QED
      BY <3>1
  <2>7. QED
    BY <2>4, <2>5, <2>6 DEF ValueInv
<1>21. QED
  BY <1>16, <1>17, <1>18, <1>19, <1>20 DEF HoldInv

\* The lookup in the bucket keeps the invariant: the node that it finds, or
\* adds, counts the call.
LEMMA LookupStep ==
  ASSUME HoldInv, NEW t \in Threads, Lookup(t)
  PROVE  HoldInv'
<1> DEFINE k == th[t].key
           x == th[t].tab
           i == k % tabs[x].len
           b == tabs[x].buckets[i]
<1>1. /\ th[t].pc = "get" /\ th[t].stack = <<>> /\ UNCHANGED <<bg, hnd, lru, capacity, closed>>
  BY DEF Lookup, lruVars
<1>2. th[t] \in ThreadType /\ Fits(th[t]) /\ ~Using(th[t]) /\ ~th[t].inner /\ k \in Keys /\ x \in DOMAIN tabs
  BY <1>1, Thread DEF Fits, Using, Releases
<1>3. /\ TablesOK /\ k \in Nat /\ tabs[x].len \in Nat \ {0} /\ tabs[x].buckets \in [0 .. tabs[x].len - 1 -> BucketType]
  BY <1>2, CacheAssumption, BucketsOf DEF HoldInv, TypeInv, CacheAssumption
<1>4. i \in 0 .. tabs[x].len - 1
  <2> HIDE DEF k, x
  <2>1. QED
    BY <1>3
<1> HIDE DEF i
<1>5. b \in BucketType /\ i \in DOMAIN tabs[x].buckets
  BY <1>3, <1>4
<1>6. \A n \in Found(b, k) : n \in Node /\ InBucket(n)
  BY <1>2, <1>5 DEF Found, InBucket, BucketType
<1>7. CASE b.frozen
  <2>1. To(t, "bucket") /\ UNCHANGED <<tabs, node>>
    BY <1>7 DEF Lookup, i
  <2>2. "bucket" \in Labels
    BY DEF Labels
  <2>3. /\ Moved(t) /\ th'[t] \in ThreadType /\ th'[t].pc = "bucket"
        /\ th'[t].op = th[t].op /\ th'[t].key = th[t].key /\ th'[t].stack = th[t].stack /\ th'[t].rel = th[t].rel /\ th'[t].inner = th[t].inner
    BY <2>1, <2>2, Goes
  <2>4. ~Releases(th'[t]) /\ ~Using(th'[t]) /\ ~Has(th'[t]) /\ ~Getting(th'[t])
    BY <1>2, <2>3 DEF Releases, Using, Has, Getting
  <2>5. Fits(th[t])'
    BY <1>1, <1>2, <2>3, <2>4 DEF Fits
  <2>6. Places(tabs, th'[t].stack)
    BY <1>1, <2>3 DEF Places
  <2>7. QED
    BY <1>1, <1>2, <2>1, <2>3, <2>4, <2>5, <2>6, Thread, QuietMove
<1>8. CASE ~b.frozen /\ Found(b, k) /= {}
  <2>1. PICK n \in Found(b, k) :
           /\ node' = [node EXCEPT ![n].ref = @ + 1]
           /\ th' = [th EXCEPT ![t].n = n, ![t].pc = IF th[t].op \in {"get", "peek"} THEN "value" ELSE "found"]
           /\ UNCHANGED tabs
    BY <1>8 DEF Lookup, i
  <2> DEFINE l == IF th[t].op \in {"get", "peek"} THEN "value" ELSE "found"
  <2>2. l \in {"value", "found"} /\ (l = "value" => th[t].op \in Get)
    BY DEF Get
  <2>3. th' = [th EXCEPT ![t].n = n, ![t].pc = l]
    BY <2>1
  <2>4. n \in Node /\ InBucket(n)
    BY <1>6
  <2> HIDE DEF l
  <2>5. QED
    BY <1>1, <2>1, <2>2, <2>3, <2>4, LookupFound
<1>9. CASE ~b.frozen /\ Found(b, k) = {} /\ th[t].op = "get"
  <2>1. PICK n \in Node :
           /\ IsNew(n)
           /\ node' = [node EXCEPT ![n] = [Free EXCEPT !.key = k, !.ref = 1]]
           /\ tabs' = [tabs EXCEPT ![x].buckets[i].nodes = @ \cup {n}]
           /\ th' = [th EXCEPT ![t].n = n, ![t].pc = "grow", ![t].blen = Cardinality(b.nodes) + 1]
    BY <1>9 DEF Lookup, i
  <2>2. Cardinality(b.nodes) + 1 \in Int
    <3>1. IsFiniteSet(Node)
      BY FS_Interval, CacheAssumption DEF CacheAssumption, Node
    <3>2. b.nodes \in SUBSET Node
      BY <1>5 DEF BucketType
    <3>3. IsFiniteSet(b.nodes)
      BY <3>1, <3>2, FS_Subset
    <3>4. Cardinality(b.nodes) \in Nat
      BY <3>3, FS_CardinalityType
    <3>5. QED
      BY <3>4
  <2>3. node[n] = Free /\ th[t].op \in Get
    BY <1>9, <2>1 DEF IsNew, Get
  <2>4. QED
    BY <1>1, <1>4, <2>1, <2>2, <2>3, LookupNew
<1>10. CASE ~b.frozen /\ Found(b, k) = {} /\ th[t].op /= "get"
  <2>1. th' = [th EXCEPT ![t] = Idle] /\ UNCHANGED <<tabs, node>>
    BY <1>10 DEF Lookup, Return, i
  <2>2. QED
    BY <1>1, <1>2, <2>1, Returns
<1>11. QED
  BY <1>7, <1>8, <1>9, <1>10

\* A counter of a table.
LEMMA Counter ==
  ASSUME TablesOK, NEW x \in DOMAIN tabs, NEW o \in Int
  PROVE  LET T == [tabs EXCEPT ![x].overflow = o]
         IN  SameTables(T) /\ Fewer(T) /\ \A y \in DOMAIN tabs : T[y].buckets = tabs[y].buckets
<1> DEFINE v == [tabs[x] EXCEPT !.overflow = o]
           T == [tabs EXCEPT ![x].overflow = o]
<1>1. tabs \in Seq(TableType) /\ tabs[x] \in TableType
  BY DEF TablesOK
<1>2. v \in TableType /\ v.len = tabs[x].len /\ v.buckets = tabs[x].buckets /\ v.pred = tabs[x].pred /\ v.resizing = tabs[x].resizing
  BY <1>1 DEF TableType
<1>3. T = [tabs EXCEPT ![x] = v]
  BY <1>1
<1> HIDE DEF v
<1>4. DOMAIN v.buckets = 0 .. v.len - 1
  BY <1>2 DEF TablesOK
<1>5. SameTables(T)
  BY <1>2, <1>3, <1>4, SameTable
<1>6. DOMAIN T = DOMAIN tabs /\ \A y \in DOMAIN tabs : T[y].buckets = tabs[y].buckets
  BY <1>1, <1>2, <1>3
<1> HIDE DEF T
<1>7. Fewer(T)
  BY <1>6 DEF Fewer, InBucket
<1>8. QED
  BY <1>5, <1>6, <1>7 DEF T

\* The table that a lookup makes twice as large keeps the invariant.
LEMMA GrowStep ==
  ASSUME HoldInv, NEW t \in Threads, Grow(t)
  PROVE  HoldInv'
<1> DEFINE x == th[t].tab
           over == tabs[x].overflow + (IF th[t].blen > Overflow THEN 1 ELSE 0)
           grow == nodes + 1 >= tabs[x].len * Overflow \/ (th[t].blen > Overflow /\ over >= OverflowGrow)
           T == [tabs EXCEPT ![x].overflow = over]
           len == tabs[x].len * 2
<1>1. /\ th[t].pc = "grow" /\ tabs' = Resized(x, T, grow, len) /\ bg' = Started(tabs') /\ To(t, "value")
      /\ UNCHANGED <<node, hnd, lru, capacity, closed>>
  BY DEF Grow, lruVars
<1>2. th[t] \in ThreadType /\ Fits(th[t]) /\ Using(th[t]) /\ Getting(th[t]) /\ ~Has(th[t])
  BY <1>1, Thread DEF Using, Getting, Has, Fits, Releases
<1>3. x \in DOMAIN tabs /\ ~th[t].inner /\ th[t].stack = <<>> /\ th[t].op \in Get
  BY <1>1, <1>2 DEF Fits
<1>4. TablesOK /\ tabs[x] \in TableType /\ tabs[x].len \in Nat \ {0}
  BY <1>3, BucketsOf DEF HoldInv, TypeInv
<1>5. over \in Int
  BY <1>4 DEF TableType
<1>6. SameTables(T) /\ Fewer(T)
  BY <1>3, <1>4, <1>5, Counter
<1>7. len \in Nat \ {0} /\ len > tabs[x].len
  BY <1>4
<1>8. grow \in BOOLEAN
  OBVIOUS
<1> HIDE DEF T, grow, len, over
<1>9. TablesOK' /\ Grown /\ \A n \in Node : InBucket(n)' => InBucket(n)
  BY <1>1, <1>3, <1>4, <1>6, <1>7, <1>8, ResizedOK
<1>10. /\ Moved(t) /\ th'[t] \in ThreadType /\ Fits(th[t])' /\ th'[t].stack = <<>> /\ Using(th'[t])
       /\ th'[t].n = th[t].n /\ th'[t].op = th[t].op /\ th'[t].pc = "value" /\ th'[t].rel = th[t].rel
       /\ ~Has(th'[t])
  BY <1>1, <1>2, <1>3, GoesOn
<1>11. Places(tabs, th[t].stack)'
  BY <1>10 DEF Places
<1>12. QED
  BY <1>1, <1>2, <1>9, <1>10, <1>11, Thread, QuietStep

\* The tables without a node.
LEMMA WithoutOK ==
  ASSUME TablesOK, NEW n \in Node, tabs' = Without(n), UNCHANGED bg
  PROVE  TablesOK' /\ Grown /\ (\A m \in Node : InBucket(m)' => InBucket(m) /\ m /= n)
<1> DEFINE B(x) == [i \in DOMAIN tabs[x].buckets |-> [tabs[x].buckets[i] EXCEPT !.nodes = @ \ {n}]]
           T(x) == [tabs[x] EXCEPT !.buckets = B(x)]
<1>1. tabs \in Seq(TableType) /\ Len(tabs) \in Nat /\ DOMAIN tabs = 1 .. Len(tabs)
  BY DEF TablesOK
<1>2. tabs' = [x \in DOMAIN tabs |-> T(x)]
  BY DEF Without
<1>3. ASSUME NEW x \in DOMAIN tabs
      PROVE  /\ T(x) \in TableType /\ T(x).len = tabs[x].len /\ DOMAIN T(x).buckets = 0 .. tabs[x].len - 1
             /\ T(x).pred = tabs[x].pred /\ T(x).resizing = tabs[x].resizing
             /\ DOMAIN T(x).buckets = DOMAIN tabs[x].buckets
             /\ \A i \in DOMAIN tabs[x].buckets : T(x).buckets[i].nodes = tabs[x].buckets[i].nodes \ {n}
  <2>1. /\ tabs[x] \in TableType /\ tabs[x].len \in Nat \ {0} /\ tabs[x].buckets \in [0 .. tabs[x].len - 1 -> BucketType]
    BY BucketsOf
  <2>2. \A i \in 0 .. tabs[x].len - 1 : /\ [tabs[x].buckets[i] EXCEPT !.nodes = @ \ {n}] \in BucketType
                                        /\ [tabs[x].buckets[i] EXCEPT !.nodes = @ \ {n}].nodes = tabs[x].buckets[i].nodes \ {n}
    <3>1. \A b \in BucketType : [b EXCEPT !.nodes = @ \ {n}] \in BucketType /\ [b EXCEPT !.nodes = @ \ {n}].nodes = b.nodes \ {n}
      BY DEF BucketType
    <3>2. QED
      BY <2>1, <3>1
  <2>3. /\ B(x) \in [0 .. tabs[x].len - 1 -> BucketType]
        /\ \A i \in 0 .. tabs[x].len - 1 : B(x)[i].nodes = tabs[x].buckets[i].nodes \ {n}
    BY <2>1, <2>2
  <2> HIDE DEF B
  <2>4. T(x) \in TableType
    BY <2>1, <2>3, TableMade
  <2>5. T(x).len = tabs[x].len /\ T(x).buckets = B(x) /\ T(x).pred = tabs[x].pred /\ T(x).resizing = tabs[x].resizing
    BY <2>1 DEF TableType
  <2> HIDE DEF T
  <2>6. QED
    BY <2>1, <2>3, <2>4, <2>5
<1> HIDE DEF T
<1>4. SameTables(tabs')
  <2>1. tabs' \in Seq(TableType) /\ Len(tabs') = Len(tabs)
    BY <1>1, <1>2, <1>3
  <2>2. \A x \in DOMAIN tabs : tabs'[x] = T(x)
    BY <1>2
  <2>3. QED
    BY <1>3, <2>1, <2>2 DEF SameTables
<1>5. BgFits(tabs, bg')
  BY DEF TablesOK, BgFits, BgType
<1>6. TablesOK' /\ Grown
  BY <1>4, <1>5, TablesStay
<1>7. ASSUME NEW m \in Node, InBucket(m)' PROVE InBucket(m) /\ m /= n
  <2>1. PICK x \in DOMAIN tabs' : \E i \in DOMAIN tabs'[x].buckets : m \in tabs'[x].buckets[i].nodes
    BY <1>7 DEF InBucket
  <2>2. x \in DOMAIN tabs /\ tabs'[x] = T(x)
    BY <1>2, <2>1
  <2>3. PICK i \in DOMAIN tabs[x].buckets : m \in tabs[x].buckets[i].nodes \ {n}
    BY <1>3, <2>1, <2>2
  <2>4. QED
    BY <2>2, <2>3 DEF InBucket
<1>8. QED
  BY <1>6, <1>7

\* What is known of a step that alters one node nobody refers to.
LEMMA Unreferred ==
  ASSUME HoldInv, NEW n \in Node, node[n].ref = 0
  PROVE  /\ \A h \in Handle : hnd[h] /= n
         /\ \A u \in Threads : Using(th[u]) => th[u].n /= n
         /\ node[n].cd /= "in"
<1>1. RefInv /\ LruInv /\ lru \in Seq(EntryType)
  BY DEF HoldInv, TypeInv, DataOK
<1>2. \A h \in Handle : hnd[h] /= n
  BY <1>1, Positive
<1>3. \A u \in Threads : u \notin UsersOf(n)
  BY <1>1, Positive
<1>4. node[n].cd /= "in"
  <2>1. ASSUME node[n].cd = "in" PROVE FALSE
    <3>1. PICK i \in DOMAIN lru : Current(lru, hnd, n, i)
      BY <1>1, <2>1 DEF LruInv, Entries
    <3>2. lru[i] \in EntryType
      BY <1>1
    <3>3. lru[i].h \in Handle /\ hnd[lru[i].h] = n
      BY <3>1, <3>2 DEF EntryType, Handle, Current
    <3>4. QED
      BY <1>2, <3>3
  <2>2. QED
    BY <2>1
<1>5. QED
  BY <1>2, <1>3, <1>4 DEF UsersOf

\* A node that nobody refers to leaves its bucket for good.
LEMMA DeleteNode ==
  ASSUME HoldInv, NEW t \in Threads, th[t].pc = "delete", th[t].stack = <<>>,
         NEW n \in Node, InBucket(n), node[n].ref = 0, node' = [node EXCEPT ![n].value = FALSE],
         tabs' = Without(n),
         lru' = [j \in DOMAIN lru |-> IF lru[j].n = n THEN [lru[j] EXCEPT !.n = 0] ELSE lru[j]],
         NEW c \in Int, th' = [th EXCEPT ![t].pc = "deleted", ![t].dk = n, ![t].blen = c],
         UNCHANGED <<bg, hnd, capacity, closed>>
  PROVE  HoldInv'
<1>1. th[t] \in ThreadType /\ Fits(th[t]) /\ th[t].tab \in DOMAIN tabs
  BY Thread DEF Fits
<1>2. /\ TypeInv /\ RefInv /\ LruInv /\ ValueInv /\ DeadInv /\ TablesOK /\ node \in [Node -> NodeType]
      /\ hnd \in [Handle -> 0 .. MaxNodes] /\ lru \in Seq(EntryType) /\ capacity \in Nat
  BY DEF HoldInv, TypeInv, DataOK
<1>3. /\ \A h \in Handle : hnd[h] /= n
      /\ \A u \in Threads : Using(th[u]) => th[u].n /= n
      /\ node[n].cd /= "in"
  BY Unreferred
<1>4. node[n].key \in Keys /\ \A u \in Threads : Leaving(u) => th[u].dk /= n
  BY <1>2 DEF DeadInv
<1> DEFINE w == [node[n] EXCEPT !.value = FALSE]
<1>5. w \in NodeType /\ w.ref = 0 /\ w.key = node[n].key /\ w.mu = node[n].mu /\ w.cd = node[n].cd
  <2>1. node[n] \in NodeType
    BY <1>2
  <2>2. QED
    BY <2>1 DEF NodeType
<1> HIDE DEF w
<1>6. /\ node' \in [Node -> NodeType] /\ \A m \in Node : m /= n => node'[m] = node[m]
      /\ \A m \in Node : node'[m].ref = node[m].ref /\ node'[m].key = node[m].key /\ node'[m].cd = node[m].cd
  BY <1>2, <1>5 DEF w
<1> DEFINE v == [th[t] EXCEPT !.pc = "deleted", !.dk = n, !.blen = c]
<1>7. Moved(t) /\ th'[t] = v
  <2>1. th' = [th EXCEPT ![t] = v]
    OBVIOUS
  <2>2. QED
    BY <2>1, Becomes
<1>8. v \in ThreadType
  <2>1. n \in Nat /\ "deleted" \in Labels
    BY CacheAssumption DEF Node, Labels, CacheAssumption
  <2>2. QED
    BY <1>1, <2>1 DEF ThreadType
<1>9. /\ v.pc = "deleted" /\ v.dk = n /\ v.n = th[t].n /\ v.op = th[t].op /\ v.tab = th[t].tab /\ v.stack = <<>> /\ v.rel = th[t].rel
      /\ v.then = th[t].then /\ v.inner = th[t].inner
  BY <1>1 DEF ThreadType
<1> HIDE DEF v
<1>10. /\ Releases(v) <=> Releases(th[t])
       /\ Using(v) <=> Using(th[t])
       /\ Has(v) <=> Has(th[t])
       /\ Getting(v) <=> Getting(th[t])
  BY <1>9 DEF Releases, Using, Has, Getting
<1>11. TablesOK' /\ Grown /\ \A m \in Node : InBucket(m)' => InBucket(m) /\ m /= n
  BY <1>2, WithoutOK
<1>12. Fits(th[t])'
  <2>1. /\ Using(v) => v.n \in Node
        /\ Releases(v) => v.rel /= <<>> /\ v.then \in Ends
        /\ Getting(v) => v.op \in Get
    BY <1>1, <1>9, <1>10 DEF Fits
  <2>2. v.tab \in DOMAIN tabs'
    BY <1>1, <1>9, <1>11 DEF Grown
  <2>3. (Using(th'[t]) <=> Using(v)) /\ (Releases(th'[t]) <=> Releases(v)) /\ (Getting(th'[t]) <=> Getting(v))
    BY <1>7
  <2>4. QED
    BY <1>7, <1>9, <2>1, <2>2, <2>3 DEF Fits
<1>13. /\ Using(th'[t]) <=> Using(th[t])
       /\ Has(th'[t]) <=> Has(th[t])
       /\ th'[t].n = th[t].n /\ th'[t].pc = "deleted" /\ th'[t].dk = n /\ th'[t].op = th[t].op /\ th'[t].rel = th[t].rel
       /\ th'[t].stack = <<>> /\ th'[t] \in ThreadType
  BY <1>7, <1>8, <1>9, <1>10
<1>14. \A u \in Threads \ {t} : th'[u] = th[u]
  BY <1>2, <1>7 DEF TypeInv, ThreadsOK, Moved
<1>15. /\ lru' \in Seq(EntryType) /\ DOMAIN lru' = DOMAIN lru
       /\ \A i \in DOMAIN lru : lru'[i].h = lru[i].h /\ lru'[i].n = IF lru[i].n = n THEN 0 ELSE lru[i].n
  <2>1. \A e \in EntryType : [e EXCEPT !.n = 0] \in EntryType /\ [e EXCEPT !.n = 0].h = e.h /\ [e EXCEPT !.n = 0].n = 0
    BY CacheAssumption DEF EntryType, CacheAssumption
  <2>2. \A i \in DOMAIN lru : lru[i] \in EntryType
    BY <1>2
  <2>3. \A i \in DOMAIN lru : lru'[i] \in EntryType /\ lru'[i].h = lru[i].h /\ lru'[i].n = IF lru[i].n = n THEN 0 ELSE lru[i].n
    BY <2>1, <2>2
  <2>4. Len(lru) \in Nat /\ DOMAIN lru = 1 .. Len(lru) /\ DOMAIN lru' = DOMAIN lru
    BY <1>2
  <2>5. lru' \in Seq(EntryType)
    <3>1. lru' = [i \in 1 .. Len(lru) |-> lru'[i]]
      BY <2>4
    <3>2. \A i \in 1 .. Len(lru) : lru'[i] \in EntryType
      BY <2>3, <2>4
    <3>3. QED
      BY <2>4, <3>1, <3>2
  <2>6. QED
    BY <2>3, <2>4, <2>5
<1>16. TypeInv'
  <2>1. Places(tabs, th[t].stack)'
    BY <1>13 DEF Places
  <2>2. ThreadsOK'
    BY <1>2, <1>7, <1>11, <1>12, <1>13, <2>1, ThreadsKept
  <2>3. DataOK'
    BY <1>2, <1>6, <1>15 DEF TypeInv, DataOK
  <2>4. QED
    BY <1>11, <2>2, <2>3 DEF TypeInv
<1>17. RefInv'
  <2>1. \A m \in Node : t \in UsersOf(m)' <=> t \in UsersOf(m)
    BY <1>13 DEF UsersOf
  <2>2. th'[t].op \in Get => hnd[t] = 0
    BY <1>13, Thread
  <2>3. QED
    BY <1>2, <1>6, <1>7, <2>1, <2>2, RefKept
<1>18. LruInv'
  <2>1. \A i, j \in DOMAIN lru' : lru'[i].h = lru'[j].h => i = j
    BY <1>2, <1>15 DEF LruInv, Entries
  <2>2. ASSUME NEW m \in Node, node'[m].cd = "in" PROVE \E i \in DOMAIN lru' : Current(lru, hnd, m, i)'
    <3>1. m /= n /\ node[m].cd = "in" /\ m /= 0
      BY <1>3, <1>6, <2>2, CacheAssumption DEF Node, CacheAssumption
    <3>2. PICK i \in DOMAIN lru : Current(lru, hnd, m, i)
      BY <1>2, <3>1 DEF LruInv, Entries
    <3>3. lru'[i].n = m /\ lru'[i].h = lru[i].h
      BY <1>15, <3>1, <3>2 DEF Current
    <3>4. \A j \in 1 .. i - 1 : j \in DOMAIN lru /\ lru'[j].n /= m
      <4>1. \A j \in 1 .. i - 1 : j \in DOMAIN lru
        BY <1>2
      <4>2. QED
        BY <1>15, <3>1, <3>2, <4>1 DEF Current
    <3>5. \A u \in Threads : lru[i].h \notin ToSet(th'[u].rel)
      BY <1>13, <1>14, <3>2 DEF Current
    <3>6. hnd[lru[i].h] = m
      BY <3>2 DEF Current
    <3>7. QED
      BY <1>15, <3>2, <3>3, <3>4, <3>5, <3>6 DEF Current
  <2>3. QED
    BY <2>1, <2>2 DEF LruInv, Entries
<1>19. DeadInv'
  <2>1. \A u \in Threads \ {t} : Leaving(u)' => Leaving(u) /\ th'[u].dk = th[u].dk /\ th[u].dk \in Node /\ th[u].dk /= n
    <3>1. \A u \in Threads : Leaving(u) => th[u].dk \in Node
      BY <1>2 DEF Leaving, TypeInv, ThreadsOK, Fits
    <3>2. QED
      BY <1>4, <1>14, <3>1 DEF Leaving
  <2>2. ASSUME NEW m \in Node, InBucket(m)' PROVE node'[m].key \in Keys /\ \A u \in Threads : Leaving(u)' => th'[u].dk /= m
    <3>1. InBucket(m) /\ m /= n
      BY <1>11, <2>2
    <3>2. node[m].key \in Keys /\ \A u \in Threads : Leaving(u) => th[u].dk /= m
      BY <1>2, <3>1 DEF DeadInv
    <3>3. node'[m].key \in Keys
      BY <1>6, <3>2
    <3>4. ASSUME NEW u \in Threads, Leaving(u)' PROVE th'[u].dk /= m
      <4>1. CASE u = t
        BY <1>13, <3>1, <4>1
      <4>2. CASE u /= t
        BY <2>1, <3>2, <3>4, <4>2
      <4>3. QED
        BY <4>1, <4>2
    <3>5. QED
      BY <3>3, <3>4
  <2>3. ASSUME NEW u \in Threads, Leaving(u)'
        PROVE  /\ node'[th'[u].dk].ref = 0 /\ node'[th'[u].dk].key \in Keys
               /\ \A z \in Threads \ {u} : Leaving(z)' => th'[z].dk /= th'[u].dk
    <3>1. CASE u = t
      BY <1>4, <1>6, <1>13, <2>1, <3>1
    <3>2. CASE u /= t
      <4>1. Leaving(u) /\ th'[u].dk = th[u].dk /\ th[u].dk \in Node /\ th[u].dk /= n
        BY <2>1, <2>3, <3>2
      <4>2. /\ node[th[u].dk].ref = 0 /\ node[th[u].dk].key \in Keys
            /\ \A z \in Threads \ {u} : Leaving(z) => th[z].dk /= th[u].dk
        BY <1>2, <4>1 DEF DeadInv
      <4>3. \A z \in Threads \ {u} : Leaving(z)' => th'[z].dk /= th'[u].dk
        BY <1>13, <2>1, <4>1, <4>2
      <4>4. QED
        BY <1>6, <4>1, <4>2, <4>3
    <3>3. QED
      BY <3>1, <3>2
  <2>4. QED
    BY <2>2, <2>3 DEF DeadInv
<1>20. ValueInv'
  <2>1. \A u \in Threads : th[u].pc = "set" => Using(th[u]) /\ th[u].n \in Node
    BY Thread DEF Using, Fits
  <2>2. \A u \in Threads : Has(th[u]) => Using(th[u]) /\ th[u].n \in Node
    BY Thread DEF Using, Fits, Has
  <2>3. \A h \in Handle : hnd[h] /= 0 => hnd[h] \in Node
    BY <1>2 DEF Node
  <2>4. ASSUME NEW u \in Threads, th'[u].pc = "set" PROVE node'[th'[u].n].mu = u /\ ~node'[th'[u].n].value
    <3>1. u /= t /\ th'[u] = th[u]
      BY <1>13, <1>14, <2>4
    <3>2. node'[th[u].n] = node[th[u].n]
      BY <1>3, <1>6, <2>1, <2>4, <3>1
    <3>3. QED
      BY <1>2, <2>4, <3>1, <3>2 DEF ValueInv
  <2>5. ASSUME closed' /= "close", NEW h \in Handle, hnd'[h] /= 0 PROVE node'[hnd'[h]].value
    BY <1>2, <1>3, <1>6, <2>3, <2>5 DEF ValueInv
  <2>6. ASSUME closed' /= "close", NEW u \in Threads, Has(th'[u]) PROVE node'[th'[u].n].value
    <3>1. Has(th[u]) /\ th'[u].n = th[u].n
      BY <1>13, <1>14, <2>6
    <3>2. node'[th[u].n] = node[th[u].n]
      BY <1>3, <1>6, <2>2, <3>1
    <3>3. QED
      BY <1>2, <2>6, <3>1, <3>2 DEF ValueInv
  <2>7. QED
    BY <2>4, <2>5, <2>6 DEF ValueInv
<1>21. QED
  BY <1>16, <1>17, <1>18, <1>19, <1>20 DEF HoldInv

\* mBucket.delete keeps the invariant: it looks at the count with the bucket
\* locked, where nobody can get a reference.
LEMMA DeleteStep ==
  ASSUME HoldInv, NEW t \in Threads, Delete(t)
  PROVE  HoldInv'
<1> DEFINE k == th[t].dk
           x == th[t].tab
           i == k % tabs[x].len
           b == tabs[x].buckets[i]
<1>1. /\ th[t].pc = "delete" /\ th[t].stack = <<>> /\ UNCHANGED <<bg, hnd, capacity, closed>>
  BY DEF Delete
<1>2. th[t] \in ThreadType /\ Fits(th[t]) /\ k \in Keys /\ x \in DOMAIN tabs
  BY <1>1, Thread DEF Fits
<1>3. /\ TablesOK /\ k \in Nat /\ tabs[x].len \in Nat \ {0} /\ tabs[x].buckets \in [0 .. tabs[x].len - 1 -> BucketType]
  BY <1>2, CacheAssumption, BucketsOf DEF HoldInv, TypeInv, CacheAssumption
<1>4. i \in 0 .. tabs[x].len - 1
  <2> HIDE DEF k, x
  <2>1. QED
    BY <1>3
<1> HIDE DEF i
<1>5. b \in BucketType /\ i \in DOMAIN tabs[x].buckets
  BY <1>3, <1>4
<1>6. \A n \in Dead(b, k) : n \in Node /\ InBucket(n) /\ node[n].ref = 0
  BY <1>2, <1>5 DEF Dead, InBucket, BucketType
<1>7. CASE b.frozen
  <2>1. To(t, "dbucket") /\ UNCHANGED <<tabs, node, lru>>
    BY <1>7 DEF Delete, i
  <2>2. "dbucket" \in Labels
    BY DEF Labels
  <2>3. /\ Moved(t) /\ th'[t] \in ThreadType /\ th'[t].pc = "dbucket"
        /\ th'[t].op = th[t].op /\ th'[t].key = th[t].key /\ th'[t].stack = th[t].stack /\ th'[t].rel = th[t].rel
        /\ th'[t].inner = th[t].inner /\ th'[t].n = th[t].n /\ th'[t].dk = th[t].dk /\ th'[t].then = th[t].then
    BY <2>1, <2>2, Goes
  <2>4. /\ Releases(th'[t]) <=> Releases(th[t])
        /\ Using(th'[t]) <=> Using(th[t])
        /\ Has(th'[t]) <=> Has(th[t])
        /\ Getting(th'[t]) <=> Getting(th[t])
    BY <1>1, <2>3 DEF Releases, Using, Has, Getting
  <2>5. Fits(th[t])'
    <3>1. /\ Using(th[t]) => th[t].n \in Node
          /\ Releases(th[t]) => th[t].rel /= <<>> /\ th[t].then \in Ends
          /\ Getting(th[t]) => th[t].op \in Get
      BY <1>2 DEF Fits
    <3>2. QED
      BY <1>1, <1>2, <2>3, <2>4, <3>1 DEF Fits
  <2>6. Places(tabs, th'[t].stack)
    BY <1>1, <2>3 DEF Places
  <2>7. QED
    BY <1>1, <1>2, <2>1, <2>3, <2>4, <2>5, <2>6, Thread, QuietMove
<1>8. CASE ~b.frozen /\ Dead(b, k) = {}
  <2>1. EndDelete(t) /\ UNCHANGED <<tabs, node, lru>>
    BY <1>8 DEF Delete, i
  <2>2. /\ th[t].inner => After(t, Tail(th[t].rel), th[t].then) /\ th[t].then \in Ends
        /\ ~th[t].inner => After(t, <<>>, "idle")
    BY <1>1, <2>1, EndDeleteGoes
  <2>3. CASE th[t].inner
    <3>1. Releases(th[t])
      BY <2>3 DEF Releases
    <3>2. Tail(th[t].rel) \in Seq(Handle) /\ ToSet(Tail(th[t].rel)) \subseteq ToSet(th[t].rel)
      BY <1>2, <3>1, TailOf DEF Fits, ThreadType
    <3>3. Using(th[t]) <=> th[t].then \in {"handle", "unref"}
      BY <1>1, <3>1 DEF Using
    <3>4. th[t].then = "handle" => Has(th[t])
      BY <3>1 DEF Has
    <3>5. QED
      BY <1>1, <2>1, <2>2, <2>3, <3>2, <3>3, <3>4, QuietAfter
  <2>4. CASE ~th[t].inner
    <3>1. ~Using(th[t])
      BY <1>1, <2>4 DEF Using, Releases
    <3>2. <<>> \in Seq(Handle) /\ "idle" \in Ends /\ "idle" \notin {"handle", "unref"} /\ ToSet(<<>>) = {}
      BY DEF Ends, ToSet
    <3>3. QED
      BY <1>1, <2>1, <2>2, <2>4, <3>1, <3>2, QuietAfter
  <2>5. QED
    BY <2>3, <2>4
<1>9. CASE ~b.frozen /\ Dead(b, k) /= {}
  <2>1. PICK n \in Dead(b, k) :
           /\ node' = [node EXCEPT ![n].value = FALSE]
           /\ tabs' = Without(n)
           /\ lru' = [j \in DOMAIN lru |-> IF lru[j].n = n THEN [lru[j] EXCEPT !.n = 0] ELSE lru[j]]
           /\ th' = [th EXCEPT ![t].pc = "deleted", ![t].dk = n, ![t].blen = Cardinality(b.nodes) - 1]
    BY <1>9 DEF Delete, i
  <2>2. Cardinality(b.nodes) - 1 \in Int
    <3>1. IsFiniteSet(Node)
      BY FS_Interval, CacheAssumption DEF CacheAssumption, Node
    <3>2. b.nodes \in SUBSET Node
      BY <1>5 DEF BucketType
    <3>3. IsFiniteSet(b.nodes)
      BY <3>1, <3>2, FS_Subset
    <3>4. Cardinality(b.nodes) \in Nat
      BY <3>3, FS_CardinalityType
    <3>5. QED
      BY <3>4
  <2>3. n \in Node /\ InBucket(n) /\ node[n].ref = 0
    BY <1>6
  <2>4. QED
    BY <1>1, <2>1, <2>2, <2>3, DeleteNode
<1>10. QED
  BY <1>7, <1>8, <1>9

\* The table that a deletion may end with.
LEMMA DeletedTables ==
  ASSUME HoldInv, NEW t \in Threads, Deleted(t)
  PROVE  TablesOK' /\ Grown /\ \A m \in Node : InBucket(m)' => InBucket(m)
<1> DEFINE x == th[t].tab
           over == tabs[x].overflow - (IF th[t].blen >= Overflow THEN 1 ELSE 0)
           shrink == nodes - 1 < tabs[x].len \div 2 /\ tabs[x].len > InitialSize
           T == [tabs EXCEPT ![x].overflow = over]
           len == tabs[x].len \div 2
<1>1. th[t].pc = "deleted" /\ tabs' = Resized(x, T, shrink, len) /\ bg' = Started(tabs')
  BY DEF Deleted
<1>2. x \in DOMAIN tabs
  BY <1>1, Thread DEF Fits
<1>3. TablesOK /\ tabs[x] \in TableType /\ tabs[x].len \in Nat \ {0}
  BY <1>2, BucketsOf DEF HoldInv, TypeInv
<1>4. over \in Int
  BY <1>3 DEF TableType
<1>5. SameTables(T) /\ Fewer(T)
  BY <1>2, <1>3, <1>4, Counter
<1>6. shrink \in BOOLEAN
  OBVIOUS
<1>7. shrink => len \in Nat \ {0} /\ 2 * len <= tabs[x].len
  <2>1. InitialSize \in Nat \ {0}
    BY CacheAssumption DEF CacheAssumption
  <2> HIDE DEF x
  <2>2. QED
    BY <1>3, <2>1
<1>8. tabs[x].len * 2 \in Nat \ {0} /\ tabs[x].len * 2 > tabs[x].len
  <2> HIDE DEF x
  <2>1. QED
    BY <1>3
<1> HIDE DEF T, shrink, len, over
<1>9. CASE shrink
  BY <1>1, <1>2, <1>3, <1>5, <1>6, <1>7, <1>9, ResizedOK
<1>10. CASE ~shrink
  <2>1. tabs' = Resized(x, T, shrink, tabs[x].len * 2)
    BY <1>1, <1>10 DEF Resized
  <2>2. QED
    BY <1>1, <1>2, <1>3, <1>5, <1>6, <1>8, <2>1, ResizedOK
<1>11. QED
  BY <1>9, <1>10

\* The calls of the OnDel functions and the end of a deletion keep the
\* invariant.
LEMMA DeletedStep ==
  ASSUME HoldInv, NEW t \in Threads, Deleted(t)
  PROVE  HoldInv'
<1> DEFINE n == th[t].dk
<1>1. /\ th[t].pc = "deleted" /\ UNCHANGED <<hnd, lru, capacity, closed>>
      /\ node' = [node EXCEPT ![n] = Free] /\ EndDelete(t)
  BY DEF Deleted, lruVars
<1>2. th[t] \in ThreadType /\ Fits(th[t]) /\ n \in Node /\ th[t].stack = <<>> /\ Leaving(t)
  BY <1>1, Thread DEF Fits, Leaving
<1>3. /\ TypeInv /\ RefInv /\ LruInv /\ ValueInv /\ DeadInv /\ node \in [Node -> NodeType] /\ hnd \in [Handle -> 0 .. MaxNodes]
      /\ lru \in Seq(EntryType) /\ capacity \in Nat
  BY DEF HoldInv, TypeInv, DataOK
<1>4. TablesOK' /\ Grown /\ \A m \in Node : InBucket(m)' => InBucket(m)
  BY DeletedTables
<1>5. node[n].ref = 0 /\ ~InBucket(n) /\ \A u \in Threads \ {t} : Leaving(u) => th[u].dk /= n
  BY <1>2, <1>3 DEF DeadInv
<1> HIDE DEF n
<1>6. /\ \A h \in Handle : hnd[h] /= n
      /\ \A u \in Threads : Using(th[u]) => th[u].n /= n
  BY <1>2, <1>5, Unreferred
<1>7. Free \in NodeType /\ Free.ref = 0 /\ Free.cd = None /\ None /= "in"
  BY CacheAssumption DEF Free, NodeType, CacheAssumption
<1>8. node' \in [Node -> NodeType] /\ node'[n] = Free /\ \A m \in Node : m /= n => node'[m] = node[m]
  BY <1>1, <1>2, <1>3, <1>7
<1>9. /\ Moved(t) /\ th'[t] \in ThreadType /\ Fits(th[t])' /\ th'[t].stack = <<>>
      /\ Using(th'[t]) <=> Using(th[t])
      /\ Has(th'[t]) => Has(th[t])
      /\ Using(th'[t]) => th'[t].n = th[t].n
      /\ th'[t].op \in Get => th[t].op \in Get
      /\ th'[t].pc \notin {"set", "deleted"}
      /\ ToSet(th'[t].rel) \subseteq ToSet(th[t].rel)
  <2>1. /\ th[t].inner => After(t, Tail(th[t].rel), th[t].then) /\ th[t].then \in Ends
        /\ ~th[t].inner => After(t, <<>>, "idle")
    BY <1>1, <1>2, EndDeleteGoes
  <2>2. CASE th[t].inner
    <3>1. Releases(th[t])
      BY <2>2 DEF Releases
    <3>2. ToSet(Tail(th[t].rel)) \subseteq ToSet(th[t].rel)
      BY <1>2, <3>1, TailOf DEF Fits, ThreadType
    <3>3. Using(th[t]) <=> th[t].then \in {"handle", "unref"}
      BY <1>1, <3>1 DEF Using
    <3>4. Has(th[t]) <=> th[t].then = "handle"
      BY <1>1, <3>1 DEF Has
    <3>5. QED
      BY <2>1, <2>2, <3>2, <3>3, <3>4 DEF After
  <2>3. CASE ~th[t].inner
    <3>1. ~Using(th[t])
      BY <1>1, <2>3 DEF Using, Releases
    <3>2. ToSet(<<>>) = {}
      BY DEF ToSet
    <3>3. QED
      BY <2>1, <2>3, <3>1, <3>2 DEF After
  <2>4. QED
    BY <2>2, <2>3
<1>10. \A u \in Threads \ {t} : th'[u] = th[u]
  BY <1>3, <1>9 DEF TypeInv, ThreadsOK, Moved
<1>11. TypeInv'
  <2>1. Places(tabs, th[t].stack)'
    BY <1>9 DEF Places
  <2>2. ThreadsOK'
    BY <1>1, <1>3, <1>4, <1>9, <2>1, ThreadsKept
  <2>3. DataOK'
    BY <1>1, <1>3, <1>8 DEF TypeInv, DataOK
  <2>4. QED
    BY <1>4, <2>2, <2>3 DEF TypeInv
<1>12. RefInv'
  <2>1. ASSUME NEW m \in Node
        PROVE  node'[m].ref = node[m].ref + Bit(hnd'[t] = m) - Bit(hnd[t] = m)
                               + Bit(Using(th'[t]) /\ th'[t].n = m) - Bit(Using(th[t]) /\ th[t].n = m)
    <3>1. node'[m].ref = node[m].ref /\ node[m].ref \in Int
      BY <1>3, <1>5, <1>7, <1>8 DEF NodeType
    <3>2. Bit(hnd'[t] = m) = Bit(hnd[t] = m) /\ Bit(hnd[t] = m) \in {0, 1}
      BY <1>1 DEF Bit
    <3>3. /\ Bit(Using(th'[t]) /\ th'[t].n = m) = Bit(Using(th[t]) /\ th[t].n = m)
          /\ Bit(Using(th[t]) /\ th[t].n = m) \in {0, 1}
      BY <1>9 DEF Bit
    <3>4. QED
      BY <3>1, <3>2, <3>3
  <2>2. \A m \in Node : node'[m].ref /= 0 => node'[m].key \in Keys
    BY <1>3, <1>7, <1>8 DEF RefInv
  <2>3. \A u \in Threads : th'[u].op \in Get => hnd'[u] = 0
    BY <1>1, <1>3, <1>9, <1>10 DEF RefInv
  <2>4. t \in Handle /\ \A g \in Handle \ {t} : hnd'[g] = hnd[g]
    BY <1>1 DEF Handle
  <2>5. QED
    BY <1>3, <1>9, <2>1, <2>2, <2>3, <2>4, RefMoved
<1>13. LruInv'
  <2>1. \A m \in Node : node'[m].cd = "in" => node[m].cd = "in"
    BY <1>7, <1>8
  <2>2. QED
    BY <1>1, <1>3, <1>9, <2>1, LruKept
<1>14. DeadInv'
  <2>1. \A u \in Threads : Leaving(u)' => Leaving(u) /\ th'[u] = th[u] /\ th[u].dk \in Node /\ th[u].dk /= n
    <3>1. \A u \in Threads : Leaving(u) => th[u].dk \in Node
      BY <1>3 DEF Leaving, TypeInv, ThreadsOK, Fits
    <3>2. QED
      BY <1>5, <1>9, <1>10, <3>1 DEF Leaving
  <2>2. ASSUME NEW m \in Node, InBucket(m)' PROVE node'[m].key \in Keys /\ \A u \in Threads : Leaving(u)' => th'[u].dk /= m
    <3>1. InBucket(m) /\ m /= n
      BY <1>4, <1>5, <2>2
    <3>2. node[m].key \in Keys /\ \A u \in Threads : Leaving(u) => th[u].dk /= m
      BY <1>3, <3>1 DEF DeadInv
    <3>3. QED
      BY <1>8, <2>1, <3>1, <3>2
  <2>3. ASSUME NEW u \in Threads, Leaving(u)'
        PROVE  /\ node'[th'[u].dk].ref = 0 /\ node'[th'[u].dk].key \in Keys
               /\ \A z \in Threads \ {u} : Leaving(z)' => th'[z].dk /= th'[u].dk
    <3>1. Leaving(u) /\ th'[u].dk = th[u].dk /\ node'[th[u].dk] = node[th[u].dk]
      BY <1>8, <2>1, <2>3
    <3>2. /\ node[th[u].dk].ref = 0 /\ node[th[u].dk].key \in Keys
          /\ \A z \in Threads \ {u} : Leaving(z) => th[z].dk /= th[u].dk
      BY <1>3, <3>1 DEF DeadInv
    <3>3. QED
      BY <2>1, <3>1, <3>2
  <2>4. QED
    BY <2>2, <2>3 DEF DeadInv
<1>15. ValueInv'
  <2>1. \A u \in Threads : th[u].pc = "set" => Using(th[u]) /\ th[u].n \in Node
    BY Thread DEF Using, Fits
  <2>2. \A u \in Threads : Has(th[u]) => Using(th[u]) /\ th[u].n \in Node
    BY Thread DEF Using, Fits, Has
  <2>3. \A h \in Handle : hnd[h] /= 0 => hnd[h] \in Node
    BY <1>3 DEF Node
  <2>4. ASSUME NEW u \in Threads, th'[u].pc = "set" PROVE node'[th'[u].n].mu = u /\ ~node'[th'[u].n].value
    <3>1. u /= t /\ th'[u] = th[u]
      BY <1>9, <1>10, <2>4
    <3>2. node'[th[u].n] = node[th[u].n]
      BY <1>6, <1>8, <2>1, <2>4, <3>1
    <3>3. QED
      BY <1>3, <2>4, <3>1, <3>2 DEF ValueInv
  <2>5. ASSUME closed' /= "close", NEW h \in Handle, hnd'[h] /= 0 PROVE node'[hnd'[h]].value
    <3>1. closed /= "close" /\ hnd'[h] = hnd[h] /\ hnd[h] /= 0 /\ hnd[h] /= n
      BY <1>1, <1>6, <2>5
    <3>2. node'[hnd[h]] = node[hnd[h]]
      BY <1>8, <2>3, <3>1
    <3>3. QED
      BY <1>3, <3>1, <3>2 DEF ValueInv
  <2>6. ASSUME closed' /= "close", NEW u \in Threads, Has(th'[u]) PROVE node'[th'[u].n].value
    <3>1. Using(th'[u])
      BY <2>6 DEF Has, Using
    <3>2. Has(th[u]) /\ th'[u].n = th[u].n
      BY <1>9, <1>10, <2>6, <3>1
    <3>3. node'[th[u].n] = node[th[u].n]
      BY <1>6, <1>8, <2>2, <3>2
    <3>4. QED
      BY <1>1, <1>3, <2>6, <3>2, <3>3 DEF ValueInv
  <2>7. QED
    BY <2>4, <2>5, <2>6 DEF ValueInv
<1>16. QED
  BY <1>11, <1>12, <1>13, <1>14, <1>15 DEF HoldInv

\* The sweep of Close over all buckets keeps the invariant.
LEMMA SweepStep ==
  ASSUME HoldInv, NEW t \in Threads, Sweep(t)
  PROVE  HoldInv'
<1> DEFINE B == tabs[mHead].buckets
           raw == {i \in DOMAIN B : ~B[i].set}
           all == UNION {B[i].nodes : i \in DOMAIN B}
<1>1. /\ th[t].pc = "sweep" /\ th[t].stack = <<>> /\ UNCHANGED <<tabs, bg, hnd, lru, capacity, closed>>
  BY DEF Sweep, tabVars, lruVars
<1>2. th[t] \in ThreadType /\ Fits(th[t]) /\ closed = "close" /\ ~Using(th[t]) /\ ~th[t].inner
  BY <1>1, Thread DEF Fits, Using, Releases
<1>3. /\ TypeInv /\ RefInv /\ LruInv /\ ValueInv /\ TablesOK /\ node \in [Node -> NodeType] /\ hnd \in [Handle -> 0 .. MaxNodes]
      /\ lru \in Seq(EntryType) /\ capacity \in Nat
  BY DEF HoldInv, TypeInv, DataOK
<1>4. CASE raw /= {}
  <2> DEFINE j == CHOOSE i \in raw : TRUE
             v == [th[t] EXCEPT !.stack = <<<<mHead, j>>>>]
  <2>1. th' = [th EXCEPT ![t].stack = <<<<mHead, CHOOSE i \in raw : TRUE>>>>] /\ UNCHANGED node
    BY <1>4 DEF Sweep
  <2>2. th' = [th EXCEPT ![t] = v]
    BY <2>1
  <2>3. mHead \in DOMAIN tabs /\ mHead \in Nat
    BY <1>3 DEF TablesOK, mHead
  <2>4. j \in 0 .. tabs[mHead].len - 1
    <3>1. j \in raw
      BY <1>4
    <3>2. DOMAIN B = 0 .. tabs[mHead].len - 1
      BY <1>3, <2>3 DEF TablesOK
    <3>3. QED
      BY <3>1, <3>2
  <2> HIDE DEF j
  <2>5. <<mHead, j>> \in Nat \X Nat /\ InTables(tabs, <<mHead, j>>)
    BY <1>3, <2>3, <2>4, BucketsOf DEF InTables
  <2>6. <<<<mHead, j>>>> \in Seq(Nat \X Nat) /\ Places(tabs, <<<<mHead, j>>>>)
    BY <2>5 DEF Places
  <2>7. Moved(t) /\ th'[t] = v
    BY <2>2, Becomes
  <2>8. v \in ThreadType
    BY <1>2, <2>6 DEF ThreadType
  <2>9. /\ v.pc = "sweep" /\ v.op = th[t].op /\ v.stack = <<<<mHead, j>>>> /\ v.n = th[t].n /\ v.rel = th[t].rel /\ ~v.inner
    BY <1>1, <1>2 DEF ThreadType
  <2> HIDE DEF v
  <2>10. ~Releases(v) /\ ~Using(v) /\ ~Has(v) /\ ~Getting(v)
    BY <2>9 DEF Releases, Using, Has, Getting
  <2>11. Fits(th[t])'
    <3>1. ~Releases(th'[t]) /\ ~Using(th'[t]) /\ ~Getting(th'[t])
      BY <2>7, <2>10
    <3>2. QED
      BY <1>1, <1>2, <2>7, <2>9, <3>1 DEF Fits
  <2>12. Places(tabs, th'[t].stack)
    BY <2>6, <2>7, <2>9
  <2>13. QED
    BY <1>1, <1>2, <2>1, <2>7, <2>8, <2>9, <2>10, <2>11, <2>12, Thread, QuietMove
<1>5. CASE raw = {}
  <2>1. /\ node' = [n \in DOMAIN node |->
                       IF n \in all THEN [node[n] EXCEPT !.value = FALSE, !.onDel = {}] ELSE node[n]]
        /\ th' = [th EXCEPT ![t] = Idle]
    BY <1>5 DEF Sweep
  <2> HIDE DEF all
  <2>2. \A e \in NodeType : LET f == [e EXCEPT !.value = FALSE, !.onDel = {}]
                            IN  f \in NodeType /\ f.ref = e.ref /\ f.key = e.key /\ f.cd = e.cd /\ f.mu = e.mu /\ f.value = FALSE
    <3>1. \A e \in NodeType : LET f == [e EXCEPT !.value = FALSE]
                              IN  f \in NodeType /\ f.ref = e.ref /\ f.key = e.key /\ f.cd = e.cd /\ f.mu = e.mu /\ f.value = FALSE
      BY DEF NodeType
    <3>2. \A e \in NodeType : LET f == [e EXCEPT !.onDel = {}]
                              IN  f \in NodeType /\ f.ref = e.ref /\ f.key = e.key /\ f.cd = e.cd /\ f.mu = e.mu /\ f.value = e.value
      BY DEF NodeType
    <3>3. \A e \in NodeType : [e EXCEPT !.value = FALSE, !.onDel = {}] = [[e EXCEPT !.value = FALSE] EXCEPT !.onDel = {}]
      OBVIOUS
    <3>4. QED
      BY <3>1, <3>2, <3>3
  <2>3. /\ node' \in [Node -> NodeType]
        /\ \A n \in Node : /\ node'[n].ref = node[n].ref /\ node'[n].key = node[n].key /\ node'[n].cd = node[n].cd
                           /\ node'[n].mu = node[n].mu /\ (node'[n].value => node[n].value)
    <3>1. DOMAIN node = Node /\ \A n \in Node : node[n] \in NodeType
      BY <1>3
    <3>2. ASSUME NEW n \in Node
          PROVE  /\ node'[n] \in NodeType
                 /\ node'[n].ref = node[n].ref /\ node'[n].key = node[n].key /\ node'[n].cd = node[n].cd
                 /\ node'[n].mu = node[n].mu /\ (node'[n].value => node[n].value)
      <4>1. CASE n \in all
        <5>1. node'[n] = [node[n] EXCEPT !.value = FALSE, !.onDel = {}]
          BY <2>1, <3>1, <4>1
        <5>2. QED
          BY <2>2, <3>1, <5>1
      <4>2. CASE n \notin all
        BY <2>1, <3>1, <4>2
      <4>3. QED
        BY <4>1, <4>2
    <3>3. node' = [n \in Node |-> node'[n]]
      BY <2>1, <3>1
    <3>4. QED
      BY <3>2, <3>3
  <2>4. Moved(t) /\ th'[t] = Idle
    BY <2>1, Becomes
  <2>5. ToSet(th'[t].rel) = {}
    BY <2>4, IdleFits DEF ToSet
  <2>6. LruInv'
    BY <1>1, <1>3, <2>3, <2>4, <2>5, LruKept
  <2>7. ValueInv'
    <3>1. ASSUME NEW u \in Threads, th'[u].pc = "set" PROVE node'[th'[u].n].mu = u /\ ~node'[th'[u].n].value
      <4>1. u /= t
        BY <2>4, <3>1, IdleFits
      <4>2. th'[u] = th[u]
        BY <1>3, <2>4, <4>1 DEF TypeInv, ThreadsOK, Moved
      <4>3. th[u].n \in Node
        BY <3>1, <4>2, Thread DEF Fits, Using
      <4>4. QED
        BY <1>3, <2>3, <3>1, <4>2, <4>3 DEF ValueInv
    <3>2. QED
      BY <1>1, <1>2, <3>1 DEF ValueInv
  <2>8. th'[t] \in ThreadType /\ Fits(th[t])' /\ th'[t].stack = <<>> /\ th'[t].pc /= "deleted" /\ ~Using(th'[t]) /\ th'[t].op \notin Get
    BY <2>4, IdleFits
  <2>9. QED
    BY <1>1, <1>2, <1>3, <2>3, <2>4, <2>6, <2>7, <2>8, NodeStep
<1>6. QED
  BY <1>4, <1>5

\* The list F has the entries of L, those of one node in their order.
Reordered(F, L) ==
    /\ F \in Seq(EntryType)
    /\ \E f \in [DOMAIN F -> DOMAIN L] :
          /\ \A i \in DOMAIN F : F[i] = L[f[i]]
          /\ \A i, j \in DOMAIN F : i < j => f[i] < f[j] \/ L[f[i]].n /= L[f[j]].n
          /\ \A i \in DOMAIN L : \E j \in DOMAIN F : f[j] = i

\* The list with entry k, the first one of its node, at its front.
LEMMA FrontOf ==
  ASSUME NEW L \in Seq(EntryType), NEW k \in DOMAIN L, \A j \in 1 .. k - 1 : L[j].n /= L[k].n
  PROVE  Reordered(<<L[k]>> \o RemoveAt(L, k), L)
<1> DEFINE R == RemoveAt(L, k)
           g == [i \in DOMAIN R |-> IF i < k THEN i ELSE i + 1]
           F == <<L[k]>> \o R
           f == [i \in DOMAIN F |-> IF i = 1 THEN k ELSE g[i - 1]]
<1>1. /\ R \in Seq(EntryType) /\ g \in [DOMAIN R -> DOMAIN L]
      /\ \A i \in DOMAIN R : R[i] = L[g[i]]
      /\ \A i, j \in DOMAIN R : i < j => g[i] < g[j]
      /\ \A i \in DOMAIN L : i = k \/ \E j \in DOMAIN R : g[j] = i
      /\ \A j \in DOMAIN R : g[j] /= k
  BY RemovedAt
<1>2. /\ k \in 1 .. Len(L) /\ Len(L) \in Nat /\ DOMAIN L = 1 .. Len(L) /\ L[k] \in EntryType
  OBVIOUS
<1> HIDE DEF R, g
<1>3. Len(R) \in Nat /\ DOMAIN R = 1 .. Len(R)
  BY <1>1
<1>4. <<L[k]>> \in Seq(EntryType) /\ Len(<<L[k]>>) = 1 /\ <<L[k]>>[1] = L[k]
  BY <1>2
<1>5. /\ F \in Seq(EntryType) /\ DOMAIN F = 1 .. 1 + Len(R)
      /\ \A i \in 1 .. 1 + Len(R) : F[i] = IF i <= 1 THEN <<L[k]>>[i] ELSE R[i - 1]
  BY <1>1, <1>4, Concatenated
<1> HIDE DEF F
<1>6. \A i \in DOMAIN F : i = 1 \/ (i > 1 /\ i - 1 \in DOMAIN R)
  BY <1>3, <1>5
<1>7. \A i \in DOMAIN F : F[i] = IF i = 1 THEN L[k] ELSE R[i - 1]
  BY <1>3, <1>4, <1>5, <1>6
<1>8. f \in [DOMAIN F -> DOMAIN L] /\ \A i \in DOMAIN F : f[i] = IF i = 1 THEN k ELSE g[i - 1]
  BY <1>1, <1>6
<1> HIDE DEF f
<1>9. \A i \in DOMAIN F : F[i] = L[f[i]]
  BY <1>1, <1>6, <1>7, <1>8
<1>10. ASSUME NEW i \in DOMAIN F, NEW j \in DOMAIN F, i < j PROVE f[i] < f[j] \/ L[f[i]].n /= L[f[j]].n
  <2>1. j > 1 /\ j - 1 \in DOMAIN R /\ j /= 1
    BY <1>3, <1>5, <1>6, <1>10
  <2>2. f[j] = g[j - 1] /\ g[j - 1] /= k /\ g[j - 1] \in 1 .. Len(L)
    BY <1>1, <1>2, <1>8, <2>1
  <2>3. CASE i = 1
    <3>1. f[i] = k
      BY <1>8, <2>3
    <3>2. g[j - 1] > k \/ g[j - 1] \in 1 .. k - 1
      BY <1>2, <2>2
    <3>3. QED
      BY <2>2, <3>1, <3>2
  <2>4. CASE i /= 1
    <3>1. i - 1 \in DOMAIN R /\ i - 1 < j - 1
      BY <1>3, <1>5, <1>6, <1>10, <2>4
    <3>2. g[i - 1] < g[j - 1]
      BY <1>1, <2>1, <3>1
    <3>3. QED
      BY <1>8, <2>2, <2>4, <3>2
  <2>5. QED
    BY <2>3, <2>4
<1>11. ASSUME NEW i \in DOMAIN L PROVE \E j \in DOMAIN F : f[j] = i
  <2>1. CASE i = k
    <3>1. 1 \in DOMAIN F
      BY <1>3, <1>5
    <3>2. QED
      BY <1>8, <2>1, <3>1
  <2>2. CASE i /= k
    <3>1. PICK j \in DOMAIN R : g[j] = i
      BY <1>1, <2>2
    <3>2. j + 1 \in DOMAIN F /\ j + 1 /= 1 /\ (j + 1) - 1 = j
      BY <1>3, <1>5, <3>1
    <3>3. f[j + 1] = i
      BY <1>8, <3>1, <3>2
    <3>4. QED
      BY <3>2, <3>3
  <2>3. QED
    BY <2>1, <2>2
<1>12. Reordered(F, L)
  BY <1>5, <1>8, <1>9, <1>10, <1>11 DEF Reordered
<1>13. QED
  BY <1>12 DEF F, R

\* The list with a new entry of node n at its front, of handle h.
LEMMA EntryAdded ==
  ASSUME HoldInv, NEW n \in Node, NEW h \in Listed, IsNewHandle(h), NEW k \in Keys,
         hnd' = [hnd EXCEPT ![h] = n], NEW N, \A m \in Node : m /= n => N[m] = node[m]
  PROVE  LET L == <<[n |-> n, h |-> h, key |-> k]>> \o lru
         IN  L \in Seq(EntryType) /\ Entries(L, N, hnd')
<1> DEFINE e == [n |-> n, h |-> h, key |-> k]
           L == <<e>> \o lru
<1>1. /\ lru \in Seq(EntryType) /\ Len(lru) \in Nat /\ DOMAIN lru = 1 .. Len(lru) /\ LruInv
      /\ hnd \in [Handle -> 0 .. MaxNodes] /\ h \in Handle
  BY DEF HoldInv, TypeInv, DataOK, Handle
<1>2. /\ \A i \in DOMAIN lru : lru[i].h /= h
      /\ \A u \in Threads : h \notin ToSet(th[u].rel)
  BY DEF IsNewHandle, InUse
<1>3. e \in EntryType /\ e.n = n /\ e.h = h
  BY CacheAssumption DEF EntryType, Node, CacheAssumption
<1> HIDE DEF e
<1>4. <<e>> \in Seq(EntryType) /\ Len(<<e>>) = 1 /\ <<e>>[1] = e
  BY <1>3
<1>5. /\ L \in Seq(EntryType) /\ DOMAIN L = 1 .. 1 + Len(lru)
      /\ \A i \in 1 .. 1 + Len(lru) : L[i] = IF i <= 1 THEN <<e>>[i] ELSE lru[i - 1]
  BY <1>1, <1>4, Concatenated
<1> HIDE DEF L
<1>6. \A i \in DOMAIN L : i = 1 \/ (i > 1 /\ i - 1 \in DOMAIN lru)
  BY <1>1, <1>5
<1>7. \A i \in DOMAIN L : L[i] = IF i = 1 THEN e ELSE lru[i - 1]
  BY <1>4, <1>5, <1>6
<1>8. hnd'[h] = n /\ \A i \in DOMAIN lru : hnd'[lru[i].h] = hnd[lru[i].h]
  BY <1>1, <1>2
<1>9. ASSUME NEW i \in DOMAIN L, NEW j \in DOMAIN L, L[i].h = L[j].h PROVE i = j
  <2>1. i = 1 <=> j = 1
    BY <1>2, <1>3, <1>6, <1>7, <1>9
  <2>2. i /= 1 /\ j /= 1 => i - 1 = j - 1
    BY <1>1, <1>6, <1>7, <1>9 DEF LruInv, Entries
  <2>3. i \in Int /\ j \in Int
    BY <1>5
  <2>4. QED
    BY <2>1, <2>2, <2>3
<1>10. ASSUME NEW m \in Node, N[m].cd = "in" PROVE \E i \in DOMAIN L : Current(L, hnd', m, i)
  <2>1. CASE m = n
    <3>1. 1 \in DOMAIN L /\ L[1] = e /\ 1 .. 1 - 1 = {}
      BY <1>1, <1>5, <1>7
    <3>2. Current(L, hnd', m, 1)
      BY <1>2, <1>3, <1>8, <2>1, <3>1 DEF Current
    <3>3. QED
      BY <3>1, <3>2
  <2>2. CASE m /= n
    <3>1. node[m].cd = "in"
      BY <1>10, <2>2
    <3>2. PICK i \in DOMAIN lru : Current(lru, hnd, m, i)
      BY <1>1, <3>1 DEF LruInv, Entries
    <3>3. i + 1 \in DOMAIN L /\ i + 1 /= 1 /\ (i + 1) - 1 = i /\ i \in Int
      BY <1>1, <1>5, <3>2
    <3>4. L[i + 1] = lru[i]
      BY <1>7, <3>3
    <3>5. \A j \in 1 .. (i + 1) - 1 : L[j].n /= m
      <4>1. ASSUME NEW j \in 1 .. (i + 1) - 1 PROVE L[j].n /= m
        <5>1. j \in DOMAIN L /\ (j = 1 \/ j - 1 \in 1 .. i - 1)
          BY <1>1, <1>5, <3>2
        <5>2. QED
          BY <1>3, <1>7, <2>2, <3>2, <5>1 DEF Current
      <4>2. QED
        BY <4>1
    <3>6. Current(L, hnd', m, i + 1)
      BY <1>8, <3>2, <3>4, <3>5 DEF Current
    <3>7. QED
      BY <3>3, <3>6
  <2>3. QED
    BY <2>1, <2>2
<1>11. Entries(L, N, hnd')
  BY <1>9, <1>10 DEF Entries
<1>12. QED
  BY <1>5, <1>11 DEF L, e

\* N is A with one more reference to node n, and another CacheData.
CountsIn(N, A, n) ==
    /\ N \in [Node -> NodeType]
    /\ \A m \in Node : N[m].ref = IF m = n THEN A[m].ref + 1 ELSE A[m].ref
    /\ \A m \in Node : N[m].key = A[m].key
    /\ \A m \in Node : N[m].value = A[m].value /\ N[m].mu = A[m].mu /\ N[m].onDel = A[m].onDel
    /\ \A m \in Node : m /= n => N[m] = A[m]

\* A node that gets an entry of the list counts the handle of it.
LEMMA CountedIn ==
  ASSUME NEW A \in [Node -> NodeType], NEW n \in Node, NEW N, N = [A EXCEPT ![n].ref = @ + 1, ![n].cd = "in"]
  PROVE  CountsIn(N, A, n)
<1> DEFINE v == [A[n] EXCEPT !.ref = @ + 1]
           w == [v EXCEPT !.cd = "in"]
<1>1. A[n] \in NodeType
  OBVIOUS
<1>2. v \in NodeType /\ v.ref = A[n].ref + 1 /\ v.key = A[n].key /\ v.value = A[n].value /\ v.mu = A[n].mu /\ v.onDel = A[n].onDel
  BY <1>1 DEF NodeType
<1>3. N = [A EXCEPT ![n] = w]
  OBVIOUS
<1> HIDE DEF v
<1>4. w \in NodeType /\ w.ref = v.ref /\ w.key = v.key /\ w.value = v.value /\ w.mu = v.mu /\ w.onDel = v.onDel
  BY <1>2 DEF NodeType
<1> HIDE DEF w
<1>5. QED
  BY <1>2, <1>3, <1>4 DEF CountsIn

\* A node that is not in the list comes into it.
LEMMA PromoteNew ==
  ASSUME HoldInv, NEW t \in Threads, th[t].pc = "promote", NEW h \in Listed, IsNewHandle(h),
         hnd' = [hnd EXCEPT ![h] = th[t].n], NEW L, L = <<[n |-> th[t].n, h |-> h, key |-> node[th[t].n].key]>> \o lru,
         NEW E, E = Rest(L, capacity), lru' = Shrunk(L, capacity),
         NEW N, CountsIn(N, node, th[t].n), node' = Uncached(N, E),
         Releasing(t, Held(E), "handle"), UNCHANGED <<tabs, bg, capacity, closed>>
  PROVE  HoldInv'
<1> DEFINE n == th[t].n
<1>1. th[t] \in ThreadType /\ Fits(th[t]) /\ Using(th[t]) /\ Has(th[t]) /\ Getting(th[t])
  BY Thread DEF Using, Has, Getting
<1>2. n \in Node /\ ~th[t].inner /\ th[t].stack = <<>> /\ th[t].op \in Get
  BY <1>1, Thread DEF Fits
<1>3. /\ TypeInv /\ RefInv /\ LruInv /\ ValueInv /\ node \in [Node -> NodeType] /\ hnd \in [Handle -> 0 .. MaxNodes]
      /\ lru \in Seq(EntryType) /\ capacity \in Nat
  BY DEF HoldInv, TypeInv, DataOK
<1>4. node[n].ref > 0 /\ node[n].key \in Keys /\ node[n] \in NodeType /\ node[n].ref \in Nat
  <2>1. t \in UsersOf(n)
    BY <1>1 DEF UsersOf
  <2>2. node[n].ref \in Nat /\ node[n].ref > 0
    BY <1>2, <1>3, <2>1, Positive
  <2>3. QED
    BY <1>2, <1>3, <2>2 DEF RefInv
<1>7. /\ N \in [Node -> NodeType]
      /\ \A m \in Node : N[m].ref = IF m = n THEN node[m].ref + 1 ELSE node[m].ref
      /\ \A m \in Node : N[m].key = node[m].key
      /\ \A m \in Node : N[m].value = node[m].value /\ N[m].mu = node[m].mu
      /\ \A m \in Node : m /= n => N[m] = node[m]
  BY DEF CountsIn
<1>8. /\ node' \in [Node -> NodeType]
      /\ \A m \in Node : node'[m].ref = N[m].ref /\ node'[m].key = N[m].key
      /\ \A m \in Node : node'[m].value = N[m].value /\ node'[m].mu = N[m].mu
  BY <1>7, UncachedOf
<1>9. /\ \A m \in Node : node'[m].ref = IF m = n THEN node[m].ref + 1 ELSE node[m].ref
      /\ \A m \in Node : node'[m].key = node[m].key
      /\ \A m \in Node : node'[m].value = node[m].value /\ node'[m].mu = node[m].mu
  BY <1>7, <1>8
<1>10. L \in Seq(EntryType) /\ Entries(L, N, hnd')
  BY <1>2, <1>4, <1>7, EntryAdded
<1>11. Part(lru', L, E)
  BY <1>3, <1>10, ShrunkPart
<1>12. Held(E) \in Seq(Handle) /\ "handle" \in Ends /\ lru' \in Seq(EntryType)
  BY <1>11, HeldOf DEF Part, Ends
<1>13. After(t, Held(E), "handle")
  BY <1>2, <1>12, ReleasingGoes
<1>14. /\ Moved(t) /\ th'[t] \in ThreadType /\ Fits(th[t])' /\ th'[t].stack = <<>>
       /\ Using(th'[t]) /\ Has(th'[t]) /\ th'[t].n = n
       /\ th'[t].pc \notin {"set", "deleted"} /\ ToSet(th'[t].rel) = ToSet(Held(E))
  BY <1>13 DEF After
<1>15. LruInv'
  BY <1>3, <1>7, <1>10, <1>11, <1>14, Trimmed
<1>16. h \in Handle /\ h \notin Threads /\ hnd[h] = 0
  <2>1. h \in Handle /\ h \notin Threads
    BY CacheAssumption DEF Handle, Listed, CacheAssumption
  <2>2. QED
    BY <2>1 DEF IsNewHandle, InUse
<1>17. n \in 0 .. MaxNodes /\ n /= 0 /\ \A m \in Node : m /= 0
  BY <1>2, CacheAssumption DEF Node, CacheAssumption
<1>18. /\ hnd' \in [Handle -> 0 .. MaxNodes] /\ hnd'[h] = n /\ \A g \in Handle \ {h} : hnd'[g] = hnd[g]
  BY <1>3, <1>16, <1>17
<1>19. RefInv'
  <2>1. ASSUME NEW m \in Node
        PROVE  node'[m].ref = node[m].ref + Bit(hnd'[h] = m) - Bit(hnd[h] = m)
                               + Bit(Using(th'[t]) /\ th'[t].n = m) - Bit(Using(th[t]) /\ th[t].n = m)
    <3>1. node[m].ref \in Int /\ node'[m].ref = IF m = n THEN node[m].ref + 1 ELSE node[m].ref
      BY <1>3, <1>9 DEF NodeType
    <3>2. Bit(hnd[h] = m) = 0 /\ Bit(hnd'[h] = m) = IF m = n THEN 1 ELSE 0
      BY <1>16, <1>17, <1>18 DEF Bit
    <3>3. /\ Bit(Using(th'[t]) /\ th'[t].n = m) = Bit(Using(th[t]) /\ th[t].n = m)
          /\ Bit(Using(th[t]) /\ th[t].n = m) \in {0, 1}
      BY <1>1, <1>14 DEF Bit
    <3>4. QED
      BY <3>1, <3>2, <3>3
  <2>2. ASSUME NEW m \in Node, node'[m].ref /= 0 PROVE node'[m].key \in Keys
    <3>1. node[m].ref /= 0 => node[m].key \in Keys
      BY <1>3 DEF RefInv
    <3>2. m /= n => node'[m].ref = node[m].ref
      BY <1>9
    <3>3. node'[m].key = node[m].key
      BY <1>9
    <3>4. QED
      BY <1>4, <2>2, <3>1, <3>2, <3>3
  <2>3. \A u \in Threads : th'[u].op \in Get => hnd'[u] = 0
    <3>1. \A u \in Threads : hnd'[u] = hnd[u]
      BY <1>16, <1>18 DEF Handle
    <3>2. \A u \in Threads \ {t} : th'[u] = th[u]
      BY <1>3, <1>14 DEF TypeInv, ThreadsOK, Moved
    <3>3. hnd[t] = 0
      BY <1>2, Thread
    <3>4. QED
      BY <1>3, <3>1, <3>2, <3>3 DEF RefInv
  <2>4. QED
    BY <1>3, <1>14, <1>16, <1>18, <2>1, <2>2, <2>3, RefMoved
<1>20. ValueInv'
  <2>1. \A g \in Handle : hnd'[g] \in {0, hnd[g]} \/ (hnd'[g] \in Node /\ (closed /= "close" => node[hnd'[g]].value))
    <3>1. closed /= "close" => node[n].value
      BY <1>1, <1>3 DEF ValueInv
    <3>2. QED
      BY <1>2, <1>18, <3>1
  <2>2. Has(th'[t]) => th'[t].n \in Node
    BY <1>2, <1>14
  <2>3. Has(th'[t]) => (Has(th[t]) /\ th'[t].n = th[t].n) \/ node[th'[t].n].value
    BY <1>1, <1>14
  <2>4. QED
    BY <1>3, <1>9, <1>14, <2>1, <2>2, <2>3, ValueKept
<1>21. ASSUME NEW m \in Node, node[m].ref = 0 PROVE node'[m].ref = 0
  <2>1. m /= n
    BY <1>4, <1>21
  <2>2. QED
    BY <1>9, <1>21, <2>1
<1>22. TablesOK' /\ Grown /\ (\A m \in Node : InBucket(m)' => InBucket(m))
  BY <1>3, TablesSame
<1>23. QED
  BY <1>3, <1>8, <1>9, <1>12, <1>14, <1>15, <1>18, <1>19, <1>20, <1>21, <1>22, RefStep

\* lru.Promote keeps the invariant: an entry comes to the front, with a handle
\* of its own when it is new.
LEMMA PromoteStep ==
  ASSUME HoldInv, NEW t \in Threads, Promote(t)
  PROVE  HoldInv'
<1> DEFINE n == th[t].n
           list(h) == <<[n |-> n, h |-> h, key |-> node[n].key]>> \o lru
<1>1. th[t].pc = "promote" /\ UNCHANGED <<tabs, bg, capacity, closed>>
  BY DEF Promote, tabVars
<1>2. th[t] \in ThreadType /\ Fits(th[t]) /\ Using(th[t]) /\ Has(th[t]) /\ Getting(th[t])
  BY <1>1, Thread DEF Using, Has, Getting
<1>3. n \in Node /\ ~th[t].inner /\ th[t].stack = <<>> /\ th[t].op \in Get
  BY <1>1, <1>2, Thread DEF Fits
<1>4. CASE node[n].cd = None /\ capacity > 0
  <2>1. PICK h \in Listed :
           /\ IsNewHandle(h) /\ hnd' = [hnd EXCEPT ![h] = n] /\ lru' = Shrunk(list(h), capacity)
           /\ node' = Uncached([node EXCEPT ![n].ref = @ + 1, ![n].cd = "in"], Rest(list(h), capacity))
           /\ Releasing(t, Held(Rest(list(h), capacity)), "handle")
    BY <1>4 DEF Promote
  <2> DEFINE L == list(h)
             E == Rest(L, capacity)
             N == [node EXCEPT ![n].ref = @ + 1, ![n].cd = "in"]
  <2>2. L = <<[n |-> th[t].n, h |-> h, key |-> node[th[t].n].key]>> \o lru
    OBVIOUS
  <2>3. E = Rest(L, capacity)
    OBVIOUS
  <2>4. /\ IsNewHandle(h) /\ hnd' = [hnd EXCEPT ![h] = th[t].n] /\ lru' = Shrunk(L, capacity)
        /\ node' = Uncached(N, E) /\ Releasing(t, Held(E), "handle")
    BY <2>1
  <2>5. CountsIn(N, node, th[t].n)
    <3>1. node \in [Node -> NodeType]
      BY DEF HoldInv, TypeInv, DataOK
    <3>2. QED
      BY <1>3, <3>1, CountedIn
  <2> HIDE DEF L, E, N
  <2>6. QED
    BY <1>1, <2>2, <2>3, <2>4, <2>5, PromoteNew
<1>5. CASE ~(node[n].cd = None /\ capacity > 0)
  <2>1. /\ lru' = (IF node[n].cd = "in" THEN <<lru[First(n)]>> \o RemoveAt(lru, First(n)) ELSE lru)
        /\ Releasing(t, <<>>, "handle") /\ UNCHANGED <<node, hnd>>
    BY <1>5 DEF Promote
  <2>2. <<>> \in Seq(Handle) /\ "handle" \in Ends /\ ToSet(<<>>) = {}
    BY DEF Ends, ToSet
  <2>3. After(t, <<>>, "handle")
    BY <1>3, <2>1, <2>2, ReleasingGoes
  <2>4. CASE node[n].cd /= "in"
    BY <1>1, <1>2, <2>1, <2>2, <2>3, <2>4, QuietAfter
  <2>5. CASE node[n].cd = "in"
    <3> DEFINE k == First(n)
    <3>1. /\ TypeInv /\ LruInv /\ ValueInv /\ lru \in Seq(EntryType) /\ capacity \in Nat /\ node \in [Node -> NodeType]
      BY DEF HoldInv, TypeInv, DataOK
    <3>2. k \in DOMAIN lru /\ \A j \in 1 .. k - 1 : lru[j].n /= lru[k].n
      BY <1>3, <2>5, FirstOf DEF Current
    <3>3. lru' = <<lru[k]>> \o RemoveAt(lru, k)
      BY <2>1, <2>5
    <3> HIDE DEF k
    <3>4. Reordered(lru', lru)
      BY <3>1, <3>2, <3>3, FrontOf
    <3>5. lru' \in Seq(EntryType)
      BY <3>4 DEF Reordered
    <3>6. /\ Moved(t) /\ th'[t] \in ThreadType /\ Fits(th[t])' /\ th'[t].stack = <<>>
          /\ Using(th'[t]) /\ Has(th'[t]) /\ th'[t].n = n
          /\ th'[t].pc \notin {"set", "deleted"} /\ ToSet(th'[t].rel) = {}
      BY <2>2, <2>3 DEF After
    <3>7. LruInv'
      <4>1. Entries(lru, node, hnd')
        BY <2>1, <3>1 DEF LruInv
      <4>2. PICK f \in [DOMAIN lru' -> DOMAIN lru] :
               /\ \A i \in DOMAIN lru' : lru'[i] = lru[f[i]]
               /\ \A i, j \in DOMAIN lru' : i < j => f[i] < f[j] \/ lru[f[i]].n /= lru[f[j]].n
               /\ \A i \in DOMAIN lru : \E j \in DOMAIN lru' : f[j] = i
        BY <3>4 DEF Reordered
      <4>3. \A m \in Node : node'[m].cd = "in" =>
               node[m].cd = "in" /\ \A i \in DOMAIN lru : lru[i].n = m => \E j \in DOMAIN lru' : f[j] = i
        BY <2>1, <4>2
      <4>4. \A g \in Listed : g \in ToSet(th'[t].rel) =>
               \/ g \in ToSet(th[t].rel)
               \/ \E i \in DOMAIN lru : lru[i].h = g /\ \A m \in Node : node'[m].cd = "in" => lru[i].n /= m
        BY <3>6
      <4>5. TypeInv /\ lru \in Seq(EntryType) /\ Moved(t)
        BY <3>1, <3>6
      <4>6. QED
        BY <3>5, <4>1, <4>2, <4>3, <4>4, <4>5, SubList
    <3>8. ValueInv'
      <4>1. Has(th'[t]) => (Has(th[t]) /\ th'[t].n = th[t].n) \/ node[th'[t].n].value
        BY <1>2, <3>6
      <4>2. Has(th'[t]) => th'[t].n \in Node
        BY <1>3, <3>6
      <4>3. \A g \in Handle : hnd'[g] \in {0, hnd[g]}
        BY <2>1
      <4>4. QED
        BY <1>1, <2>1, <3>1, <3>6, <4>1, <4>2, <4>3, ValueKept
    <3>9. hnd[t] = 0
      BY <1>3, Thread
    <3>10. QED
      BY <1>1, <1>2, <2>1, <3>1, <3>5, <3>6, <3>7, <3>8, <3>9, NodeStep
  <2>6. QED
    BY <2>4, <2>5
<1>6. QED
  BY <1>4, <1>5

-----------------------------------------------------------------------------
(* initBuckets, and the whole. *)

\* A step that moves no goroutine of a call.
LEMMA TablesMove ==
  ASSUME HoldInv, UNCHANGED <<node, hnd, lru, capacity, closed, th>>,
         TablesOK', Grown, \A n \in Node : InBucket(n)' => InBucket(n)
  PROVE  HoldInv'
<1>1. TypeInv /\ RefInv /\ LruInv /\ DeadInv /\ ValueInv
  BY DEF HoldInv
<1>2. TypeInv'
  <2>1. DataOK'
    BY <1>1 DEF TypeInv, DataOK
  <2>2. ThreadsOK'
    <3>1. th \in [Threads -> ThreadType] /\ \A t \in Threads : Fits(th[t]) /\ Places(tabs, th[t].stack)
      BY <1>1 DEF TypeInv, ThreadsOK
    <3>2. ASSUME NEW t \in Threads PROVE Fits(th[t])' /\ Places(tabs, th[t].stack)'
      <4>1. th[t].tab \in DOMAIN tabs => th[t].tab \in DOMAIN tabs'
        BY DEF Grown
      <4>2. Fits(th[t])'
        BY <3>1, <4>1 DEF Fits, Using, Releases, Getting
      <4>3. Places(tabs, th[t].stack)'
        BY <3>1 DEF Places, InTables, Grown
      <4>4. QED
        BY <4>2, <4>3
    <3>3. QED
      BY <3>1, <3>2 DEF ThreadsOK
  <2>3. QED
    BY <2>1, <2>2 DEF TypeInv
<1>3. RefInv'
  BY <1>1 DEF RefInv, Referred, HandlesOf, UsersOf, Using, Releases
<1>4. LruInv'
  BY <1>1 DEF LruInv, Entries, Current
<1>5. DeadInv'
  BY <1>1 DEF DeadInv, Leaving
<1>6. ValueInv'
  BY <1>1 DEF ValueInv, Has, Releases
<1>7. QED
  BY <1>2, <1>3, <1>4, <1>5, <1>6 DEF HoldInv

\* The table before x is let go.
LEMMA LetGo ==
  ASSUME TablesOK, NEW x \in 2 .. MaxTables, x \in DOMAIN tabs,
         tabs' = [tabs EXCEPT ![x].pred = 0,
                              ![x - 1].buckets = [i \in DOMAIN @ |-> [Bucket({}) EXCEPT !.frozen = TRUE]]]
  PROVE  SameTables(tabs') /\ Fewer(tabs')
<1> DEFINE w == [Bucket({}) EXCEPT !.frozen = TRUE]
           B == [i \in DOMAIN tabs[x - 1].buckets |-> w]
           u == [tabs[x - 1] EXCEPT !.buckets = B]
           v == [tabs[x] EXCEPT !.pred = 0]
<1>1. tabs \in Seq(TableType) /\ Len(tabs) \in Nat /\ DOMAIN tabs = 1 .. Len(tabs) /\ MaxTables \in Nat
  BY CacheAssumption DEF TablesOK, CacheAssumption
<1>2. x - 1 \in DOMAIN tabs /\ x - 1 /= x
  BY <1>1
<1>3. /\ tabs[x - 1] \in TableType /\ tabs[x - 1].len \in Nat \ {0}
      /\ tabs[x - 1].buckets \in [0 .. tabs[x - 1].len - 1 -> BucketType]
  BY <1>2, BucketsOf
<1>4. w \in BucketType /\ w.nodes = {}
  BY DEF Bucket, BucketType
<1>5. B \in [0 .. tabs[x - 1].len - 1 -> BucketType] /\ \A i \in DOMAIN B : B[i].nodes = {}
  <2> HIDE DEF w
  <2>1. QED
    BY <1>3, <1>4
<1>6. tabs' = [[tabs EXCEPT ![x] = v] EXCEPT ![x - 1] = u]
  <2>1. [tabs EXCEPT ![x] = v][x - 1] = tabs[x - 1]
    BY <1>1, <1>2
  <2>2. QED
    BY <2>1
<1> HIDE DEF B, w
<1>7. u \in TableType
  BY <1>3, <1>5, TableMade
<1>8. u.len = tabs[x - 1].len /\ u.buckets = B /\ u.pred = tabs[x - 1].pred /\ u.resizing = tabs[x - 1].resizing
  BY <1>3 DEF TableType
<1>9. tabs[x] \in TableType
  BY <1>1
<1>10. v \in TableType /\ v.len = tabs[x].len /\ v.buckets = tabs[x].buckets /\ v.pred = 0 /\ v.resizing = tabs[x].resizing
  BY <1>9 DEF TableType
<1> HIDE DEF u, v
<1>11. \A y \in DOMAIN tabs : tabs'[y] = IF y = x - 1 THEN u ELSE IF y = x THEN v ELSE tabs[y]
  BY <1>1, <1>6
<1>12. tabs' \in Seq(TableType) /\ Len(tabs') = Len(tabs) /\ DOMAIN tabs' = DOMAIN tabs
  BY <1>1, <1>6, <1>7, <1>10
<1>13. ASSUME NEW y \in DOMAIN tabs
       PROVE  /\ tabs'[y].len = tabs[y].len /\ DOMAIN tabs'[y].buckets = 0 .. tabs'[y].len - 1
              /\ tabs'[y].pred \in {0, tabs[y].pred} /\ (tabs[y].resizing => tabs'[y].resizing)
              /\ \A i \in DOMAIN tabs'[y].buckets : \A n \in tabs'[y].buckets[i].nodes : InBucket(n)
  <2>1. DOMAIN tabs[y].buckets = 0 .. tabs[y].len - 1
    BY DEF TablesOK
  <2>2. CASE y = x - 1
    BY <1>5, <1>8, <1>11, <2>2
  <2>3. CASE y = x
    <3>1. tabs'[y] = v
      BY <1>2, <1>11, <2>3
    <3>2. \A i \in DOMAIN tabs[y].buckets : \A n \in tabs[y].buckets[i].nodes : InBucket(n)
      BY DEF InBucket
    <3>3. QED
      BY <1>10, <2>1, <2>3, <3>1, <3>2
  <2>4. CASE y /= x - 1 /\ y /= x
    <3>1. tabs'[y] = tabs[y]
      BY <1>11, <2>4
    <3>2. \A i \in DOMAIN tabs[y].buckets : \A n \in tabs[y].buckets[i].nodes : InBucket(n)
      BY DEF InBucket
    <3>3. QED
      BY <2>1, <3>1, <3>2
  <2>5. QED
    BY <2>2, <2>3, <2>4
<1>14. QED
  BY <1>12, <1>13 DEF SameTables, Fewer

\* The goroutine that initialises the buckets of a new table keeps the
\* invariant.
LEMMA BackgroundStep ==
  ASSUME HoldInv, NEW x \in 2 .. MaxTables, Background(x)
  PROVE  HoldInv'
<1>1. bg[x].on /\ UNCHANGED <<node, hnd, lru, capacity, closed, th>>
  BY DEF Background, lruVars
<1>2. TablesOK /\ bg \in BgType /\ \A y \in 2 .. MaxTables : Places(tabs, bg[y].stack) /\ (bg[y].on => y \in DOMAIN tabs)
  BY DEF HoldInv, TypeInv, TablesOK, BgType
<1>3. x \in DOMAIN tabs /\ x \in Nat /\ bg[x] \in [on : BOOLEAN, i : Nat, stack : Seq(Nat \X Nat)]
  BY <1>1, <1>2 DEF BgType
<1>4. SameTables(tabs') /\ Fewer(tabs') /\ BgFits(tabs, bg')
  <2>1. CASE bg[x].i < tabs[x].len
    <3> DEFINE s == IF bg[x].stack = <<>> THEN <<<<x, bg[x].i>>>> ELSE bg[x].stack
               y == s[1][1]
               i == s[1][2]
               r == InitBucket(y, i)
               rest == Popped(s, r)
    <3>1. tabs' = r.tabs /\ bg' = [bg EXCEPT ![x].stack = rest, ![x].i = IF rest = <<>> THEN @ + 1 ELSE @]
      BY <2>1 DEF Background
    <3>2. s \in Seq(Nat \X Nat) /\ s /= <<>> /\ Places(tabs, s)
      <4>1. CASE bg[x].stack = <<>>
        <5>1. s = <<<<x, bg[x].i>>>>
          BY <4>1
        <5>2. <<x, bg[x].i>> \in Nat \X Nat /\ InTables(tabs, <<x, bg[x].i>>)
          <6>1. tabs[x].len \in Nat \ {0}
            BY <1>2, <1>3, BucketsOf
          <6>2. bg[x].i \in 0 .. tabs[x].len - 1
            BY <1>3, <2>1, <6>1
          <6>3. QED
            BY <1>3, <6>2 DEF InTables
        <5> HIDE DEF s
        <5>3. QED
          BY <5>1, <5>2 DEF Places
      <4>2. CASE bg[x].stack /= <<>>
        <5>1. s = bg[x].stack
          BY <4>2
        <5> HIDE DEF s
        <5>2. QED
          BY <1>2, <1>3, <4>2, <5>1
      <4>3. QED
        BY <4>1, <4>2
    <3> HIDE DEF s
    <3>3. s[1] \in Nat \X Nat /\ InTables(tabs, s[1])
      <4>1. 1 \in DOMAIN s
        BY <3>2
      <4>2. QED
        BY <3>2, <4>1 DEF Places
    <3>4. s[1] = <<y, i>> /\ InTables(tabs, <<y, i>>)
      <4>1. s[1] = <<y, i>>
        BY <3>3
      <4>2. QED
        BY <3>3, <4>1
    <3>5. /\ SameTables(r.tabs) /\ Fewer(r.tabs) /\ r.pop \in BOOLEAN
          /\ \/ r.push = <<>>
             \/ \E f \in Nat \X Nat : r.push = <<f>> /\ InTables(tabs, f)
      <4> HIDE DEF y, i
      <4>1. QED
        BY <1>2, <3>4, InitStep
    <3> HIDE DEF r
    <3>6. rest \in Seq(Nat \X Nat) /\ Places(tabs, rest)
      BY <3>2, <3>5, PoppedFits
    <3> HIDE DEF rest
    <3> DEFINE j == IF rest = <<>> THEN bg[x].i + 1 ELSE bg[x].i
               b == [bg[x] EXCEPT !.stack = rest, !.i = j]
    <3>7. bg' = [bg EXCEPT ![x] = b]
      BY <3>1
    <3>8. j \in Nat
      BY <1>3
    <3> HIDE DEF j
    <3>9. b \in [on : BOOLEAN, i : Nat, stack : Seq(Nat \X Nat)] /\ b.stack = rest /\ b.on = bg[x].on
      BY <1>3, <3>6, <3>8
    <3> HIDE DEF b
    <3>10. BgFits(tabs, bg')
      BY <1>2, <3>6, <3>7, <3>9 DEF BgFits, BgType
    <3>11. QED
      BY <3>1, <3>5, <3>10
  <2>2. CASE ~(bg[x].i < tabs[x].len)
    <3>1. /\ bg' = [bg EXCEPT ![x] = NoInit]
          /\ tabs' = [tabs EXCEPT ![x].pred = 0,
                                  ![x - 1].buckets = [i \in DOMAIN @ |-> [Bucket({}) EXCEPT !.frozen = TRUE]]]
      BY <2>2 DEF Background
    <3>2. SameTables(tabs') /\ Fewer(tabs')
      BY <1>2, <1>3, <3>1, LetGo
    <3>3. NoInit \in [on : BOOLEAN, i : Nat, stack : Seq(Nat \X Nat)] /\ NoInit.stack = <<>> /\ ~NoInit.on
      <4>1. <<>> \in Seq(Nat \X Nat)
        OBVIOUS
      <4>2. QED
        BY <4>1 DEF NoInit
    <3>4. Places(tabs, <<>>)
      BY DEF Places
    <3>5. BgFits(tabs, bg')
      BY <1>2, <3>1, <3>3, <3>4 DEF BgFits, BgType
    <3>6. QED
      BY <3>2, <3>5
  <2>3. QED
    BY <2>1, <2>2
<1>5. TablesOK' /\ Grown
  BY <1>2, <1>4, TablesStay
<1>6. \A n \in Node : InBucket(n)' => InBucket(n)
  <2>1. \A n : (\E y \in DOMAIN tabs' : \E j \in DOMAIN tabs'[y].buckets : n \in tabs'[y].buckets[j].nodes) => InBucket(n)
    BY <1>4 DEF Fewer
  <2>2. QED
    BY <2>1 DEF InBucket
<1>7. QED
  BY <1>1, <1>5, <1>6, TablesMove

-----------------------------------------------------------------------------
(* OnDel functions. *)

\* The functions of the nodes A are called.
LEMMA Called ==
  ASSUME OnDelOnce, NEW A \in SUBSET Node, UNCHANGED asked,
         \A n \in Node : node'[n].onDel = IF n \in A THEN {} ELSE node[n].onDel,
         ran' = ran \cup UNION {node[n].onDel : n \in A}
  PROVE  OnDelOnce'
<1>1. /\ 1 .. asked = ran \cup UNION {node[n].onDel : n \in Node}
      /\ \A n \in Node : /\ node[n].onDel \cap ran = {}
                         /\ \A m \in Node \ {n} : node[n].onDel \cap node[m].onDel = {}
  BY DEF OnDelOnce
<1>2. 1 .. asked' = ran' \cup UNION {node'[n].onDel : n \in Node}
  <2>1. ran \cup UNION {node[n].onDel : n \in Node} = ran' \cup UNION {node'[n].onDel : n \in Node}
    OBVIOUS
  <2>2. QED
    BY <1>1, <2>1
<1>3. \A n \in Node : node'[n].onDel \cap ran' = {}
  BY <1>1
<1>4. \A n \in Node : \A m \in Node \ {n} : node'[n].onDel \cap node'[m].onDel = {}
  BY <1>1
<1>5. QED
  BY <1>2, <1>3, <1>4 DEF OnDelOnce

\* Nothing of it is altered.
LEMMA OnDelKept ==
  ASSUME OnDelOnce, UNCHANGED <<asked, ran>>, \A n \in Node : node'[n].onDel = node[n].onDel
  PROVE  OnDelOnce'
<1>1. {} \in SUBSET Node /\ ran' = ran \cup UNION {node[n].onDel : n \in {}}
  OBVIOUS
<1>2. QED
  BY <1>1, Called

\* A number that is not in use.
LEMMA NextNumber ==
  ASSUME OnDelOnce, asked \in Nat
  PROVE  /\ asked + 1 \notin ran /\ \A n \in Node : asked + 1 \notin node[n].onDel
         /\ 1 .. asked + 1 = (1 .. asked) \cup {asked + 1}
<1>1. asked + 1 \notin 1 .. asked /\ 1 .. asked + 1 = (1 .. asked) \cup {asked + 1}
  OBVIOUS
<1>2. 1 .. asked = ran \cup UNION {node[n].onDel : n \in Node}
  BY DEF OnDelOnce
<1>3. QED
  BY <1>1, <1>2

\* A lookup takes only nodes that hold no function.
LEMMA OnDelOfLookup ==
  ASSUME HoldInv, OnDelOnce, asked \in Nat, NEW t \in Threads, Lookup(t)
  PROVE  OnDelOnce' /\ asked' \in Nat
<1> DEFINE k == th[t].key
           x == th[t].tab
           i == k % tabs[x].len
           b == tabs[x].buckets[i]
<1>1. node \in [Node -> NodeType]
  BY DEF HoldInv, TypeInv, DataOK
<1>2. CASE b.frozen
  BY <1>2, OnDelKept DEF Lookup
<1>3. CASE ~b.frozen /\ Found(b, k) /= {}
  <2>1. PICK n \in Found(b, k) : node' = [node EXCEPT ![n].ref = @ + 1] /\ UNCHANGED <<asked, ran>>
    BY <1>3 DEF Lookup
  <2>2. \A e \in NodeType : [e EXCEPT !.ref = @ + 1].onDel = e.onDel
    BY DEF NodeType
  <2>3. \A m \in Node : node'[m].onDel = node[m].onDel
    BY <1>1, <2>1, <2>2
  <2>4. QED
    BY <2>1, <2>3, OnDelKept
<1>4. CASE ~b.frozen /\ Found(b, k) = {} /\ th[t].op = "get"
  <2>1. PICK n \in Node : IsNew(n) /\ node' = [node EXCEPT ![n] = [Free EXCEPT !.key = k, !.ref = 1]] /\ UNCHANGED <<asked, ran>>
    BY <1>4 DEF Lookup
  <2>2. [Free EXCEPT !.key = k, !.ref = 1].onDel = {} /\ Free.onDel = {} /\ node[n] = Free
    BY <2>1 DEF Free, IsNew
  <2>3. \A m \in Node : node'[m].onDel = node[m].onDel
    BY <1>1, <2>1, <2>2
  <2>4. QED
    BY <2>1, <2>3, OnDelKept
<1>5. CASE ~b.frozen /\ Found(b, k) = {} /\ th[t].op /= "get"
  <2>1. /\ node' = node
        /\ asked' = IF th[t].op = "delete" THEN asked + 1 ELSE asked
        /\ ran' = IF th[t].op = "delete" THEN ran \cup {asked + 1} ELSE ran
    BY <1>5 DEF Lookup
  <2>2. CASE th[t].op /= "delete"
    BY <2>1, <2>2, OnDelKept
  <2>3. CASE th[t].op = "delete"
    <3>1. /\ 1 .. asked = ran \cup UNION {node[n].onDel : n \in Node}
          /\ \A n \in Node : /\ node[n].onDel \cap ran = {}
                             /\ \A m \in Node \ {n} : node[n].onDel \cap node[m].onDel = {}
      BY DEF OnDelOnce
    <3>2. asked' = asked + 1 /\ ran' = ran \cup {asked + 1} /\ asked' \in Nat
      BY <2>1, <2>3
    <3>3. 1 .. asked' = ran' \cup UNION {node'[n].onDel : n \in Node}
      BY <2>1, <3>1, <3>2, NextNumber
    <3>4. \A n \in Node : node'[n].onDel \cap ran' = {}
      BY <2>1, <3>1, <3>2, NextNumber
    <3>5. \A n \in Node : \A m \in Node \ {n} : node'[n].onDel \cap node'[m].onDel = {}
      BY <2>1, <3>1
    <3>6. QED
      BY <3>2, <3>3, <3>4, <3>5 DEF OnDelOnce
  <2>4. QED
    BY <2>2, <2>3
<1>6. QED
  BY <1>2, <1>3, <1>4, <1>5

\* A function that is registered, or called at once, is new.
LEMMA OnDelOfOnDel ==
  ASSUME HoldInv, OnDelOnce, asked \in Nat, NEW t \in Threads, OnDel(t)
  PROVE  OnDelOnce' /\ asked' \in Nat
<1> DEFINE n == th[t].n
           v == [node[n] EXCEPT !.onDel = @ \cup {asked + 1}]
<1>1. /\ th[t].pc = "found" /\ asked' = asked + 1 /\ UNCHANGED ran
      /\ node' = [node EXCEPT ![n].onDel = @ \cup {asked + 1}]
  BY DEF OnDel
<1>2. n \in Node /\ node \in [Node -> NodeType]
  BY <1>1, Thread DEF Fits, Using, HoldInv, TypeInv, DataOK
<1>3. v.onDel = node[n].onDel \cup {asked + 1}
  <2>1. node[n] \in NodeType
    BY <1>2
  <2>2. QED
    BY <2>1 DEF NodeType
<1>4. node' = [node EXCEPT ![n] = v]
  BY <1>1
<1> HIDE DEF v
<1>5. node'[n].onDel = node[n].onDel \cup {asked + 1} /\ \A m \in Node \ {n} : node'[m].onDel = node[m].onDel
  BY <1>2, <1>3, <1>4
<1>6. /\ 1 .. asked = ran \cup UNION {node[m].onDel : m \in Node}
      /\ \A p \in Node : /\ node[p].onDel \cap ran = {}
                         /\ \A m \in Node \ {p} : node[p].onDel \cap node[m].onDel = {}
  BY DEF OnDelOnce
<1>7. asked + 1 \notin ran /\ (\A m \in Node : asked + 1 \notin node[m].onDel) /\ 1 .. asked + 1 = (1 .. asked) \cup {asked + 1}
  BY NextNumber
<1> HIDE DEF n
<1>8. UNION {node'[m].onDel : m \in Node} = (UNION {node[m].onDel : m \in Node}) \cup {asked + 1}
  <2> DEFINE q == asked + 1
  <2>1. node'[n].onDel = node[n].onDel \cup {q} /\ \A m \in Node \ {n} : node'[m].onDel = node[m].onDel
    BY <1>5
  <2> HIDE DEF q
  <2>2. UNION {node'[m].onDel : m \in Node} \subseteq (UNION {node[m].onDel : m \in Node}) \cup {q}
    BY <1>2, <2>1
  <2>3. q \in UNION {node'[m].onDel : m \in Node}
    BY <1>2, <2>1
  <2>4. \A m \in Node : node[m].onDel \subseteq node'[m].onDel
    BY <1>2, <2>1
  <2>5. QED
    BY <2>2, <2>3, <2>4 DEF q
<1>9. 1 .. asked' = ran' \cup UNION {node'[m].onDel : m \in Node}
  <2>1. 1 .. asked' = (1 .. asked) \cup {asked + 1}
    BY <1>1, <1>7
  <2>2. QED
    BY <1>1, <1>6, <1>8, <2>1
<1>10. ASSUME NEW p \in Node PROVE node'[p].onDel \cap ran' = {}
  BY <1>1, <1>2, <1>5, <1>6, <1>7
<1>11. ASSUME NEW p \in Node, NEW m \in Node \ {p} PROVE node'[p].onDel \cap node'[m].onDel = {}
  <2>1. node[p].onDel \cap node[m].onDel = {} /\ asked + 1 \notin node[p].onDel /\ asked + 1 \notin node[m].onDel
    BY <1>6, <1>7
  <2>2. CASE p = n
    BY <1>5, <2>1, <2>2
  <2>3. CASE p /= n
    BY <1>5, <2>1, <2>3
  <2>4. QED
    BY <2>2, <2>3
<1>12. QED
  BY <1>1, <1>9, <1>10, <1>11 DEF OnDelOnce

\* The functions of a deleted node are called, and are no longer held by it.
LEMMA OnDelOfDeleted ==
  ASSUME HoldInv, OnDelOnce, NEW t \in Threads, Deleted(t)
  PROVE  OnDelOnce' /\ asked' = asked
<1> DEFINE n == th[t].dk
<1>1. th[t].pc = "deleted" /\ UNCHANGED asked /\ node' = [node EXCEPT ![n] = Free] /\ ran' = ran \cup node[n].onDel
  BY DEF Deleted
<1>2. n \in Node /\ node \in [Node -> NodeType]
  BY <1>1, Thread DEF Fits, HoldInv, TypeInv, DataOK
<1> HIDE DEF n
<1>3. Free.onDel = {}
  BY DEF Free
<1>4. \A m \in Node : node'[m].onDel = IF m \in {n} THEN {} ELSE node[m].onDel
  BY <1>1, <1>2, <1>3
<1>5. ran' = ran \cup UNION {node[m].onDel : m \in {n}} /\ {n} \in SUBSET Node
  BY <1>1, <1>2
<1>6. QED
  BY <1>1, <1>4, <1>5, Called

\* The functions of the nodes that Close sweeps are called, and are no longer
\* held by them.
LEMMA OnDelOfSweep ==
  ASSUME HoldInv, OnDelOnce, NEW t \in Threads, Sweep(t)
  PROVE  OnDelOnce' /\ asked' = asked
<1> DEFINE B == tabs[mHead].buckets
           raw == {i \in DOMAIN B : ~B[i].set}
           all == UNION {B[i].nodes : i \in DOMAIN B}
<1>1. asked' = asked /\ node \in [Node -> NodeType] /\ TablesOK
  BY DEF Sweep, HoldInv, TypeInv, DataOK
<1>2. CASE raw /= {}
  BY <1>2, OnDelKept DEF Sweep
<1>3. CASE raw = {}
  <2>1. /\ node' = [n \in DOMAIN node |->
                       IF n \in all THEN [node[n] EXCEPT !.value = FALSE, !.onDel = {}] ELSE node[n]]
        /\ ran' = ran \cup UNION {node[n].onDel : n \in all}
    BY <1>3 DEF Sweep
  <2>2. all \in SUBSET Node
    <3>1. mHead \in DOMAIN tabs
      BY <1>1 DEF TablesOK, mHead
    <3>2. B \in [0 .. tabs[mHead].len - 1 -> BucketType]
      BY <1>1, <3>1, BucketsOf
    <3>3. \A i \in DOMAIN B : B[i] \in BucketType
      BY <3>2
    <3> HIDE DEF B
    <3>4. QED
      BY <3>3 DEF BucketType
  <2> HIDE DEF all
  <2>3. \A e \in NodeType : [e EXCEPT !.value = FALSE, !.onDel = {}].onDel = {}
    BY DEF NodeType
  <2>4. \A m \in Node : node'[m].onDel = IF m \in all THEN {} ELSE node[m].onDel
    BY <1>1, <2>1, <2>3
  <2>5. QED
    BY <1>1, <2>1, <2>2, <2>4, Called
<1>4. QED
  BY <1>2, <1>3

\* A node with another value of one of its other fields.
LEMMA FieldKept ==
  ASSUME NEW A \in [Node -> NodeType], NEW n, NEW v, NEW m \in Node
  PROVE  /\ [A EXCEPT ![n].ref = v][m].onDel = A[m].onDel
         /\ [A EXCEPT ![n].mu = v][m].onDel = A[m].onDel
         /\ [A EXCEPT ![n].cd = v][m].onDel = A[m].onDel
         /\ [A EXCEPT ![n].value = v][m].onDel = A[m].onDel
<1>1. \A e \in NodeType : /\ [e EXCEPT !.ref = v].onDel = e.onDel /\ [e EXCEPT !.mu = v].onDel = e.onDel
                          /\ [e EXCEPT !.cd = v].onDel = e.onDel /\ [e EXCEPT !.value = v].onDel = e.onDel
  BY DEF NodeType
<1>2. A[m] \in NodeType
  OBVIOUS
<1>3. CASE m = n
  BY <1>1, <1>2, <1>3
<1>4. CASE m /= n
  BY <1>4
<1>5. QED
  BY <1>3, <1>4

\* The other steps that alter a node alter something else of it.
LEMMA OnDelOfOthers ==
  ASSUME HoldInv, NEW t \in Threads,
         \/ Value(t) \/ SetFunc(t, TRUE) \/ SetFunc(t, FALSE) \/ Promote(t) \/ Ban(t) \/ Evict(t) \/ EvictMany(t)
         \/ Release(t) \/ Unref(t) \/ Delete(t) \/ \E c \in {0, Capacity} : SetCapacity(t, c)
  PROVE  UNCHANGED <<asked, ran>> /\ \A n \in Node : node'[n].onDel = node[n].onDel
<1>1. node \in [Node -> NodeType]
  BY DEF HoldInv, TypeInv, DataOK
<1>2. \A e \in NodeType : \A v : [[e EXCEPT !.mu = None] EXCEPT !.value = v].onDel = e.onDel
  BY DEF NodeType
<1>3. CASE Value(t)
  <2>1. UNCHANGED <<asked, ran>> /\ (node' = node \/ node' = [node EXCEPT ![th[t].n].mu = t])
    BY <1>3 DEF Value
  <2>2. \A m \in Node : [node EXCEPT ![th[t].n].mu = t][m].onDel = node[m].onDel
    BY <1>1, FieldKept
  <2>3. QED
    BY <2>1, <2>2
<1>4. ASSUME NEW ok \in BOOLEAN, SetFunc(t, ok)
      PROVE  UNCHANGED <<asked, ran>> /\ \A n \in Node : node'[n].onDel = node[n].onDel
  <2> DEFINE v == [[node[th[t].n] EXCEPT !.mu = None] EXCEPT !.value = ok]
  <2>1. UNCHANGED <<asked, ran>> /\ node' = [node EXCEPT ![th[t].n].mu = None, ![th[t].n].value = ok]
    BY <1>4 DEF SetFunc
  <2>2. th[t].n \in Node
    BY <1>4, Thread DEF SetFunc, Fits, Using
  <2>3. node' = [node EXCEPT ![th[t].n] = v]
    BY <1>1, <2>1, <2>2
  <2>4. v.onDel = node[th[t].n].onDel
    BY <1>1, <1>2, <2>2
  <2> HIDE DEF v
  <2>5. QED
    BY <1>1, <2>1, <2>2, <2>3, <2>4
<1>5. CASE Promote(t)
  <2> DEFINE list(h) == <<[n |-> th[t].n, h |-> h, key |-> node[th[t].n].key]>> \o lru
  <2>1. UNCHANGED <<asked, ran>>
    BY <1>5 DEF Promote
  <2>2. \/ node' = node
        \/ \E h \in Listed :
              node' = Uncached([node EXCEPT ![th[t].n].ref = @ + 1, ![th[t].n].cd = "in"], Rest(list(h), capacity))
    BY <1>5 DEF Promote
  <2>3. th[t].n \in Node
    BY <1>5, Thread DEF Promote, Fits, Using
  <2>4. ASSUME NEW E, node' = Uncached([node EXCEPT ![th[t].n].ref = @ + 1, ![th[t].n].cd = "in"], E)
        PROVE  \A n \in Node : node'[n].onDel = node[n].onDel
    <3> DEFINE N == [node EXCEPT ![th[t].n].ref = @ + 1, ![th[t].n].cd = "in"]
    <3>1. N = [node EXCEPT ![th[t].n].ref = @ + 1, ![th[t].n].cd = "in"] /\ node' = Uncached(N, E)
      BY <2>4
    <3> HIDE DEF N
    <3>2. CountsIn(N, node, th[t].n)
      BY <1>1, <2>3, <3>1, CountedIn
    <3>3. N \in [Node -> NodeType] /\ \A n \in Node : N[n].onDel = node[n].onDel
      BY <3>2 DEF CountsIn
    <3>4. \A n \in Node : Uncached(N, E)[n].onDel = N[n].onDel
      BY <3>3, UncachedOf
    <3>5. QED
      BY <3>1, <3>3, <3>4
  <2>5. QED
    BY <2>1, <2>2, <2>4
<1>6. CASE Ban(t) \/ Evict(t)
  <2>1. UNCHANGED <<asked, ran>> /\ (node' = node \/ \E v \in {None, "ban"} : node' = [node EXCEPT ![th[t].n].cd = v])
    BY <1>6 DEF Ban, Evict
  <2>2. \A m \in Node : \A v : [node EXCEPT ![th[t].n].cd = v][m].onDel = node[m].onDel
    BY <1>1, FieldKept
  <2>3. QED
    BY <2>1, <2>2
<1>7. CASE EvictMany(t) \/ \E c \in {0, Capacity} : SetCapacity(t, c)
  <2>1. UNCHANGED <<asked, ran>> /\ \E E : node' = Uncached(node, E)
    BY <1>7 DEF EvictMany, SetCapacity
  <2>2. QED
    BY <1>1, <2>1, UncachedOf
<1>8. CASE Release(t) \/ Unref(t)
  <2>1. UNCHANGED <<asked, ran>> /\ (node' = node \/ \E n : node' = [node EXCEPT ![n].ref = node[n].ref - 1])
    BY <1>8 DEF Release, Unref
  <2>2. \A m \in Node : \A n : [node EXCEPT ![n].ref = node[n].ref - 1][m].onDel = node[m].onDel
    BY <1>1, FieldKept
  <2>3. QED
    BY <2>1, <2>2
<1>9. CASE Delete(t)
  <2>1. UNCHANGED <<asked, ran>> /\ (node' = node \/ \E n : node' = [node EXCEPT ![n].value = FALSE])
    BY <1>9 DEF Delete
  <2>2. \A m \in Node : \A n : [node EXCEPT ![n].value = FALSE][m].onDel = node[m].onDel
    BY <1>1, FieldKept
  <2>3. QED
    BY <2>1, <2>2
<1>10. QED
  BY <1>3, <1>4, <1>5, <1>6, <1>7, <1>8, <1>9

-----------------------------------------------------------------------------
(* The theorems. *)

\* The invariant holds of an empty cache.
LEMMA InitHold ==
  ASSUME Init
  PROVE  HoldInv
<1>1. /\ tabs = <<Table(InitialSize, 0)>> /\ bg = [x \in 2 .. MaxTables |-> NoInit]
      /\ node = [n \in Node |-> Free] /\ hnd = [h \in Handle |-> 0] /\ lru = <<>> /\ capacity = Capacity
      /\ closed = "no" /\ th = [t \in Threads |-> Idle]
  BY DEF Init
<1>2. /\ InitialSize \in Nat \ {0} /\ MaxTables \in Nat \ {0} /\ Capacity \in Nat /\ MaxNodes \in Nat /\ None /= "in"
  BY CacheAssumption DEF CacheAssumption
<1>3. TablesOK /\ ~\E n \in Node : InBucket(n)
  <2> DEFINE T == Table(InitialSize, 0)
             B == [i \in 0 .. InitialSize - 1 |-> Bucket({})]
  <2>1. T = [len |-> InitialSize, pred |-> 0, resizing |-> FALSE, overflow |-> 0, buckets |-> B]
    BY DEF Table
  <2>2. B \in [0 .. InitialSize - 1 -> BucketType] /\ \A i \in DOMAIN B : B[i].nodes = {}
    BY DEF Bucket, BucketType
  <2>3. B \in BucketsType
    BY <1>2, <2>2 DEF BucketsType
  <2> HIDE DEF B
  <2>4. T \in TableType
    <3>1. InitialSize \in Nat \ {0} /\ 0 \in Nat /\ FALSE \in BOOLEAN /\ 0 \in Int
      BY <1>2
    <3>2. ASSUME NEW N, NEW I, NEW P, NEW X, NEW l \in N, NEW o \in I, NEW c \in X, NEW p \in P
          PROVE  [len |-> l, pred |-> p, resizing |-> FALSE, overflow |-> o, buckets |-> c]
                     \in [len : N, pred : P, resizing : BOOLEAN, overflow : I, buckets : X]
      OBVIOUS
    <3>3. [len |-> InitialSize, pred |-> 0, resizing |-> FALSE, overflow |-> 0, buckets |-> B]
              \in [len : Nat \ {0}, pred : Nat, resizing : BOOLEAN, overflow : Int, buckets : BucketsType]
      BY <2>3, <3>1, <3>2
    <3>4. QED
      BY <2>1, <3>3 DEF TableType
  <2>5. T.len = InitialSize /\ T.pred = 0 /\ T.buckets = B
    BY <2>1
  <2> HIDE DEF T
  <2>6. /\ tabs = <<T>> /\ tabs \in Seq(TableType) /\ Len(tabs) = 1 /\ DOMAIN tabs = {1} /\ tabs[1] = T
    BY <1>1, <2>4 DEF T
  <2>7. \A x \in DOMAIN tabs :
           /\ DOMAIN tabs[x].buckets = 0 .. tabs[x].len - 1
           /\ tabs[x].pred = 0 \/ tabs[x].pred = x - 1
           /\ x > 1 => tabs[x].len > tabs[x - 1].len \/ 2 * tabs[x].len <= tabs[x - 1].len
           /\ x < Len(tabs) => tabs[x].resizing
    <3>1. DOMAIN B = 0 .. InitialSize - 1
      BY <2>2
    <3>2. QED
      BY <2>5, <2>6, <3>1
  <2>8. NoInit \in [on : BOOLEAN, i : Nat, stack : Seq(Nat \X Nat)] /\ NoInit.stack = <<>> /\ ~NoInit.on
    <3>1. <<>> \in Seq(Nat \X Nat)
      OBVIOUS
    <3>2. QED
      BY <3>1 DEF NoInit
  <2>9. /\ bg \in [2 .. MaxTables -> [on : BOOLEAN, i : Nat, stack : Seq(Nat \X Nat)]]
        /\ \A x \in 2 .. MaxTables : Places(tabs, bg[x].stack) /\ (bg[x].on => x \in DOMAIN tabs)
    BY <1>1, <2>8 DEF Places
  <2>10. Len(tabs) \in 1 .. MaxTables
    BY <1>2, <2>6
  <2>11. TablesOK
    BY <2>6, <2>7, <2>9, <2>10 DEF TablesOK
  <2>12. ASSUME NEW n \in Node, InBucket(n) PROVE FALSE
    <3>1. PICK i \in DOMAIN B : n \in B[i].nodes
      BY <2>5, <2>6, <2>12 DEF InBucket
    <3>2. QED
      BY <2>2, <3>1
  <2>13. QED
    BY <2>11, <2>12
<1>4. Free \in NodeType /\ Free.ref = 0 /\ Free.cd = None
  BY DEF Free, NodeType
<1>5. DataOK
  <2>1. lru \in Seq(EntryType)
    BY <1>1
  <2>2. 0 \in 0 .. MaxNodes
    BY <1>2
  <2>3. QED
    BY <1>1, <1>2, <1>4, <2>1, <2>2 DEF DataOK
<1>6. \A t \in Threads : th[t] = Idle
  BY <1>1
<1>7. Fits(Idle)
  <2>1. ~Releases(Idle) /\ ~Using(Idle) /\ ~Getting(Idle)
    BY DEF Idle, Releases, Using, Getting
  <2>2. Idle.pc = "idle" /\ Idle.stack = <<>> /\ Idle.inner = FALSE
    BY DEF Idle
  <2>3. QED
    BY <2>1, <2>2 DEF Fits
<1>8. ThreadsOK
  <2>1. th \in [Threads -> ThreadType]
    BY <1>1, IdleFits
  <2>2. Places(tabs, Idle.stack)
    BY IdleFits DEF Places
  <2>3. QED
    BY <1>6, <1>7, <2>1, <2>2 DEF ThreadsOK
<1>9. RefInv
  <2>1. ASSUME NEW n \in Node PROVE Referred(n) = 0
    <3>1. n /= 0
      BY <1>2 DEF Node
    <3>2. HandlesOf(n) = {} /\ UsersOf(n) = {}
      BY <1>1, <1>6, <3>1, IdleFits DEF HandlesOf, UsersOf
    <3>3. Cardinality({}) = 0
      BY FS_EmptySet
    <3>4. QED
      BY <3>2, <3>3 DEF Referred
  <2>2. \A t \in Threads : th[t].op \notin Get
    BY <1>6, IdleFits
  <2>3. QED
    BY <1>1, <1>4, <2>1, <2>2 DEF RefInv
<1>10. LruInv
  BY <1>1, <1>2, <1>4 DEF LruInv, Entries
<1>11. \A t \in Threads : ~Leaving(t) /\ th[t].pc /= "set" /\ ~Has(th[t])
  BY <1>6, IdleFits DEF Leaving
<1>12. DeadInv
  BY <1>3, <1>11 DEF DeadInv
<1>13. ValueInv
  BY <1>1, <1>11 DEF ValueInv
<1>14. QED
  BY <1>3, <1>5, <1>8, <1>9, <1>10, <1>12, <1>13 DEF HoldInv, TypeInv

\* The invariant does not depend on what a stuttering step may alter.
LEMMA StutterHold ==
  ASSUME HoldInv, UNCHANGED vars
  PROVE  HoldInv'
<1>1. UNCHANGED <<node, hnd, lru, capacity, closed, th, tabs, bg>>
  BY DEF vars
<1>2. TypeInv
  BY DEF HoldInv
<1>3. TablesOK' /\ Grown /\ (\A n \in Node : InBucket(n)' => InBucket(n))
  BY <1>1, <1>2, TablesSame
<1>4. QED
  BY <1>1, <1>3, TablesMove

\* Both invariants, step by step.
LEMMA NextHold ==
  ASSUME HoldInv, OnDelOnce, asked \in Nat, [Next]_vars
  PROVE  HoldInv' /\ OnDelOnce' /\ asked' \in Nat
<1>1. ASSUME UNCHANGED <<node, asked, ran>> PROVE OnDelOnce' /\ asked' \in Nat
  BY <1>1, OnDelKept
<1>2. CASE UNCHANGED vars
  <2>1. UNCHANGED <<node, asked, ran>>
    BY <1>2 DEF vars
  <2>2. QED
    BY <1>1, <1>2, <2>1, StutterHold
<1>3. ASSUME NEW x \in 2 .. MaxTables, Background(x) PROVE HoldInv' /\ OnDelOnce' /\ asked' \in Nat
  <2>1. UNCHANGED <<node, asked, ran>>
    BY <1>3 DEF Background
  <2>2. QED
    BY <1>1, <1>3, <2>1, BackgroundStep
<1>4. ASSUME NEW t \in Threads, NEW o \in AllOps, NEW k \in Keys, Call(t, o, k) PROVE HoldInv' /\ OnDelOnce' /\ asked' \in Nat
  <2>1. UNCHANGED <<node, asked, ran>>
    BY <1>4 DEF Call
  <2>2. QED
    BY <1>1, <1>4, <2>1, CallStep
<1>5. ASSUME NEW t \in Threads, NEW c \in {0, Capacity}, SetCapacity(t, c) PROVE HoldInv' /\ OnDelOnce' /\ asked' \in Nat
  <2>1. c \in Nat
    BY CacheAssumption DEF CacheAssumption
  <2>2. HoldInv'
    BY <1>5, <2>1, SetCapacityStep
  <2>3. \E d \in {0, Capacity} : SetCapacity(t, d)
    BY <1>5
  <2>4. UNCHANGED <<asked, ran>> /\ \A n \in Node : node'[n].onDel = node[n].onDel
    BY <2>3, OnDelOfOthers
  <2>5. QED
    BY <2>2, <2>4, OnDelKept
<1>6. ASSUME NEW t \in Threads, NEW o \in {"close", "closeweak"}, Close(t, o) PROVE HoldInv' /\ OnDelOnce' /\ asked' \in Nat
  <2>1. UNCHANGED <<node, asked, ran>>
    BY <1>6 DEF Close
  <2>2. QED
    BY <1>1, <1>6, <2>1, CloseStep
<1>7. ASSUME NEW t \in Threads, ReleaseHandle(t) PROVE HoldInv' /\ OnDelOnce' /\ asked' \in Nat
  <2>1. UNCHANGED <<node, asked, ran>>
    BY <1>7 DEF ReleaseHandle
  <2>2. QED
    BY <1>1, <1>7, <2>1, ReleaseHandleStep
<1>8. ASSUME NEW t \in Threads, Step(t) PROVE HoldInv' /\ OnDelOnce' /\ asked' \in Nat
  <2>1. CASE InitStepOf(t)
    <3>1. UNCHANGED <<node, asked, ran>>
      BY <2>1 DEF InitStepOf
    <3>2. QED
      BY <1>1, <2>1, <3>1, StepOfInit
  <2>2. CASE GetBucket(t)
    <3>1. UNCHANGED <<node, asked, ran>>
      BY <2>2 DEF GetBucket
    <3>2. QED
      BY <1>1, <2>2, <3>1, GetBucketStep
  <2>3. CASE Grow(t)
    <3>1. UNCHANGED <<node, asked, ran>>
      BY <2>3 DEF Grow
    <3>2. QED
      BY <1>1, <2>3, <3>1, GrowStep
  <2>4. CASE End(t)
    <3>1. UNCHANGED <<node, asked, ran>>
      BY <2>4 DEF End
    <3>2. QED
      BY <1>1, <2>4, <3>1, EndStep
  <2>5. CASE RLock(t)
    <3>1. UNCHANGED <<node, asked, ran>>
      BY <2>5 DEF RLock
    <3>2. QED
      BY <1>1, <2>5, <3>1, RLockStep
  <2>6. CASE CloseLock(t)
    <3>1. UNCHANGED <<node, asked, ran>>
      BY <2>6 DEF CloseLock
    <3>2. QED
      BY <1>1, <2>6, <3>1, CloseLockStep
  <2>7. CASE Lookup(t)
    BY <2>7, LookupStep, OnDelOfLookup
  <2>8. CASE OnDel(t)
    BY <2>8, OnDelStep, OnDelOfOnDel
  <2>9. CASE Deleted(t)
    BY <2>9, DeletedStep, OnDelOfDeleted
  <2>10. CASE Sweep(t)
    BY <2>10, SweepStep, OnDelOfSweep
  <2>11. CASE \/ Value(t) \/ SetFunc(t, TRUE) \/ SetFunc(t, FALSE) \/ Promote(t) \/ Ban(t) \/ Evict(t) \/ EvictMany(t)
              \/ Release(t) \/ Unref(t) \/ Delete(t)
    <3>1. UNCHANGED <<asked, ran>> /\ \A n \in Node : node'[n].onDel = node[n].onDel
      BY <2>11, OnDelOfOthers
    <3>2. HoldInv'
      BY <2>11, ValueStep, SetFuncStep, PromoteStep, BanStep, EvictStep, EvictManyStep, ReleaseStep, UnrefStep, DeleteStep
    <3>3. QED
      BY <3>1, <3>2, OnDelKept
  <2>12. QED
    BY <1>8, <2>1, <2>2, <2>3, <2>4, <2>5, <2>6, <2>7, <2>8, <2>9, <2>10, <2>11 DEF Step
<1>9. QED
  BY <1>2, <1>3, <1>4, <1>5, <1>6, <1>7, <1>8 DEF Next

\* No function has been registered in an empty cache.
LEMMA InitOnce ==
  ASSUME Init
  PROVE  OnDelOnce /\ asked \in Nat
<1>1. asked = 0 /\ ran = {} /\ \A n \in Node : node[n].onDel = {}
  BY DEF Init, Free
<1>2. 1 .. asked = {}
  BY <1>1
<1>3. QED
  BY <1>1, <1>2 DEF OnDelOnce

\* HoldInv and OnDelOnce hold in every state.
LEMMA CacheHolds == Spec => [](HoldInv /\ OnDelOnce /\ asked \in Nat)
<1>1. Init => HoldInv /\ OnDelOnce /\ asked \in Nat
  BY InitHold, InitOnce
<1>2. HoldInv /\ OnDelOnce /\ asked \in Nat /\ [Next]_vars => (HoldInv /\ OnDelOnce /\ asked \in Nat)'
  BY NextHold
<1>3. QED
  BY <1>1, <1>2, PTL DEF Spec

\* A handle that a caller has not released (Handle.Value, cache.go) leads to a
\* node with its value, until Close of the cache takes the values away,
\* whatever is evicted, banned, deleted or resized meanwhile.
THEOREM HandleLiveHolds == Spec => []HandleLive
<1>1. HoldInv => HandleLive
  BY DEF HoldInv, ValueInv, HandleLive
<1>2. QED
  BY <1>1, CacheHolds, PTL

\* Each function given to Delete (OnDel, cache.go) is called at most once, and
\* is not lost: until it is called, one node, and no other, holds it.
THEOREM OnDelOnceHolds == Spec => []OnDelOnce
BY CacheHolds, PTL

=============================================================================

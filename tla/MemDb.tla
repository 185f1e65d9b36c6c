------------------------------- MODULE MemDb --------------------------------
(***************************************************************************)
(* The in-memory table of goleveldb, memdb/memdb.go: a skip list of        *)
(* internal keys with its iterator, as operators on values.                *)
(*                                                                         *)
(* The node numbers of nodeData are 0 (the head) and, in the order of      *)
(* insertion, 1, 2, ...  A node has its key, its value and one next node   *)
(* per level; a level is counted from 1.  kvData only ever grows, so a     *)
(* slice of it is the value it was.                                        *)
(***************************************************************************)
EXTENDS InternalKeys

CONSTANT MaxHeight    \* tMaxHeight

\* memdb.New
NewMem ==
    [next   |-> <<[h \in 1 .. MaxHeight |-> 0]>>,
     key    |-> <<>>,
     value  |-> <<>>,
     height |-> 1]

\* The next node of node at level h; the head comes first in next.
NextAt(m, node, h) == m.next[node + 1][h]

\* The path of findGE(key, true): the node at which each level is left, and
\* the node found.  The search for NilKey goes on to the end.
RECURSIVE Descend(_, _, _, _, _)
DescendBy(m, key, node, h, prev, next) ==
    IF next # 0 /\ (key = NilKey \/ iLess(m.key[next], key))
    THEN Descend(m, key, next, h, prev)
    ELSE IF h = 1 THEN [node |-> node, next |-> next, prev |-> <<node>> \o prev]
         ELSE Descend(m, key, node, h - 1, <<node>> \o prev)
Descend(m, key, node, h, prev) == DescendBy(m, key, node, h, prev, NextAt(m, node, h))

Walk(m, key) == Descend(m, key, 0, m.height, <<>>)

findGE(m, key) == Walk(m, key).next

\* DB.Find: the first entry not below key, or nothing.
PairAt(m, node) ==
    IF node = 0 THEN [key |-> NilKey, value |-> <<>>, err |-> ""]
    ELSE [key |-> m.key[node], value |-> m.value[node], err |-> ""]
MemFind(m, key) == PairAt(m, findGE(m, key))

findLT(m, key) == Walk(m, key).node

findLast(m) == Walk(m, NilKey).node

\* DB.Put with the height h drawn by randHeight.  The value of a key that is
\* there is replaced in its node.
Insertion(m, key, value, h, node, prev) ==
    [next   |-> Append([n \in DOMAIN m.next |->
                           [l \in DOMAIN m.next[n] |->
                               IF l <= h /\ prev[l] = n - 1 THEN node ELSE m.next[n][l]]],
                       [l \in 1 .. h |-> NextAt(m, prev[l], l)]),
     key    |-> Append(m.key, key),
     value  |-> Append(m.value, value),
     height |-> Max({m.height, h})]
PutAt(m, key, value, h, walk) ==
    IF walk.next # 0 /\ m.key[walk.next] = key
    THEN [m EXCEPT !.value[walk.next] = value]
    ELSE Insertion(m, key, value, h, Len(m.key) + 1,
                   walk.prev \o [i \in 1 .. MaxHeight - m.height |-> 0])
MemPut(m, key, value, h) == PutAt(m, key, value, h, Walk(m, key))

-----------------------------------------------------------------------------
\* The iterator of the table.

\* DB.NewIterator
MemIter(layer, slice) ==
    [kind |-> "mem", layer |-> layer, slice |-> slice, node |-> 0,
     forward |-> FALSE, key |-> NilKey, value |-> <<>>, err |-> ""]

\* dbIter.fill: the iterator is on node unless that lies outside of the range.
fill(m, i, node, checkStart, checkLimit) ==
    IF \/ node = 0
       \/ checkLimit /\ i.slice.limit # NilKey /\ ~iLess(m.key[node], i.slice.limit)
       \/ checkStart /\ i.slice.start # NilKey /\ iLess(m.key[node], i.slice.start)
    THEN [i EXCEPT !.node = 0, !.key = NilKey, !.value = <<>>]
    ELSE [i EXCEPT !.node = node, !.key = m.key[node], !.value = m.value[node]]

Up(m, i, node) == fill(m, [i EXCEPT !.forward = TRUE], node, FALSE, TRUE)

Down(m, i, node) == fill(m, [i EXCEPT !.forward = FALSE], node, TRUE, FALSE)

MemFirst(m, i) ==
    Up(m, i, IF i.slice.start # NilKey THEN findGE(m, i.slice.start)
             ELSE NextAt(m, 0, 1))

MemLast(m, i) ==
    Down(m, i, IF i.slice.limit # NilKey THEN findLT(m, i.slice.limit)
               ELSE findLast(m))

MemSeek(m, i, key) ==
    Up(m, i, findGE(m, IF i.slice.start # NilKey /\ iLess(key, i.slice.start)
                       THEN i.slice.start ELSE key))

MemNext(m, i) ==
    CASE i.node # 0 -> Up(m, i, NextAt(m, i.node, 1))
      [] i.node = 0 /\ ~i.forward -> MemFirst(m, i)
      [] OTHER -> i

MemPrev(m, i) ==
    CASE i.node # 0 -> Down(m, i, findLT(m, i.key))
      [] i.node = 0 /\ i.forward -> MemLast(m, i)
      [] OTHER -> i

MemValid(i) == i.node # 0

=============================================================================

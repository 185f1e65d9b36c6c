---------------------------- MODULE InternalKeys ----------------------------
(***************************************************************************)
(* Keys of goleveldb (go_code/go/github.com/syndtr/goleveldb/leveldb):     *)
(* key.go, comparer.go and comparer/bytes_comparer.go.                     *)
(*                                                                         *)
(* A user key is a sequence of bytes 0 .. MaxByte, MaxByte standing for    *)
(* 0xff.  An internal key is a user key followed by a trailer, here two    *)
(* bytes (the type, the sequence number) where the code has eight.  A key  *)
(* that may be missing (nil) is a sequence of at most one key for user     *)
(* keys, and <<>> for internal keys, which are never empty.                *)
(***************************************************************************)
EXTENDS Naturals, Sequences, SequencesExt, FiniteSetsExt

CONSTANTS
    MaxByte,     \* the greatest byte, 0xff
    KeyMaxSeq    \* keyMaxSeq, above every sequence number in use

ASSUME BytesAssumption == MaxByte \in Nat /\ KeyMaxSeq \in Nat

keyTypeDel == 0
keyTypeVal == 1
keyTypeSeek == keyTypeVal

NilKey == <<>>

makeInternalKey(ukey, seq, kt) == ukey \o <<kt, seq>>

ukeyOf(ikey) == SubSeq(ikey, 1, Len(ikey) - 2)

typeOf(ikey) == ikey[Len(ikey) - 1]

seqOf(ikey) == ikey[Len(ikey)]

\* The number of a key packs the sequence number above the type.
num(ikey) == 2 * seqOf(ikey) + typeOf(ikey)

RECURSIVE sharedFrom(_, _, _)
sharedFrom(a, b, n) ==
    IF n < Len(a) /\ n < Len(b) /\ a[n + 1] = b[n + 1] THEN sharedFrom(a, b, n + 1) ELSE n
sharedPrefixLen(a, b) == sharedFrom(a, b, 0)

\* bytesComparer.Compare(a, b) < 0
uLessFrom(a, b, n) == n < Len(b) /\ (n = Len(a) \/ a[n + 1] < b[n + 1])
uLess(a, b) == uLessFrom(a, b, sharedPrefixLen(a, b))

uLeq(a, b) == a = b \/ uLess(a, b)

\* iComparer.Compare(a, b) < 0: the newest version of a user key comes first.
iLessBy(u, v, a, b) == IF u = v THEN num(a) > num(b) ELSE uLess(u, v)
iLess(a, b) == iLessBy(ukeyOf(a), ukeyOf(b), a, b)

\* a[:i] with its last byte one higher, i counted from one.
Bumped(a, i) == SubSeq(a, 1, i - 1) \o <<a[i] + 1>>

\* bytesComparer.Separator: a short key from a up to, not including, b; nil
\* when there is none this way.
uSeparatorAt(a, b, i) ==
    IF i <= Min({Len(a), Len(b)}) /\ a[i] < MaxByte /\ a[i] + 1 < b[i]
    THEN <<Bumped(a, i)>> ELSE <<>>
uSeparator(a, b) == uSeparatorAt(a, b, sharedPrefixLen(a, b) + 1)

\* bytesComparer.Successor: a short key not below b.
uSuccessor(b) ==
    LET room == {i \in DOMAIN b : b[i] # MaxByte}
    IN  IF room = {} THEN <<>> ELSE <<Bumped(b, Min(room))>>

\* A shortened user key is taken only when it is shorter than u and above it;
\* it gets the earliest possible number.
Shortened(found, u) ==
    IF \E d \in ToSet(found) : Len(d) < Len(u) /\ uLess(u, d)
    THEN makeInternalKey(found[1], KeyMaxSeq, keyTypeSeek) ELSE NilKey

iSeparator(a, b) == Shortened(uSeparator(ukeyOf(a), ukeyOf(b)), ukeyOf(a))

iSuccessor(b) == Shortened(uSuccessor(ukeyOf(b)), ukeyOf(b))

\* sort.Search(n, P) for a monotone P: the least index from 0 at which P
\* holds, n when there is none.
Search(n, P(_)) ==
    Min({i \in 0 .. n - 1 : P(i)} \cup {n})

\* A range of keys as util.Range has it; the ends of a range of internal keys
\* are keys or NilKey.
WholeRange == [start |-> NilKey, limit |-> NilKey]

=============================================================================

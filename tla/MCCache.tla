------------------------------- MODULE MCCache -------------------------------
(* Small instances of Cache for TLC. *)
EXTENDS Cache, TLC

CONSTANTS t1, t2

TwoThreads == {t1, t2}
Symmetry == Permutations(TwoThreads)
TwoSpaces == [k \in Keys |-> k % 2]

=============================================================================

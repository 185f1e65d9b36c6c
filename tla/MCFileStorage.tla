---------------------------- MODULE MCFileStorage ----------------------------
(* Small instances of FileStorage for TLC. *)
EXTENDS FileStorage, TLC

CONSTANTS p1, p2

TwoProcs == {p1, p2}
Symmetry == Permutations(TwoProcs)

=============================================================================

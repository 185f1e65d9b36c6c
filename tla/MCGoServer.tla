----------------------------- MODULE MCGoServer -----------------------------
(* Small instances of GoServer for TLC. *)
EXTENDS GoServer, TLC

CONSTANTS a, b, r1, r2, j1, j2

\* Names without a comma: splitting a joined listing gives back the listing.
CommaFree == [n \in Name |-> {n}]

\* Requests are interchangeable, and so are refreshes (used for safety only).
Symmetry == Permutations(Req) \cup Permutations(Job)

AllEndpoints == Endpoint

=============================================================================

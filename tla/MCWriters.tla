------------------------------ MODULE MCWriters ------------------------------
(* Small instances of Writers for TLC. *)
EXTENDS Writers

CONSTANTS c1, c2, c3

Three == {c1, c2, c3}

\* Three writers; or one or two of them with a call of each other kind, and
\* Close with each.
MixedCalls ==
    [c \in Three |->
        IF c = c1 THEN {"put"}
        ELSE IF c = c2 THEN {"batch", "close"}
        ELSE {"put", "range", "readonly", "tx"}]

=============================================================================

------------------------------ MODULE MCLevelDb ------------------------------
(* Small instances of LevelDb for TLC. *)
EXTENDS LevelDb

\* Level 1 is full with a single entry, level 2 never is.
SmallLevels == <<1, 50, 50, 50>>

TwoKeys == 1 .. 2

\* A put, and a batch that deletes its key and puts the other one.
FewBatches == {<<<<1, "val">>>>, <<<<1, "del">>, <<2, "val">>>>}

=============================================================================

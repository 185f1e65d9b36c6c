------------------------------- MODULE Cursor -------------------------------
(***************************************************************************)
(* What an iterator over a database promises its caller: it is a cursor    *)
(* over one ordered list of keys with their values, fixed when the         *)
(* iterator was made, whatever is written meanwhile.  At 0 the cursor is   *)
(* before the list, at Len(view) + 1 past it.                              *)
(***************************************************************************)
EXTENDS Integers, InternalKeys

VARIABLES
    view,       \* the list of [key, value] in increasing order of keys
    call,       \* the last call and its key, if it has one
    pos,        \* the position, or one of the four below
    damaged     \* a block cannot be read and the reader is strict about it

Failed == -1
Released == -2
NoIterator == -3
Unsure == -4      \* on a pair, after an error that has not been told yet

cursorVars == <<view, call, pos, damaged>>

Init == pos = NoIterator /\ view = <<>> /\ call = <<"none">>

New == call' = <<"new">> /\ pos = NoIterator /\ pos' = 0

Moves(name, to) == call' = <<name>> /\ pos >= 0 /\ pos' = to /\ UNCHANGED view

First == Moves("first", 1)

Final == Moves("last", Len(view))

Seek ==
    /\ call'[1] = "seek"
    /\ pos >= 0
    /\ pos' = Search(Len(view), LAMBDA i : ~uLess(view[i + 1].key, call'[2])) + 1
    /\ UNCHANGED view

Forward == Moves("next", Min({pos + 1, Len(view) + 1}))

Back == Moves("prev", Max({pos - 1, 0}))

Release == call' = <<"release">> /\ pos # NoIterator /\ pos' = Released /\ UNCHANGED view

Asked == call'[1] \in {"first", "last", "seek", "next", "prev"}

\* An iterator that failed or was released answers nothing.
Refuse == pos \in {Failed, Released} /\ Asked /\ UNCHANGED <<view, pos>>

\* A strict reader stops at a block it cannot read.  On its way back it may
\* show one pair more, which need not be of the list, and fails then.
Fail == damaged /\ (pos >= 0 \/ pos = Unsure) /\ Asked /\ pos' = Failed /\ UNCHANGED view

FailLate ==
    /\ damaged /\ pos >= 0 /\ call'[1] \in {"last", "prev"}
    /\ pos' = Unsure
    /\ UNCHANGED view

Next ==
    /\ \/ New \/ First \/ Final \/ Seek \/ Forward \/ Back
       \/ Release \/ Refuse \/ Fail \/ FailLate
    /\ UNCHANGED damaged

Spec == Init /\ [][Next]_cursorVars

=============================================================================

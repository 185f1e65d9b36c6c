------------------------------ MODULE SvnInfo ------------------------------
(***************************************************************************)
(* The vocabulary of the Go server's store: what a key may hold.           *)
(*                                                                         *)
(* LevelDB has one key space.  The models keep three groups of keys apart: *)
(* the session token under "uuid", the directory listing under "AllFiles", *)
(* and one record per project under the project's name; Name stands for    *)
(* project names other than those two words.                               *)
(***************************************************************************)
CONSTANTS
    Name,       \* project names, as normalised by the handlers
    Token,      \* the UUIDs that Login may generate
    Data,       \* what a client may submit as a display name or a file text
    Time,       \* the readings of the wall clock
    NoInfo      \* "the key holds nothing"

\* The empty string: an unset field, and what reading a missing key yields.
Blank == ""

\* SvnInfo without the fields that no code reads back (remark, update_time)
\* and without file_name, which repeats the key.
Info == [cname : Data \cup {Blank}, ctime : Time \cup {Blank}]

\* What Index stores for a directory that has no record.
StubInfo == [cname |-> Blank, ctime |-> Blank]

\* Mutant of CtimeOf: a missing record leaves the creation time unset.
CtimeOrNothing(i) == IF i = NoInfo THEN NoInfo ELSE i.ctime

\* The creation time that an update of a record carries over.
CtimeOf(i) == IF i = NoInfo THEN Blank ELSE i.ctime

ASSUME VocabularyAssumption ==
    /\ Blank \notin Time /\ Blank \notin Data /\ Blank \notin Token
    /\ NoInfo \notin Info

=============================================================================

---------------------------- MODULE MCJavaServer ----------------------------
(***************************************************************************)
(* Constants for model checking the Java server.  Each instance switches   *)
(* on the requests and the failures that its question is about; ids run to *)
(* the number of rows that the instance needs.                             *)
(***************************************************************************)
EXTENDS JavaServer, TLC

CONSTANTS r1, r2, s1, root, lisy, wzr, f1, f2

\* The users in svnadmin.db: an administrator, an ordinary user and another
\* administrator.
Users == << [name |-> root, admin |-> TRUE,  active |-> TRUE],
            [name |-> lisy, admin |-> FALSE, active |-> TRUE],
            [name |-> wzr,  admin |-> TRUE,  active |-> TRUE] >>

OneUser == [i \in 1 .. 1 |-> Users[i]]
TwoUsers == [i \in 1 .. 2 |-> Users[i]]

\* Requests are alike, and so are directories.
Symmetry == Permutations(Req) \cup Permutations(File)

=============================================================================

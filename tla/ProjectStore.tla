---------------------------- MODULE ProjectStore ----------------------------
(***************************************************************************)
(* What the Go server promises about the contents of its LevelDB store,    *)
(* with no handles, goroutines or panics: every operation on the store is  *)
(* one indivisible step.                                                   *)
(***************************************************************************)
EXTENDS SvnInfo

VARIABLES
    token,      \* value of the key "uuid"; Blank when there is none
    files,      \* the names that the value of "AllFiles" splits into
    info        \* value of each project's key

store == <<token, files, info>>

StoreTypeOK ==
    /\ token \in Token \cup {Blank}
    /\ files \subseteq Name
    /\ info \in [Name -> Info \cup {NoInfo}]

StoreInit ==
    /\ token = Blank
    /\ files = {}
    /\ info = [n \in Name |-> NoInfo]

\* A login replaces the only session token there is.
SetToken(t) == token' = t /\ UNCHANGED <<files, info>>

\* The listing is replaced as a whole.
SetFiles(S) == files' = S /\ UNCHANGED <<token, info>>

\* A project is registered with the time of its creation.
Create(n, c, t) ==
    /\ info' = [info EXCEPT ![n] = [cname |-> c, ctime |-> t]]
    /\ UNCHANGED <<token, files>>

\* An update keeps the creation time that the record has now.
Update(n, c) ==
    /\ info' = [info EXCEPT ![n] = [cname |-> c, ctime |-> CtimeOf(info[n])]]
    /\ UNCHANGED <<token, files>>

\* A stub fills a hole; it never replaces a record.
Stub(n) ==
    /\ info[n] = NoInfo
    /\ info' = [info EXCEPT ![n] = StubInfo]
    /\ UNCHANGED <<token, files>>

Delete(n) ==
    /\ info' = [info EXCEPT ![n] = NoInfo]
    /\ UNCHANGED <<token, files>>

StoreNext ==
    \/ \E t \in Token : SetToken(t)
    \/ \E S \in SUBSET Name : SetFiles(S)
    \/ \E n \in Name, c \in Data, t \in Time : Create(n, c, t)
    \/ \E n \in Name, c \in Data \cup {Blank} : Update(n, c)
    \/ \E n \in Name : Stub(n) \/ Delete(n)

StoreSpec == StoreInit /\ [][StoreNext]_store

=============================================================================

-------------------------- MODULE JavaServerProofs --------------------------
(***************************************************************************)
(* Proofs about JavaServer, for any number of requests, sessions, users    *)
(* and projects.                                                           *)
(***************************************************************************)
EXTENDS JavaServer, TLAPS

Adding == {"add_check", "add_shell", "add_serve", "add_authz", "add_passwd",
           "add_insert"}
Editing == {"edit_authz", "edit_passwd", "edit_row"}
Deleting == {"del_select", "del_row", "del_dir"}
Purging == {"delUser_row", "purge_list", "purge"}

\* Local variables v fit a request that stands at l: what the rest of the
\* handler uses has been set.
Fits(l, v) ==
    /\ l \in Adding \cup Deleting \cup {"edit_select"} => v.s \in Session
    /\ l \in Adding \cup Deleting \cup Editing => v.file \in File
    /\ l \in Deleting \cup Editing \cup {"edit_select"} => v.id \in ProjectId
    /\ l \in {"editUser_row", "delUser_select", "delUser_row"} => v.id \in UserId
    /\ l \in Purging \cup {"addUser_check", "addUser_insert"} => v.name \in Login

LocalsFit == \A r \in Req : Fits(pc[r], loc[r])

\* TypeOK in two halves: the requests' control, and what they work on.
ControlOK ==
    /\ pc \in [Req -> Place]
    /\ loc \in [Req -> Locals]
    /\ LocalsFit

DataOK ==
    /\ user \in [UserId -> User \cup {None}]
    /\ project \in [ProjectId -> Project \cup {None}]
    /\ dir \in [File -> Directory \cup {None}]
    /\ session \in [Session -> Account \cup {None}]
    /\ shown \subseteq ProjectId \X File
    /\ confirmed \subseteq File
    /\ saved \in [File -> (SUBSET Login) \cup {None}]
    /\ former \in [Login -> {"no", "deleted", "purged"}]

TypeInv == ControlOK /\ DataOK

-----------------------------------------------------------------------------
(* How control moves *)

\* A thread that waits for a request needs no local variable.
LEMMA Idle == NoLocals \in Locals /\ "idle" \in Place /\ Fits("idle", NoLocals)
  BY DEF Locals, NoLocals, Place, Fits, Adding, Editing, Deleting, Purging

\* The end of a request keeps the control part of the invariant.
LEMMA Finished ==
  ASSUME ControlOK, NEW r \in Req, Finish(r)
  PROVE  ControlOK'
  BY Idle DEF ControlOK, Finish, Goto, LocalsFit

\* So does a move to a place that the new local variables fit.
LEMMA Moved ==
  ASSUME ControlOK, NEW r \in Req, NEW l \in Place, NEW v \in Locals,
         Goto(r, l), loc' = [loc EXCEPT ![r] = v], Fits(l, v)
  PROVE  ControlOK'
  BY DEF ControlOK, Goto, LocalsFit

\* And so does one that leaves the local variables alone.
LEMMA MovedOn ==
  ASSUME ControlOK, NEW r \in Req, NEW l \in Place,
         Goto(r, l), UNCHANGED loc, Fits(l, loc[r])
  PROVE  ControlOK'
  BY DEF ControlOK, Goto, LocalsFit

\* Assignments to local variables keep their types.
LEMMA Assigned ==
  ASSUME NEW v \in Locals
  PROVE  /\ \A f \in File : [v EXCEPT !.file = f] \in Locals
         /\ \A f \in File : [v EXCEPT !.row = f] \in Locals
         /\ \A l \in Login : [v EXCEPT !.name = l] \in Locals
         /\ \A T \in SUBSET Login : [v EXCEPT !.text = T] \in Locals
         /\ \A T \in SUBSET Item : [v EXCEPT !.todo = T] \in Locals
         /\ \A b \in BOOLEAN : [v EXCEPT !.clean = b] \in Locals
  BY DEF Locals

\* The parameters of a request that has just arrived are typed.
LEMMA Entered ==
  ASSUME NEW s \in Session
  PROVE  /\ \A f \in File : [NoLocals EXCEPT !.s = s, !.file = f] \in Locals
         /\ \A i \in UserId \cup ProjectId :
               [NoLocals EXCEPT !.s = s, !.id = i] \in Locals
         /\ \A i \in ProjectId, f \in File :
               [NoLocals EXCEPT !.s = s, !.id = i, !.file = f] \in Locals
         /\ \A l \in Login : [NoLocals EXCEPT !.s = s, !.name = l] \in Locals
  BY DEF Locals, NoLocals

\* Accepting a request keeps the control part of the invariant.
LEMMA ControlReceive ==
  ASSUME TypeInv, NEW r \in Req, Receive(r)
  PROVE  ControlOK'
<1> USE DEF Fits, Adding, Editing, Deleting, Purging
<1>a. ControlOK
  BY DEF TypeInv
<1> PICK s \in Session :
        \/ \E f \in File : AddStart(r, s, f)
        \/ \E i \in ProjectId : EditStart(r, s, i)
        \/ \E i \in ProjectId, f \in File : DelStart(r, s, i, f)
        \/ \E l \in Login : AddUserStart(r, s, l)
        \/ \E i \in UserId : EditUserStart(r, s, i) \/ DelUserStart(r, s, i)
  BY DEF Receive
<1>1. ASSUME NEW f \in File, AddStart(r, s, f) PROVE ControlOK'
  <2> DEFINE v == [NoLocals EXCEPT !.s = s, !.file = f]
  <2>1. v \in Locals /\ Fits("add_check", v) /\ "add_check" \in Place
    BY Entered DEF NoLocals, Place
  <2>2. Goto(r, "add_check") /\ loc' = [loc EXCEPT ![r] = v]
    BY <1>1 DEF AddStart, Enter
  <2>3. QED
    BY <1>a, <2>1, <2>2, Moved
<1>2. ASSUME NEW i \in ProjectId, EditStart(r, s, i) PROVE ControlOK'
  <2> DEFINE v == [NoLocals EXCEPT !.s = s, !.id = i]
  <2>1. v \in Locals /\ Fits("edit_select", v) /\ "edit_select" \in Place
    BY Entered DEF NoLocals, Place
  <2>2. Goto(r, "edit_select") /\ loc' = [loc EXCEPT ![r] = v]
    BY <1>2 DEF EditStart, Enter
  <2>3. QED
    BY <1>a, <2>1, <2>2, Moved
<1>3. ASSUME NEW i \in ProjectId, NEW f \in File, DelStart(r, s, i, f) PROVE ControlOK'
  <2> DEFINE v == [NoLocals EXCEPT !.s = s, !.id = i, !.file = f]
  <2>1. v \in Locals /\ Fits("del_select", v) /\ "del_select" \in Place
    BY Entered DEF NoLocals, Place
  <2>2. Goto(r, "del_select") /\ loc' = [loc EXCEPT ![r] = v]
    BY <1>3 DEF DelStart, Enter
  <2>3. QED
    BY <1>a, <2>1, <2>2, Moved
<1>4. ASSUME NEW l \in Login, AddUserStart(r, s, l) PROVE ControlOK'
  <2> DEFINE v == [NoLocals EXCEPT !.s = s, !.name = l]
  <2>1. v \in Locals /\ Fits("addUser_check", v) /\ "addUser_check" \in Place
    BY Entered DEF NoLocals, Place
  <2>2. Goto(r, "addUser_check") /\ loc' = [loc EXCEPT ![r] = v]
    BY <1>4 DEF AddUserStart, Enter
  <2>3. QED
    BY <1>a, <2>1, <2>2, Moved
<1>5. ASSUME NEW i \in UserId, EditUserStart(r, s, i) \/ DelUserStart(r, s, i)
      PROVE  ControlOK'
  <2> DEFINE v == [NoLocals EXCEPT !.s = s, !.id = i]
  <2>1. /\ v \in Locals
        /\ Fits("editUser_row", v) /\ "editUser_row" \in Place
        /\ Fits("delUser_select", v) /\ "delUser_select" \in Place
    BY Entered DEF NoLocals, Place
  <2>2. /\ Goto(r, "editUser_row") \/ Goto(r, "delUser_select")
        /\ loc' = [loc EXCEPT ![r] = v]
    BY <1>5 DEF EditUserStart, DelUserStart, Enter
  <2>3. QED
    BY <1>a, <2>1, <2>2, Moved
<1>6. QED
  BY <1>1, <1>2, <1>3, <1>4, <1>5

\* So does every step of a handler; DelDir also marks the Adds of others.
LEMMA ControlHandle ==
  ASSUME TypeInv, NEW r \in Req, Handle(r)
  PROVE  ControlOK'
<1> USE DEF Fits, Adding, Editing, Deleting, Purging, At
<1>a. /\ ControlOK /\ DataOK /\ loc[r] \in Locals /\ Fits(pc[r], loc[r])
      /\ pc \in [Req -> Place] /\ loc \in [Req -> Locals]
  BY DEF TypeInv, ControlOK, LocalsFit
<1>b. ASSUME NEW l \in Place, Goto(r, l), UNCHANGED loc, Fits(l, loc[r])
      PROVE  ControlOK'
  BY <1>a, <1>b, MovedOn
<1>c. ASSUME Finish(r) PROVE ControlOK'
  BY <1>a, <1>c, Finished
<1>d. ASSUME NEW l \in Place, NEW v \in Locals, Goto(r, l),
             loc' = [loc EXCEPT ![r] = v], Fits(l, v)
      PROVE  ControlOK'
  BY <1>a, <1>d, Moved
<1>1. CASE AddCheck(r)
  <2> DEFINE v == [loc[r] EXCEPT !.clean = TRUE]
  <2>1. CASE Finish(r)
    BY <2>1, <1>c
  <2>2. CASE Goto(r, "add_shell") /\ loc' = [loc EXCEPT ![r] = v]
    <3>1. v \in Locals /\ "add_shell" \in Place
      BY <1>a, Assigned DEF Place
    <3>2. Fits("add_shell", v)
      BY <1>a, <1>1 DEF AddCheck, Locals
    <3>3. QED
      BY <2>2, <3>1, <3>2, <1>d
  <2>3. QED
    BY <1>1, <2>1, <2>2 DEF AddCheck, Fail
<1>2. CASE AddShell(r) \/ AddServe(r) \/ AddAuthz(r) \/ AddPasswd(r)
  BY <1>2, <1>a, <1>b, <1>c
     DEF AddShell, AddServe, AddAuthz, AddPasswd, Fail, Place
<1>3. CASE AddInsert(r) \/ EditRow(r) \/ PurgeDone(r)
  BY <1>3, <1>c DEF AddInsert, EditRow, PurgeDone, Fail
<1>4. CASE (\E admin, active \in BOOLEAN :
               AddUserInsert(r, admin, active) \/ EditUserRow(r, admin, active))
  BY <1>4, <1>c DEF AddUserInsert, EditUserRow, Fail
<1>5. CASE EditSelect(r)
  <2> DEFINE v == [loc[r] EXCEPT !.file = project[loc[r].id].file]
  <2>1. CASE Finish(r)
    BY <2>1, <1>c
  <2>2. CASE /\ Allowed(loc[r].s, loc[r].id)
             /\ Goto(r, "edit_authz") /\ loc' = [loc EXCEPT ![r] = v]
    <3>1. loc[r].id \in ProjectId
      BY <1>a, <1>5 DEF EditSelect
    <3>2. project[loc[r].id] \in Project
      BY <1>a, <2>2, <3>1 DEF Allowed, DataOK
    <3>3. project[loc[r].id].file \in File
      BY <3>2 DEF Project
    <3>4. v \in Locals /\ "edit_authz" \in Place
      BY <1>a, <3>3, Assigned DEF Place
    <3>5. Fits("edit_authz", v)
      BY <1>a, <3>1, <3>3 DEF Locals
    <3>6. QED
      BY <2>2, <3>4, <3>5, <1>d
  <2>3. QED
    BY <1>5, <2>1, <2>2 DEF EditSelect, Fail
<1>6. CASE \E text \in SUBSET Grantee : EditAuthz(r, text)
  <2>1. PICK text \in SUBSET Grantee : EditAuthz(r, text)
    BY <1>6
  <2> DEFINE v == [loc[r] EXCEPT !.text = text]
  <2>2. v \in Locals /\ "edit_passwd" \in Place
    BY <1>a, Assigned, JavaAssumption DEF Place
  <2>3. Fits("edit_passwd", v)
    BY <1>a, <2>1 DEF EditAuthz, Locals
  <2>4. QED
    BY <2>1, <2>2, <2>3, <1>d DEF EditAuthz
<1>7. CASE EditPasswd(r) \/ DelSelect(r) \/ AddUserCheck(r)
  BY <1>7, <1>a, <1>b, <1>c DEF EditPasswd, DelSelect, AddUserCheck, Fail, Place
<1>8. CASE DelRow(r)
  <2> DEFINE v == [loc[r] EXCEPT !.row = project[loc[r].id].file]
  <2>1. CASE Finish(r)
    BY <2>1, <1>c
  <2>2. CASE /\ project[loc[r].id] # None
             /\ Goto(r, "del_dir") /\ loc' = [loc EXCEPT ![r] = v]
    <3>1. project[loc[r].id] \in Project
      BY <1>a, <1>8, <2>2 DEF DelRow, DataOK
    <3>2. project[loc[r].id].file \in File
      BY <3>1 DEF Project
    <3>3. v \in Locals /\ "del_dir" \in Place
      BY <1>a, <3>2, Assigned DEF Place
    <3>4. Fits("del_dir", v)
      BY <1>a, <1>8 DEF DelRow, Locals
    <3>5. QED
      BY <2>2, <3>3, <3>4, <1>d
  <2>3. QED
    BY <1>8, <2>1, <2>2 DEF DelRow, Fail
<1>9. CASE DelDir(r)
  <2> DEFINE f == loc[r].file
             v(q) == IF q = r THEN NoLocals
                     ELSE [loc[q] EXCEPT !.clean = @ /\ loc[q].file # f]
  <2>1. loc' = [q \in Req |-> v(q)] /\ pc' = [pc EXCEPT ![r] = "idle"]
    BY <1>9 DEF DelDir, Goto
  <2>2. ASSUME NEW q \in Req PROVE v(q) \in Locals /\ Fits(pc'[q], v(q))
    <3>1. CASE q = r
      BY <3>1, <1>a, <2>1, Idle
    <3>2. CASE q # r
      <4>1. loc[q] \in Locals /\ Fits(pc[q], loc[q]) /\ pc'[q] = pc[q]
        BY <3>2, <1>a, <2>1 DEF ControlOK, LocalsFit
      <4>2. (loc[q].clean /\ loc[q].file # f) \in BOOLEAN
        OBVIOUS
      <4>3. v(q) = [loc[q] EXCEPT !.clean = loc[q].clean /\ loc[q].file # f]
        BY <3>2
      <4>4. v(q) \in Locals
        BY <4>1, <4>2, <4>3, Assigned
      <4>5. Fits(pc[q], v(q))
        <5>1. /\ v(q).s = loc[q].s /\ v(q).file = loc[q].file
              /\ v(q).id = loc[q].id /\ v(q).name = loc[q].name
          BY <4>1, <4>3 DEF Locals
        <5>2. QED
          BY <4>1, <5>1
      <4>6. QED
        BY <4>1, <4>4, <4>5
    <3>3. QED
      BY <3>1, <3>2
  <2>3. pc' \in [Req -> Place]
    BY <1>a, <2>1 DEF Place
  <2>4. QED
    BY <2>1, <2>2, <2>3 DEF ControlOK, LocalsFit
<1>10. CASE DelUserSelect(r)
  <2> DEFINE v == [loc[r] EXCEPT !.name = user[loc[r].id].name]
  <2>1. CASE Finish(r)
    BY <2>1, <1>c
  <2>2. CASE /\ user[loc[r].id] # None
             /\ Goto(r, "delUser_row") /\ loc' = [loc EXCEPT ![r] = v]
    <3>1. user[loc[r].id] \in User
      BY <1>a, <1>10, <2>2 DEF DelUserSelect, DataOK
    <3>2. user[loc[r].id].name \in Login
      BY <3>1 DEF User
    <3>3. v \in Locals /\ "delUser_row" \in Place
      BY <1>a, <3>2, Assigned DEF Place
    <3>4. Fits("delUser_row", v)
      BY <1>a, <1>10, <3>2 DEF DelUserSelect, Locals
    <3>5. QED
      BY <2>2, <3>3, <3>4, <1>d
  <2>3. QED
    BY <1>10, <2>1, <2>2 DEF DelUserSelect, Fail
<1>11. CASE DelUserRow(r)
  BY <1>11, <1>a, <1>b, <1>c DEF DelUserRow, Fail, Place
<1>12. CASE PurgeList(r)
  <2> DEFINE T == {[id |-> i, file |-> project[i].file, auth |-> project[i].auth] :
                      i \in Rows(project)}
             v == [loc[r] EXCEPT !.todo = T]
  <2>1. ASSUME NEW i \in Rows(project)
        PROVE  [id |-> i, file |-> project[i].file, auth |-> project[i].auth] \in Item
    <3>1. i \in ProjectId /\ project[i] \in Project
      BY <1>a DEF DataOK, Rows
    <3>2. QED
      BY <3>1 DEF Project, Item
  <2>2. T \in SUBSET Item
    BY <2>1
  <2>3. v \in Locals /\ "purge" \in Place
    BY <1>a, <2>2, Assigned DEF Place
  <2>4. Fits("purge", v)
    BY <1>a, <1>12 DEF PurgeList, Locals
  <2>5. QED
    BY <1>12, <2>3, <2>4, <1>d DEF PurgeList
<1>13. CASE PurgeItem(r)
  <2>1. CASE Finish(r)
    BY <2>1, <1>c
  <2>2. CASE \E x \in loc[r].todo :
                /\ Goto(r, "purge")
                /\ loc' = [loc EXCEPT ![r] = [@ EXCEPT !.todo = Rest(loc[r].todo, x)]]
    <3>1. PICK x \in loc[r].todo :
                /\ Goto(r, "purge")
                /\ loc' = [loc EXCEPT ![r] = [@ EXCEPT !.todo = Rest(loc[r].todo, x)]]
      BY <2>2
    <3> DEFINE v == [loc[r] EXCEPT !.todo = Rest(loc[r].todo, x)]
    <3>2. Rest(loc[r].todo, x) \in SUBSET Item
      BY <1>a DEF Rest, Locals
    <3>3. v \in Locals /\ "purge" \in Place
      BY <1>a, <3>2, Assigned DEF Place
    <3>4. Fits("purge", v)
      BY <1>a, <1>13 DEF PurgeItem, Locals
    <3>5. loc' = [loc EXCEPT ![r] = v]
      BY <3>1
    <3>6. QED
      BY <3>1, <3>3, <3>4, <3>5, <1>d
  <2>3. QED
    BY <1>13, <2>1, <2>2 DEF PurgeItem, Fail
<1>14. QED
  BY <1>1, <1>2, <1>3, <1>4, <1>5, <1>6, <1>7, <1>8, <1>9, <1>10, <1>11, <1>12,
     <1>13 DEF Handle

-----------------------------------------------------------------------------
(* What the requests work on *)

\* mkdirs yields a directory.
LEMMA MadeDirs == \A d \in Directory \cup {None} : mkdirs(d) \in Directory
  BY DEF mkdirs, NoDirectory, Directory

\* Writing a file keeps the repository tree typed, failed writes included.
LEMMA Written ==
  ASSUME DataOK, NEW f \in File
  PROVE  /\ writeServe(f) => dir' \in [File -> Directory \cup {None}]
         /\ \A T \in SUBSET Login : writeAuthz(f, T) => dir' \in [File -> Directory \cup {None}]
         /\ writePasswd(f) => dir' \in [File -> Directory \cup {None}]
<1>1. dir \in [File -> Directory \cup {None}] /\ mkdirs(dir[f]) \in Directory
  BY MadeDirs DEF DataOK
<1>2. /\ \A b \in BOOLEAN : [mkdirs(dir[f]) EXCEPT !.closed = b] \in Directory
      /\ \A T \in SUBSET Login : [mkdirs(dir[f]) EXCEPT !.authz = T] \in Directory
  BY <1>1 DEF Directory
<1>3. writeServe(f) => dir' \in [File -> Directory \cup {None}]
  BY <1>1, <1>2 DEF writeServe
<1>4. ASSUME NEW T \in SUBSET Login, writeAuthz(f, T)
      PROVE  dir' \in [File -> Directory \cup {None}]
  <2>1. {} \in SUBSET Login
    OBVIOUS
  <2>2. QED
    BY <1>1, <1>2, <1>4, <2>1 DEF writeAuthz
<1>5. writePasswd(f) => dir' \in [File -> Directory \cup {None}]
  BY <1>1 DEF writePasswd
<1>6. QED
  BY <1>3, <1>4, <1>5

\* Every step of a handler keeps tables, tree, sessions and history typed.
LEMMA DataHandle ==
  ASSUME TypeInv, NEW r \in Req, Handle(r)
  PROVE  DataOK'
<1> USE DEF At
<1>a. /\ ControlOK /\ DataOK /\ loc[r] \in Locals /\ Fits(pc[r], loc[r])
  BY DEF TypeInv, ControlOK, LocalsFit
<1>b. ASSUME UNCHANGED <<tables, dir, session, history>> PROVE DataOK'
  BY <1>a, <1>b DEF DataOK, tables, history
<1>c. ASSUME UNCHANGED <<tables, session, history>>,
             dir' \in [File -> Directory \cup {None}]
      PROVE  DataOK'
  BY <1>a, <1>c DEF DataOK, tables, history
<1>1. CASE AddCheck(r) \/ EditSelect(r) \/ DelSelect(r) \/ AddUserCheck(r)
           \/ DelUserSelect(r) \/ PurgeList(r)
  BY <1>1, <1>b DEF AddCheck, EditSelect, DelSelect, AddUserCheck, DelUserSelect,
                    PurgeList, Fail
<1>2. CASE AddShell(r)
  <2>1. Created \in Directory
    BY DEF Created, Directory
  <2>2. CASE /\ dir' = [dir EXCEPT ![loc[r].file] = Created]
             /\ UNCHANGED <<tables, session, loc, history>>
    BY <1>a, <1>c, <2>1, <2>2 DEF DataOK
  <2>3. QED
    BY <1>2, <1>b, <2>2 DEF AddShell, Fail
<1>3. CASE AddServe(r) \/ AddAuthz(r) \/ AddPasswd(r) \/ EditPasswd(r)
  <2>1. loc[r].file \in File
    BY <1>a, <1>3 DEF Fits, Adding, Editing, AddServe, AddAuthz, AddPasswd, EditPasswd
  <2>2. {} \in SUBSET Login
    OBVIOUS
  <2>3. QED
    BY <1>a, <1>3, <1>c, <2>1, <2>2, Written DEF AddServe, AddAuthz, AddPasswd, EditPasswd
<1>4. CASE AddInsert(r)
  <2> DEFINE f == loc[r].file
             a == session[loc[r].s]
  <2>1. CASE Fail(r)
    BY <2>1, <1>b DEF Fail
  <2>2. CASE ~Fail(r)
    <3>1. f \in File /\ loc[r].s \in Session
      BY <1>a, <1>4 DEF AddInsert, Fits, Adding
    <3>2. /\ a # None
          /\ \E i \in ProjectId :
                /\ project' = [project EXCEPT ![i] =
                        [file |-> f, creator |-> a.id, auth |-> None]]
                /\ shown' = IF StalePages THEN shown \cup {<<i, f>>} ELSE shown
          /\ confirmed' = IF loc[r].clean THEN confirmed \cup {f} ELSE confirmed
          /\ UNCHANGED <<user, dir, session, saved, former>>
      BY <1>4, <2>2 DEF AddInsert
    <3>3. a \in Account
      BY <1>a, <3>1, <3>2 DEF DataOK
    <3>4. [file |-> f, creator |-> a.id, auth |-> None] \in Project
      BY <3>1, <3>3 DEF Project, Account
    <3>5. /\ project' \in [ProjectId -> Project \cup {None}]
          /\ shown' \subseteq ProjectId \X File
          /\ confirmed' \subseteq File
      BY <1>a, <3>1, <3>2, <3>4 DEF DataOK
    <3>6. QED
      BY <1>a, <3>2, <3>5 DEF DataOK
  <2>3. QED
    BY <2>1, <2>2
<1>5. CASE \E text \in SUBSET Grantee : EditAuthz(r, text)
  <2>1. PICK text \in SUBSET Grantee : EditAuthz(r, text)
    BY <1>5
  <2>2. loc[r].file \in File /\ text \in SUBSET Login
    BY <1>a, <2>1, JavaAssumption DEF Fits, Editing, EditAuthz
  <2>3. /\ dir' \in [File -> Directory \cup {None}]
        /\ saved' = [saved EXCEPT ![loc[r].file] = None]
        /\ former' = [l \in Login |-> IF l \in text THEN "no" ELSE former[l]]
        /\ UNCHANGED <<tables, session, shown, confirmed>>
    BY <1>a, <2>1, <2>2, Written DEF EditAuthz
  <2>4. QED
    BY <1>a, <2>3 DEF DataOK, tables
<1>6. CASE EditRow(r)
  <2> DEFINE i == loc[r].id
  <2>1. CASE Fail(r)
    BY <2>1, <1>b DEF Fail
  <2>2. CASE ~Fail(r)
    <3>1. /\ project[i] # None
          /\ project' = [project EXCEPT ![i] = [@ EXCEPT !.auth = loc[r].text]]
          /\ saved' = [saved EXCEPT ![loc[r].file] = loc[r].text]
          /\ UNCHANGED <<user, dir, session, shown, confirmed, former>>
      BY <1>6, <2>2 DEF EditRow
    <3>2. i \in ProjectId /\ loc[r].text \in SUBSET Login
      BY <1>a, <1>6 DEF EditRow, Fits, Editing, Locals
    <3>3. project[i] \in Project
      BY <1>a, <3>1, <3>2 DEF DataOK
    <3>4. [project[i] EXCEPT !.auth = loc[r].text] \in Project
      BY <3>2, <3>3 DEF Project
    <3>5. /\ project' \in [ProjectId -> Project \cup {None}]
          /\ saved' \in [File -> (SUBSET Login) \cup {None}]
      BY <1>a, <3>1, <3>2, <3>4 DEF DataOK
    <3>6. QED
      BY <1>a, <3>1, <3>5 DEF DataOK
  <2>3. QED
    BY <2>1, <2>2
<1>7. CASE DelRow(r)
  BY <1>7, <1>a, <1>b DEF DelRow, Fail, DataOK, history
<1>8. CASE DelDir(r)
  <2>1. loc[r].file \in File
    BY <1>a, <1>8 DEF DelDir, Fits, Deleting
  <2>2. ASSUME dir[loc[r].file] # None
        PROVE  Leftovers(dir[loc[r].file]) \subseteq Directory
    <3>1. dir[loc[r].file] \in Directory
      BY <1>a, <2>1, <2>2 DEF DataOK
    <3>2. QED
      BY <3>1 DEF Leftovers, Directory
  <2>3. dir' \in [File -> Directory \cup {None}]
    BY <1>a, <1>8, <2>1, <2>2 DEF DelDir, DataOK
  <2>4. QED
    BY <1>a, <1>8, <2>3 DEF DelDir, DataOK, tables
<1>9. CASE \E admin, active \in BOOLEAN : AddUserInsert(r, admin, active)
  <2>1. PICK admin \in BOOLEAN, active \in BOOLEAN : AddUserInsert(r, admin, active)
    BY <1>9
  <2> DEFINE l == loc[r].name
             u == [name |-> l, admin |-> admin, active |-> active]
  <2>2. CASE Fail(r)
    BY <2>2, <1>b DEF Fail
  <2>3. CASE ~Fail(r)
    <3>1. l \in Login
      BY <1>a, <2>1 DEF AddUserInsert, Fits
    <3>2. u \in User
      BY <3>1 DEF User
    <3>3. /\ \E i \in UserId : user' = [user EXCEPT ![i] = u]
          /\ former' = [former EXCEPT ![l] = "no"]
          /\ UNCHANGED <<project, dir, session, shown, confirmed, saved>>
      BY <2>1, <2>3 DEF AddUserInsert
    <3>4. QED
      BY <1>a, <3>1, <3>2, <3>3 DEF DataOK
  <2>4. QED
    BY <2>2, <2>3
<1>10. CASE \E admin, active \in BOOLEAN : EditUserRow(r, admin, active)
  <2>1. PICK admin \in BOOLEAN, active \in BOOLEAN : EditUserRow(r, admin, active)
    BY <1>10
  <2> DEFINE i == loc[r].id
  <2>2. CASE Fail(r)
    BY <2>2, <1>b DEF Fail
  <2>3. CASE ~Fail(r)
    <3>1. /\ user[i] # None
          /\ user' = [user EXCEPT ![i] = [@ EXCEPT !.admin = admin, !.active = active]]
          /\ UNCHANGED <<project, dir, session, history>>
      BY <2>1, <2>3 DEF EditUserRow
    <3>2. user[i] \in User
      BY <1>a, <2>1, <3>1 DEF EditUserRow, Fits, DataOK
    <3>3. [user[i] EXCEPT !.admin = admin, !.active = active] \in User
      BY <3>2 DEF User
    <3>4. QED
      BY <1>a, <3>1, <3>3 DEF DataOK, history
  <2>4. QED
    BY <2>2, <2>3
<1>11. CASE DelUserRow(r)
  <2>1. CASE Fail(r)
    BY <2>1, <1>b DEF Fail
  <2>2. CASE ~Fail(r)
    BY <1>a, <1>11, <2>2 DEF DelUserRow, DataOK
  <2>3. QED
    BY <2>1, <2>2
<1>12. CASE PurgeItem(r)
  <2>1. CASE Fail(r)
    BY <2>1, <1>b DEF Fail
  <2>2. CASE ~Fail(r)
    <3>1. PICK x \in loc[r].todo :
            /\ x.auth # None
            /\ \/ /\ writeAuthz(x.file, getNonBlankStr(x.auth, loc[r].name))
                  /\ saved' = [saved EXCEPT ![x.file] = None]
               \/ UNCHANGED <<dir, saved>>
            /\ UNCHANGED <<tables, session, shown, confirmed, former>>
      BY <1>12, <2>2 DEF PurgeItem
    <3>2. x \in Item
      BY <1>a DEF Locals
    <3>3. x.file \in File /\ getNonBlankStr(x.auth, loc[r].name) \in SUBSET Login
      BY <3>1, <3>2 DEF Item, getNonBlankStr
    <3>4. /\ dir' \in [File -> Directory \cup {None}]
          /\ saved' \in [File -> (SUBSET Login) \cup {None}]
      BY <1>a, <3>1, <3>3, Written DEF DataOK
    <3>5. QED
      BY <1>a, <3>1, <3>4 DEF DataOK, tables
  <2>3. QED
    BY <2>1, <2>2
<1>13. CASE PurgeDone(r)
  BY <1>a, <1>13 DEF PurgeDone, DataOK, tables
<1>14. QED
  BY <1>1, <1>2, <1>3, <1>4, <1>5, <1>6, <1>7, <1>8, <1>9, <1>10, <1>11, <1>12,
     <1>13 DEF Handle

\* The database that comes with the server is typed.
LEMMA TypeInvInit == Init => TypeInv
<1> SUFFICES ASSUME Init PROVE TypeInv
  OBVIOUS
<1>1. ControlOK
  BY Idle DEF Init, ControlOK, LocalsFit
<1>2. user \in [UserId -> User \cup {None}]
  BY JavaAssumption DEF Init
<1>3. DataOK
  BY <1>2 DEF Init, DataOK
<1>4. QED
  BY <1>1, <1>3 DEF TypeInv

\* TypeInv is inductive.
LEMMA TypeInvStep == TypeInv /\ [Next]_vars => TypeInv'
<1> SUFFICES ASSUME TypeInv, [Next]_vars PROVE TypeInv'
  OBVIOUS
<1>1. ASSUME NEW r \in Req, Receive(r) PROVE TypeInv'
  <2>1. UNCHANGED <<tables, dir, session, history>>
    BY <1>1 DEF Receive, AddStart, EditStart, DelStart, AddUserStart,
                EditUserStart, DelUserStart
  <2>2. QED
    BY <1>1, <2>1, ControlReceive DEF TypeInv, DataOK, tables, history
<1>2. ASSUME NEW r \in Req, Handle(r) PROVE TypeInv'
  BY <1>2, ControlHandle, DataHandle DEF TypeInv
<1>3. ASSUME NEW s \in Session, LogOut(s) PROVE TypeInv'
  BY <1>3 DEF LogOut, TypeInv, ControlOK, DataOK, LocalsFit, tables, history
<1>4. ASSUME NEW s \in Session, NEW i \in UserId, DoLogin(s, i) PROVE TypeInv'
  <2>1. user[i] \in User
    BY <1>4 DEF DoLogin, TypeInv, DataOK
  <2>2. [id |-> i, admin |-> user[i].admin] \in Account
    BY <2>1 DEF User, Account
  <2>3. QED
    BY <1>4, <2>2 DEF DoLogin, TypeInv, ControlOK, DataOK, LocalsFit, tables, history
<1>5. CASE Restart
  BY <1>5, Idle DEF Restart, TypeInv, ControlOK, DataOK, LocalsFit, tables, history
<1>6. CASE UNCHANGED vars
  BY <1>6 DEF vars, TypeInv, ControlOK, DataOK, LocalsFit, tables, history
<1>7. QED
  BY <1>1, <1>2, <1>3, <1>4, <1>5, <1>6 DEF Next

\* The Java server's state is well typed, whatever the number of requests:
\* every handler finds in its local variables what its next step uses.
THEOREM TypeCorrect == Spec => []TypeOK
<1>1. TypeInv => TypeOK
  BY DEF TypeInv, ControlOK, DataOK, TypeOK
<1>2. QED
  BY <1>1, TypeInvInit, TypeInvStep, PTL DEF Spec

-----------------------------------------------------------------------------
(* The tables *)

ProjectsApart ==
    \A i, j \in Rows(project) : project[i].file = project[j].file => i = j

UsersApart ==
    \A i, j \in Rows(user) : user[i].name = user[j].name => i = j

\* Only AddInsert gives a project a directory, and only one that no row has.
LEMMA ProjectsApartStep ==
  ASSUME TypeInv, ProjectsApart, NEW r \in Req, Handle(r)
  PROVE  ProjectsApart'
<1>a. project \in [ProjectId -> Project \cup {None}]
  BY DEF TypeInv, DataOK
<1>b. ASSUME UNCHANGED project PROVE ProjectsApart'
  BY <1>b DEF ProjectsApart, Rows
<1>1. CASE AddInsert(r)
  <2>1. CASE UNCHANGED project
    BY <2>1, <1>b
  <2>2. CASE project' # project
    <3> DEFINE f == loc[r].file
               p == [file |-> f, creator |-> session[loc[r].s].id, auth |-> None]
    <3>1. PICK i \in ProjectId : project' = [project EXCEPT ![i] = p]
      BY <1>1, <2>2 DEF AddInsert, Fail, tables
    <3>2. ~FileTaken(f)
      BY <1>1, <2>2 DEF AddInsert, Fail, tables
    <3>3. p.file = f
      OBVIOUS
    <3>4. QED
      BY <1>a, <3>1, <3>2, <3>3 DEF ProjectsApart, Rows, FileTaken
  <2>3. QED
    BY <2>1, <2>2
<1>2. CASE EditRow(r)
  <2>1. CASE UNCHANGED project
    BY <2>1, <1>b
  <2>2. CASE project' # project
    <3> DEFINE i == loc[r].id
    <3>1. /\ i \in ProjectId
          /\ project[i] # None
          /\ project' = [project EXCEPT ![i] = [project[i] EXCEPT !.auth = loc[r].text]]
      BY <1>2, <2>2 DEF EditRow, Fail, tables, TypeInv, ControlOK, LocalsFit, Fits,
                        Editing, At
    <3>2. project[i] \in Project
      BY <1>a, <3>1
    <3>3. [project[i] EXCEPT !.auth = loc[r].text].file = project[i].file
      BY <3>2 DEF Project
    <3>4. \A j \in Rows(project)' : j \in Rows(project) /\ project'[j].file = project[j].file
      BY <1>a, <3>1, <3>3 DEF Rows
    <3>5. QED
      BY <3>4 DEF ProjectsApart
  <2>3. QED
    BY <2>1, <2>2
<1>3. CASE DelRow(r)
  <2>1. CASE UNCHANGED project
    BY <2>1, <1>b
  <2>2. CASE project' # project
    <3>1. project' = [project EXCEPT ![loc[r].id] = None]
      BY <1>3, <2>2 DEF DelRow, Fail, tables
    <3>2. \A j \in Rows(project)' : j \in Rows(project) /\ project'[j] = project[j]
      BY <1>a, <3>1 DEF Rows
    <3>3. QED
      BY <3>2 DEF ProjectsApart
  <2>3. QED
    BY <2>1, <2>2
<1>4. CASE ~AddInsert(r) /\ ~EditRow(r) /\ ~DelRow(r)
  <2>1. UNCHANGED project
    BY <1>4 DEF Handle, AddCheck, AddShell, AddServe, AddAuthz, AddPasswd, EditSelect,
                EditAuthz, EditPasswd, DelSelect, DelDir, AddUserCheck, AddUserInsert,
                EditUserRow, DelUserSelect, DelUserRow, PurgeList, PurgeItem, PurgeDone,
                Fail, tables
  <2>2. QED
    BY <2>1, <1>b
<1>5. QED
  BY <1>1, <1>2, <1>3, <1>4

\* The same for logins and AddUserInsert.
LEMMA UsersApartStep ==
  ASSUME TypeInv, UsersApart, NEW r \in Req, Handle(r)
  PROVE  UsersApart'
<1>a. user \in [UserId -> User \cup {None}]
  BY DEF TypeInv, DataOK
<1>b. ASSUME UNCHANGED user PROVE UsersApart'
  BY <1>b DEF UsersApart, Rows
<1>1. ASSUME NEW admin \in BOOLEAN, NEW active \in BOOLEAN,
             AddUserInsert(r, admin, active), user' # user
      PROVE  UsersApart'
  <2> DEFINE l == loc[r].name
             u == [name |-> l, admin |-> admin, active |-> active]
  <2>1. PICK i \in UserId : user' = [user EXCEPT ![i] = u]
    BY <1>1 DEF AddUserInsert, Fail, tables
  <2>2. ~NameTaken(l)
    BY <1>1 DEF AddUserInsert, Fail, tables
  <2>3. u.name = l
    OBVIOUS
  <2>4. QED
    BY <1>a, <2>1, <2>2, <2>3 DEF UsersApart, Rows, NameTaken, HasName
<1>2. ASSUME NEW admin \in BOOLEAN, NEW active \in BOOLEAN,
             EditUserRow(r, admin, active), user' # user
      PROVE  UsersApart'
  <2> DEFINE i == loc[r].id
             u == [user[i] EXCEPT !.admin = admin, !.active = active]
  <2>1. i \in UserId /\ user[i] # None /\ user' = [user EXCEPT ![i] = u]
    BY <1>2 DEF EditUserRow, Fail, tables, TypeInv, ControlOK, LocalsFit, Fits, At
  <2>2. user[i] \in User
    BY <1>a, <2>1
  <2>3. u.name = user[i].name
    BY <2>2 DEF User
  <2>4. \A j \in Rows(user)' : j \in Rows(user) /\ user'[j].name = user[j].name
    BY <1>a, <2>1, <2>3 DEF Rows
  <2>5. QED
    BY <2>4 DEF UsersApart
<1>3. ASSUME DelUserRow(r), user' # user PROVE UsersApart'
  <2>1. user' = [user EXCEPT ![loc[r].id] = None]
    BY <1>3 DEF DelUserRow, Fail, tables
  <2>2. \A j \in Rows(user)' : j \in Rows(user) /\ user'[j] = user[j]
    BY <1>a, <2>1 DEF Rows
  <2>3. QED
    BY <2>2 DEF UsersApart
<1>4. ASSUME user' # user
      PROVE  \/ \E admin, active \in BOOLEAN :
                    AddUserInsert(r, admin, active) \/ EditUserRow(r, admin, active)
             \/ DelUserRow(r)
  BY <1>4 DEF Handle, AddCheck, AddShell, AddServe, AddAuthz, AddPasswd, AddInsert,
              EditSelect, EditAuthz, EditPasswd, EditRow, DelSelect, DelRow, DelDir,
              AddUserCheck, DelUserSelect, PurgeList, PurgeItem, PurgeDone, Fail, tables
<1>5. QED
  BY <1>b, <1>1, <1>2, <1>3, <1>4

\* No two projects share a repository directory and no two users a login,
\* however many requests pass the checks of addProject and addUser at once:
\* what counts is that the INSERT itself refuses a name that is taken.
THEOREM RowsUnique == Spec => []RowsApart
<1> DEFINE Inv == TypeInv /\ ProjectsApart /\ UsersApart
<1>1. Init => Inv
  <2> SUFFICES ASSUME Init PROVE ProjectsApart /\ UsersApart
    BY TypeInvInit
  <2>1. ProjectsApart
    BY DEF Init, ProjectsApart, Rows
  <2>2. \A i \in Rows(user) : i \in DOMAIN Shipped /\ user[i] = Shipped[i]
    BY DEF Init, Rows
  <2>3. UsersApart
    BY <2>2, JavaAssumption DEF UsersApart
  <2>4. QED
    BY <2>1, <2>3
<1>2. Inv /\ [Next]_vars => Inv'
  <2> SUFFICES ASSUME Inv, [Next]_vars PROVE ProjectsApart' /\ UsersApart'
    BY TypeInvStep
  <2>1. ASSUME NEW r \in Req, Handle(r) PROVE ProjectsApart' /\ UsersApart'
    BY <2>1, ProjectsApartStep, UsersApartStep
  <2>2. CASE UNCHANGED tables
    BY <2>2 DEF tables, ProjectsApart, UsersApart, Rows
  <2>3. QED
    BY <2>1, <2>2 DEF Next, Receive, AddStart, EditStart, DelStart, AddUserStart,
                      EditUserStart, DelUserStart, LogOut, DoLogin, Restart, vars
<1>3. Inv => RowsApart
  BY DEF ProjectsApart, UsersApart, RowsApart
<1>4. QED
  BY <1>1, <1>2, <1>3, PTL DEF Spec

-----------------------------------------------------------------------------
(* Closed directories *)

Shut(f) == dir[f] # None /\ dir[f].closed

Wrote == {"add_authz", "add_passwd", "add_insert"}

\* Between its write of svnserve.conf and its INSERT, an Add finds the file
\* in place unless somebody has deleted the directory in the meantime.
AddProgress ==
    \A r \in Req : pc[r] \in Wrote /\ loc[r].clean => Shut(loc[r].file)

ClosedInv == TypeInv /\ AddProgress /\ ConfirmedClosed

\* No step but a deletion opens a directory that is closed, as long as files
\* can be written: svnadmin refuses the directory, and the other files are
\* written beside svnserve.conf.
LEMMA StaysShut ==
  ASSUME TypeInv, "write" \notin Faults, NEW r \in Req, Handle(r), ~DelDir(r),
         NEW g \in File, Shut(g)
  PROVE  Shut(g)'
<1>a. /\ dir \in [File -> Directory \cup {None}]
      /\ loc[r] \in Locals /\ Fits(pc[r], loc[r])
  BY DEF TypeInv, ControlOK, DataOK, LocalsFit
<1>b. dir[g] \in Directory /\ mkdirs(dir[g]) = dir[g]
  BY <1>a DEF Shut, mkdirs
<1>c. ASSUME UNCHANGED dir PROVE Shut(g)'
  BY <1>c DEF Shut
<1>1. ASSUME NEW f \in File, writeServe(f) PROVE Shut(g)'
  <2>1. [dir[g] EXCEPT !.closed = TRUE] \in Directory
    BY <1>b DEF Directory
  <2>2. [dir[g] EXCEPT !.closed = TRUE].closed
    BY <1>b DEF Directory
  <2>3. dir'[g] = IF f = g THEN [dir[g] EXCEPT !.closed = TRUE] ELSE dir[g]
    BY <1>a, <1>b, <1>1 DEF writeServe
  <2>4. QED
    BY <2>1, <2>2, <2>3, JavaAssumption DEF Shut
<1>2. ASSUME NEW f \in File, NEW T \in SUBSET Login, writeAuthz(f, T) PROVE Shut(g)'
  <2>1. [dir[g] EXCEPT !.authz = T] \in Directory
    BY <1>b DEF Directory
  <2>2. [dir[g] EXCEPT !.authz = T].closed = dir[g].closed
    BY <1>b DEF Directory
  <2>3. dir'[g] = IF f = g THEN [dir[g] EXCEPT !.authz = T] ELSE dir[g]
    BY <1>a, <1>b, <1>2 DEF writeAuthz
  <2>4. QED
    BY <2>1, <2>2, <2>3, JavaAssumption DEF Shut
<1>3. ASSUME NEW f \in File, writePasswd(f) PROVE Shut(g)'
  <2>1. dir'[g] = dir[g]
    BY <1>a, <1>b, <1>3 DEF writePasswd
  <2>2. QED
    BY <2>1 DEF Shut
<1>4. CASE AddShell(r)
  <2>1. CASE dir[loc[r].file] = None /\ dir' = [dir EXCEPT ![loc[r].file] = Created]
    BY <1>a, <2>1 DEF Shut
  <2>2. QED
    BY <1>4, <1>c, <2>1 DEF AddShell, Fail
<1>5. CASE AddServe(r) \/ AddAuthz(r) \/ AddPasswd(r) \/ EditPasswd(r)
  <2>1. loc[r].file \in File
    BY <1>a, <1>5 DEF Fits, Adding, Editing, AddServe, AddAuthz, AddPasswd,
                      EditPasswd, At
  <2>2. {} \in SUBSET Login
    OBVIOUS
  <2>3. QED
    BY <1>5, <1>1, <1>2, <1>3, <2>1, <2>2
       DEF AddServe, AddAuthz, AddPasswd, EditPasswd
<1>6. CASE \E text \in SUBSET Grantee : EditAuthz(r, text)
  <2>1. PICK text \in SUBSET Grantee : EditAuthz(r, text)
    BY <1>6
  <2>2. loc[r].file \in File /\ text \in SUBSET Login
    BY <1>a, <2>1, JavaAssumption DEF Fits, Editing, EditAuthz, At
  <2>3. QED
    BY <2>1, <2>2, <1>2 DEF EditAuthz
<1>7. CASE PurgeItem(r)
  <2>1. CASE UNCHANGED dir
    BY <2>1, <1>c
  <2>2. CASE dir' # dir
    <3>1. PICK x \in loc[r].todo :
            x.auth # None /\ writeAuthz(x.file, getNonBlankStr(x.auth, loc[r].name))
      BY <1>7, <2>2 DEF PurgeItem, Fail
    <3>2. x \in Item
      BY <1>a DEF Locals
    <3>3. x.file \in File /\ getNonBlankStr(x.auth, loc[r].name) \in SUBSET Login
      BY <3>1, <3>2 DEF Item, getNonBlankStr
    <3>4. QED
      BY <3>1, <3>3, <1>2
  <2>3. QED
    BY <2>1, <2>2
<1>8. CASE ~( \/ AddShell(r) \/ AddServe(r) \/ AddAuthz(r) \/ AddPasswd(r)
              \/ EditPasswd(r) \/ (\E text \in SUBSET Grantee : EditAuthz(r, text))
              \/ PurgeItem(r) )
  BY <1>8, <1>c DEF Handle, AddCheck, AddInsert, EditSelect, EditRow, DelSelect,
                    DelRow, AddUserCheck, AddUserInsert, EditUserRow, DelUserSelect,
                    DelUserRow, PurgeList, PurgeDone, Fail
<1>9. QED
  BY <1>4, <1>5, <1>6, <1>7, <1>8

\* A handler moves its own request only, and is past the write of
\* svnserve.conf after AddServe, AddAuthz and AddPasswd only.
LEMMA OwnControl ==
  ASSUME TypeInv, NEW r \in Req, Handle(r), ~DelDir(r)
  PROVE  /\ \A q \in Req \ {r} : pc'[q] = pc[q] /\ loc'[q] = loc[q]
         /\ pc'[r] \in Wrote =>
                /\ AddServe(r) \/ AddAuthz(r) \/ AddPasswd(r)
                /\ UNCHANGED loc
<1>a. pc \in [Req -> Place] /\ loc \in [Req -> Locals]
  BY DEF TypeInv, ControlOK
<1>1. CASE AddServe(r) \/ AddAuthz(r) \/ AddPasswd(r)
  BY <1>a, <1>1 DEF AddServe, AddAuthz, AddPasswd, Goto
<1>2. CASE ~(AddServe(r) \/ AddAuthz(r) \/ AddPasswd(r))
  <2>1. /\ \A q \in Req \ {r} : pc'[q] = pc[q] /\ loc'[q] = loc[q]
        /\ pc'[r] \notin Wrote
    <3>1. \E l : l \notin Wrote /\ pc' = [pc EXCEPT ![r] = l]
      BY <1>2 DEF Handle, AddCheck, AddShell, AddInsert, EditSelect, EditAuthz,
            EditPasswd, EditRow, DelSelect, DelRow, AddUserCheck, AddUserInsert,
            EditUserRow, DelUserSelect, DelUserRow, PurgeList, PurgeItem, PurgeDone,
            Fail, Finish, Goto, Wrote
    <3>2. UNCHANGED loc \/ \E v : loc' = [loc EXCEPT ![r] = v]
      BY <1>2 DEF Handle, AddCheck, AddShell, AddInsert, EditSelect, EditAuthz,
            EditPasswd, EditRow, DelSelect, DelRow, AddUserCheck, AddUserInsert,
            EditUserRow, DelUserSelect, DelUserRow, PurgeList, PurgeItem, PurgeDone,
            Fail, Finish
    <3>3. QED
      BY <1>a, <3>1, <3>2
  <2>2. QED
    BY <2>1
<1>3. QED
  BY <1>1, <1>2

\* Every step keeps the invariant.
LEMMA ClosedStep ==
  ASSUME "write" \notin Faults, ClosedInv, [Next]_vars
  PROVE  AddProgress' /\ ConfirmedClosed'
<1>a. TypeInv /\ AddProgress /\ ConfirmedClosed
  BY DEF ClosedInv
<1>b. /\ dir \in [File -> Directory \cup {None}] /\ confirmed \subseteq File
      /\ pc \in [Req -> Place] /\ loc \in [Req -> Locals]
  BY <1>a DEF TypeInv, ControlOK, DataOK
<1>c. \A q \in Req : pc[q] \in Adding \cup Deleting => loc[q].file \in File
  BY <1>a DEF TypeInv, ControlOK, LocalsFit, Fits
<1>1. ASSUME NEW r \in Req, Handle(r), ~DelDir(r)
      PROVE  AddProgress' /\ ConfirmedClosed'
  <2>1. \A g \in File : Shut(g) => Shut(g)'
    BY <1>a, <1>1, StaysShut
  <2>2. ASSUME NEW q \in Req, pc'[q] \in Wrote, loc'[q].clean
        PROVE  Shut(loc[q].file)'
    <3>1. CASE q # r
      <4>1. pc'[q] = pc[q] /\ loc'[q] = loc[q]
        BY <1>a, <1>1, <3>1, OwnControl
      <4>2. loc[q].file \in File /\ Shut(loc[q].file)
        BY <1>a, <1>c, <2>2, <4>1 DEF AddProgress, Wrote, Adding
      <4>3. QED
        BY <2>1, <4>1, <4>2 DEF Shut
    <3>2. CASE q = r
      <4>1. /\ AddServe(r) \/ AddAuthz(r) \/ AddPasswd(r)
            /\ loc'[r] = loc[r]
        BY <1>a, <1>1, <2>2, <3>2, OwnControl
      <4> DEFINE f == loc[r].file
      <4>2. f \in File
        BY <1>c, <4>1 DEF AddServe, AddAuthz, AddPasswd, At, Adding
      <4>3. CASE AddServe(r)
        <5> DEFINE d == [mkdirs(dir[f]) EXCEPT !.closed = TRUE]
        <5>1. mkdirs(dir[f]) \in Directory
          BY <1>b, <4>2, MadeDirs
        <5>2. d \in Directory /\ d.closed
          BY <5>1 DEF Directory
        <5>3. dir'[f] = d
          BY <1>b, <4>2, <4>3 DEF AddServe, writeServe
        <5>4. QED
          BY <3>2, <4>1, <5>2, <5>3, JavaAssumption DEF Shut
      <4>4. CASE AddAuthz(r) \/ AddPasswd(r)
        <5>1. pc[r] \in Wrote /\ loc[r].clean
          BY <2>2, <3>2, <4>1, <4>4 DEF AddAuthz, AddPasswd, At, Wrote
        <5>2. Shut(f)
          BY <1>a, <5>1 DEF AddProgress
        <5>3. QED
          BY <2>1, <3>2, <4>1, <4>2, <5>2 DEF Shut
      <4>5. QED
        BY <4>1, <4>3, <4>4
    <3>3. QED
      BY <3>1, <3>2
  <2>3. ASSUME NEW g \in confirmed' PROVE g \in File /\ Shut(g)
    <3>1. CASE g \in confirmed
      BY <1>a, <1>b, <3>1 DEF ConfirmedClosed, Shut
    <3>2. CASE g \notin confirmed
      <4>1. AddInsert(r) /\ loc[r].clean /\ g = loc[r].file
        BY <1>1, <2>3, <3>2 DEF Handle, AddCheck, AddShell, AddServe, AddAuthz,
              AddPasswd, AddInsert, EditSelect, EditAuthz, EditPasswd, EditRow,
              DelSelect, DelRow, AddUserCheck, AddUserInsert, EditUserRow,
              DelUserSelect, DelUserRow, PurgeList, PurgeItem, PurgeDone, Fail, history
      <4>2. pc[r] \in Wrote /\ pc[r] \in Adding
        BY <4>1 DEF AddInsert, At, Wrote, Adding
      <4>3. QED
        BY <1>a, <1>c, <4>1, <4>2 DEF AddProgress
    <3>3. QED
      BY <3>1, <3>2
  <2>4. AddProgress'
    BY <2>2 DEF AddProgress
  <2>5. ConfirmedClosed'
    BY <2>1, <2>3 DEF ConfirmedClosed, Shut
  <2>6. QED
    BY <2>4, <2>5
<1>2. ASSUME NEW r \in Req, DelDir(r) PROVE AddProgress' /\ ConfirmedClosed'
  <2> DEFINE f == loc[r].file
  <2>1. f \in File
    BY <1>c, <1>2 DEF DelDir, At, Deleting
  <2>2. \A g \in File : g # f => dir'[g] = dir[g]
    BY <1>b, <1>2, <2>1 DEF DelDir
  <2>3. ConfirmedClosed'
    BY <1>a, <1>b, <1>2, <2>2 DEF DelDir, ConfirmedClosed
  <2>4. ASSUME NEW q \in Req, pc'[q] \in Wrote, loc'[q].clean
        PROVE  Shut(loc[q].file)'
    <3>1. q # r /\ pc'[q] = pc[q]
      BY <1>b, <1>2, <2>4 DEF DelDir, Goto, Wrote
    <3>2. loc'[q] = [loc[q] EXCEPT !.clean = loc[q].clean /\ loc[q].file # f]
      BY <1>2, <3>1 DEF DelDir
    <3>3. loc[q] \in Locals
      BY <1>b
    <3>4. loc'[q].file = loc[q].file /\ loc[q].clean /\ loc[q].file # f
      BY <2>4, <3>2, <3>3 DEF Locals
    <3>5. loc[q].file \in File /\ Shut(loc[q].file)
      BY <1>a, <1>c, <2>4, <3>1, <3>4 DEF AddProgress, Wrote, Adding
    <3>6. QED
      BY <2>2, <3>4, <3>5 DEF Shut
  <2>5. AddProgress'
    BY <2>4 DEF AddProgress
  <2>6. QED
    BY <2>3, <2>5
<1>3. ASSUME NEW r \in Req, Receive(r) PROVE AddProgress' /\ ConfirmedClosed'
  <2>1. /\ UNCHANGED <<dir, confirmed>>
        /\ \E l \in Place \ Wrote : pc' = [pc EXCEPT ![r] = l]
        /\ \E v : loc' = [loc EXCEPT ![r] = v]
    BY <1>3 DEF Receive, AddStart, EditStart, DelStart, AddUserStart, EditUserStart,
                DelUserStart, Enter, Goto, Place, Wrote, history
  <2>2. QED
    BY <1>a, <1>b, <2>1 DEF AddProgress, ConfirmedClosed, Shut
<1>4. CASE UNCHANGED <<dir, confirmed, pc, loc>>
  BY <1>a, <1>4 DEF AddProgress, ConfirmedClosed, Shut
<1>5. CASE Restart
  BY <1>a, <1>5 DEF Restart, AddProgress, ConfirmedClosed, Shut, Wrote
<1>6. ASSUME (\E s \in Session : LogOut(s) \/ \E i \in UserId : DoLogin(s, i))
             \/ UNCHANGED vars
      PROVE  UNCHANGED <<dir, confirmed, pc, loc>>
  BY <1>6 DEF LogOut, DoLogin, vars, history
<1>7. QED
  BY <1>1, <1>2, <1>3, <1>4, <1>5, <1>6 DEF Next

\* Where files can be written, an Add that was answered with success leaves
\* a directory that is closed to anonymous access until it is deleted,
\* whatever the other requests, failing deletions and restarts do to it.
THEOREM ConfirmedStayClosed ==
  ASSUME "write" \notin Faults
  PROVE  Spec => []ConfirmedClosed
<1>1. Init => ClosedInv
  <2> SUFFICES ASSUME Init PROVE AddProgress /\ ConfirmedClosed
    BY TypeInvInit DEF ClosedInv
  <2>1. QED
    BY DEF Init, AddProgress, ConfirmedClosed, Wrote
<1>2. ClosedInv /\ [Next]_vars => ClosedInv'
  BY ClosedStep, TypeInvStep DEF ClosedInv
<1>3. ClosedInv => ConfirmedClosed
  BY DEF ClosedInv
<1>4. QED
  BY <1>1, <1>2, <1>3, PTL DEF Spec


-----------------------------------------------------------------------------
(* One request at a time                                                     *)

\* What holds of single requests does not hold of two: an Add that has
\* passed its check writes over what another one and an Edit have written
\* since, and inserts its row while a deletion removes its directory.
OneRequest == \A q, r \in Req : q = r

\* What the page shows is in the table; files can be written.
Orderly == OneRequest /\ ~StalePages /\ "write" \notin Faults

\* The row of project i, as the purge has copied it.
ItemOf(i) == [id |-> i, file |-> project[i].file, auth |-> project[i].auth]

\* The column of project i and its file both name the login of request r.
Grants(r, i) ==
    /\ project[i].auth # None /\ loc[r].name \in project[i].auth
    /\ dir[project[i].file] # None /\ loc[r].name \in dir[project[i].file].authz

\* What request r, with local variables v, has achieved when it stands at l:
\* an Add has a directory that nobody has edited; an Edit has its text in the
\* file; a deletion names the row and the directory of one project; and a
\* purge has on its list what it has not yet been to.
Achieved(r, l, v) ==
    /\ l \in Wrote => dir[v.file] # None
    /\ l \in Wrote \cup {"add_shell", "add_serve"} => saved[v.file] = None
    /\ l \in {"edit_passwd", "edit_row"} => dir[v.file] # None /\ dir[v.file].authz = v.text
    /\ l \in {"del_select", "del_row"} => project[v.id] # None /\ project[v.id].file = v.file
    /\ l = "del_dir" => \A i \in Rows(project) : project[i].file # v.file
    /\ l = "purge" => \A i \in Rows(project) : Grants(r, i) => ItemOf(i) \in v.todo

OrderlyInv ==
    /\ TypeInv /\ ProjectsApart /\ RowHasDir /\ EditKept
    /\ shown = {}
    /\ \A r \in Req : Achieved(r, pc[r], loc[r])

\* The places at which nothing is asked for.
Calm == Place \ (Wrote \cup {"add_shell", "add_serve", "edit_passwd", "edit_row",
                             "del_select", "del_row", "del_dir", "purge"})

\* A step of the only request that leaves tables, tree and history alone and
\* goes to a calm place keeps the invariant.
LEMMA CalmStep ==
  ASSUME OneRequest, OrderlyInv, TypeInv', NEW r \in Req, pc'[r] \in Calm,
         UNCHANGED <<project, dir, saved, shown>>
  PROVE  OrderlyInv'
<1>1. \A q \in Req : Achieved(q, pc[q], loc[q])'
  <2>1. Achieved(r, pc[r], loc[r])'
    BY DEF Achieved, Calm, Wrote
  <2>2. QED
    BY <2>1 DEF OneRequest
<1>2. QED
  BY <1>1 DEF OrderlyInv, ProjectsApart, RowHasDir, EditKept, Rows

\* Where files can be written, a write does what it says.
LEMMA Writing ==
  ASSUME "write" \notin Faults, DataOK, NEW f \in File
  PROVE  /\ writeServe(f) => /\ dir'[f] # None
                             /\ dir[f] # None => dir'[f].authz = dir[f].authz
         /\ \A T \in SUBSET Login : writeAuthz(f, T) => dir'[f] # None /\ dir'[f].authz = T
         /\ writePasswd(f) => /\ dir'[f] # None
                              /\ dir[f] # None => dir'[f] = dir[f]
         /\ (\/ writeServe(f) \/ writePasswd(f) \/ \E T \in SUBSET Login : writeAuthz(f, T))
               => \A g \in File : g # f => dir'[g] = dir[g]
<1>1. dir \in [File -> Directory \cup {None}] /\ mkdirs(dir[f]) \in Directory
  BY MadeDirs DEF DataOK
<1>2. dir[f] # None => mkdirs(dir[f]) = dir[f]
  BY DEF mkdirs
<1>3. /\ \A b \in BOOLEAN : [mkdirs(dir[f]) EXCEPT !.closed = b] \in Directory
      /\ \A b \in BOOLEAN : [mkdirs(dir[f]) EXCEPT !.closed = b].authz = mkdirs(dir[f]).authz
      /\ \A T \in SUBSET Login : [mkdirs(dir[f]) EXCEPT !.authz = T] \in Directory
      /\ \A T \in SUBSET Login : [mkdirs(dir[f]) EXCEPT !.authz = T].authz = T
  BY <1>1 DEF Directory
<1>4. None \notin Directory
  BY JavaAssumption
<1>5. ASSUME writeServe(f)
      PROVE  dir'[f] # None /\ (dir[f] # None => dir'[f].authz = dir[f].authz)
  BY <1>1, <1>2, <1>3, <1>4, <1>5 DEF writeServe
<1>6. ASSUME NEW T \in SUBSET Login, writeAuthz(f, T)
      PROVE  dir'[f] # None /\ dir'[f].authz = T
  <2>1. dir' = [dir EXCEPT ![f] = [mkdirs(dir[f]) EXCEPT !.authz = T]]
    BY <1>6 DEF writeAuthz
  <2>2. dir'[f] = [mkdirs(dir[f]) EXCEPT !.authz = T]
    BY <1>1, <2>1
  <2>3. QED
    BY <1>3, <1>4, <2>2
<1>7. ASSUME writePasswd(f)
      PROVE  dir'[f] # None /\ (dir[f] # None => dir'[f] = dir[f])
  BY <1>1, <1>2, <1>4, <1>7 DEF writePasswd
<1>8. ASSUME \/ writeServe(f) \/ writePasswd(f) \/ \E T \in SUBSET Login : writeAuthz(f, T)
      PROVE  \A g \in File : g # f => dir'[g] = dir[g]
  BY <1>1, <1>8 DEF writeServe, writePasswd, writeAuthz
<1>9. QED
  BY <1>5, <1>6, <1>7, <1>8

\* What the locals of a request must be, by TypeInv, for its next step.
LEMMA Located ==
  ASSUME TypeInv, NEW r \in Req
  PROVE  /\ pc \in [Req -> Place] /\ loc \in [Req -> Locals]
         /\ project \in [ProjectId -> Project \cup {None}]
         /\ dir \in [File -> Directory \cup {None}]
         /\ saved \in [File -> (SUBSET Login) \cup {None}]
         /\ pc[r] \in Adding \cup Deleting \cup Editing => loc[r].file \in File
         /\ pc[r] \in Deleting \cup Editing \cup {"edit_select"} => loc[r].id \in ProjectId
         /\ loc[r].text \in SUBSET Login /\ loc[r].todo \subseteq Item
  BY DEF TypeInv, ControlOK, DataOK, LocalsFit, Fits, Locals

\* The directory of a request is written, and nothing else: what has to be
\* shown is about that directory.
LEMMA WriteStep ==
  ASSUME OneRequest, OrderlyInv, TypeInv', NEW r \in Req, NEW f \in File,
         UNCHANGED <<project, shown>>, dir'[f] # None,
         \A g \in File : g # f => dir'[g] = dir[g] /\ saved'[g] = saved[g],
         saved'[f] # None => saved[f] = saved'[f] /\ dir'[f].authz = dir[f].authz,
         Achieved(r, pc[r], loc[r])'
  PROVE  OrderlyInv'
<1>1. project \in [ProjectId -> Project \cup {None}]
  BY DEF OrderlyInv, TypeInv, DataOK
<1>2. \A i \in Rows(project) : project[i].file \in File
  BY <1>1 DEF Rows, Project
<1>3. RowHasDir'
  BY <1>2 DEF OrderlyInv, RowHasDir, Rows
<1>4. EditKept'
  <2>1. ASSUME NEW g \in File, saved'[g] # None PROVE dir'[g] # None /\ dir'[g].authz = saved'[g]
    BY <2>1 DEF OrderlyInv, EditKept
  <2>2. QED
    BY <2>1 DEF EditKept
<1>5. \A q \in Req : Achieved(q, pc[q], loc[q])'
  BY DEF OneRequest
<1>6. QED
  BY <1>3, <1>4, <1>5 DEF OrderlyInv, ProjectsApart, Rows

\* The steps of an Add.
LEMMA OrderlyAdd ==
  ASSUME Orderly, OrderlyInv, TypeInv', ProjectsApart', NEW r \in Req,
         \/ AddCheck(r) \/ AddShell(r) \/ AddServe(r)
         \/ AddAuthz(r) \/ AddPasswd(r) \/ AddInsert(r)
  PROVE  OrderlyInv'
<1> DEFINE f == loc[r].file
<1> USE DEF At
<1>a. /\ OneRequest /\ ~StalePages /\ "write" \notin Faults
      /\ TypeInv /\ DataOK /\ RowHasDir /\ EditKept /\ shown = {} /\ Achieved(r, pc[r], loc[r])
  BY DEF Orderly, OrderlyInv, TypeInv
<1>b. /\ pc \in [Req -> Place] /\ loc \in [Req -> Locals]
      /\ dir \in [File -> Directory \cup {None}]
      /\ saved \in [File -> (SUBSET Login) \cup {None}]
      /\ project \in [ProjectId -> Project \cup {None}]
  BY <1>a, Located
<1>c. f \in File
  BY <1>a, Located DEF Adding, AddCheck, AddShell, AddServe, AddAuthz, AddPasswd, AddInsert
<1>d. CASE Fail(r)
  BY <1>a, <1>b, <1>d, CalmStep DEF Fail, Finish, Goto, Calm, Place, Wrote, tables, history
<1>1. CASE AddCheck(r) /\ ~Fail(r)
  <2>1. /\ dir[f] = None /\ pc'[r] = "add_shell" /\ loc'[r] = [loc[r] EXCEPT !.clean = TRUE]
        /\ UNCHANGED <<tables, dir, session, history>>
    BY <1>b, <1>1 DEF AddCheck, isContains, Goto
  <2>2. loc'[r].file = f /\ saved[f] = None
    BY <1>a, <1>b, <1>c, <2>1 DEF EditKept, Locals
  <2>3. Achieved(r, pc[r], loc[r])'
    BY <2>1, <2>2 DEF Achieved, Wrote, history
  <2>4. \A q \in Req : Achieved(q, pc[q], loc[q])'
    BY <1>a, <2>3 DEF OneRequest
  <2>5. QED
    BY <2>1, <2>4 DEF OrderlyInv, RowHasDir, EditKept, ProjectsApart, Rows, tables, history
<1>2. CASE AddShell(r) /\ ~Fail(r)
  <2>1. /\ pc'[r] = "add_serve" /\ UNCHANGED <<loc, project, saved, shown>> /\ saved[f] = None
    BY <1>a, <1>b, <1>2 DEF AddShell, Goto, tables, history, Achieved
  <2>2. Achieved(r, pc[r], loc[r])'
    BY <2>1 DEF Achieved, Wrote
  <2>3. CASE UNCHANGED dir
    <3>1. \A q \in Req : Achieved(q, pc[q], loc[q])'
      BY <1>a, <2>2 DEF OneRequest
    <3>2. QED
      BY <2>1, <2>3, <3>1 DEF OrderlyInv, RowHasDir, EditKept, ProjectsApart, Rows
  <2>4. CASE dir' = [dir EXCEPT ![f] = Created]
    <3>1. dir'[f] # None /\ \A g \in File : g # f => dir'[g] = dir[g]
      <4>1. Created \in Directory
        BY DEF Created, Directory
      <4>2. QED
        BY <1>b, <1>c, <2>4, <4>1, JavaAssumption
    <3>2. QED
      BY <1>a, <1>c, <2>1, <2>2, <3>1, WriteStep
  <2>5. QED
    BY <1>2, <2>3, <2>4 DEF AddShell
<1>3. CASE AddServe(r) \/ AddAuthz(r) \/ AddPasswd(r)
  <2>1. /\ pc'[r] \in Wrote /\ UNCHANGED <<loc, project, saved, shown>> /\ saved[f] = None
    BY <1>a, <1>b, <1>3 DEF AddServe, AddAuthz, AddPasswd, Goto, tables, history, Achieved, Wrote
  <2>2. dir'[f] # None /\ \A g \in File : g # f => dir'[g] = dir[g]
    <3>1. {} \in SUBSET Login
      OBVIOUS
    <3>2. QED
      BY <1>a, <1>c, <1>3, <3>1, Writing DEF AddServe, AddAuthz, AddPasswd
  <2>3. Achieved(r, pc[r], loc[r])'
    BY <2>1, <2>2 DEF Achieved, Wrote
  <2>4. QED
    BY <1>a, <1>c, <2>1, <2>2, <2>3, WriteStep
<1>4. CASE AddInsert(r) /\ ~Fail(r)
  <2> DEFINE p == [file |-> f, creator |-> session[loc[r].s].id, auth |-> None]
  <2>1. /\ pc' = [pc EXCEPT ![r] = "idle"] /\ UNCHANGED <<dir, saved, shown>>
        /\ \E i \in ProjectId : project' = [project EXCEPT ![i] = p]
    BY <1>a, <1>4 DEF AddInsert, Finish, Goto
  <2>2. dir[f] # None
    BY <1>a, <1>4 DEF AddInsert, Achieved, Wrote
  <2>3. PICK i \in ProjectId : project' = [project EXCEPT ![i] = p]
    BY <2>1
  <2>4. p.file = f
    OBVIOUS
  <2>5. \A j \in Rows(project') : project'[j].file = f \/ (j \in Rows(project) /\ project'[j] = project[j])
    BY <1>b, <2>3, <2>4 DEF Rows
  <2>6. RowHasDir'
    BY <1>a, <2>1, <2>2, <2>5 DEF RowHasDir, Rows
  <2>7. \A q \in Req : Achieved(q, pc[q], loc[q])'
    BY <1>a, <1>b, <2>1 DEF OneRequest, Achieved, Wrote
  <2>8. QED
    BY <1>a, <2>1, <2>6, <2>7 DEF OrderlyInv, EditKept
<1>5. QED
  BY <1>d, <1>1, <1>2, <1>3, <1>4

\* The steps of an Edit.
LEMMA OrderlyEdit ==
  ASSUME Orderly, OrderlyInv, TypeInv', ProjectsApart', NEW r \in Req,
         \/ EditSelect(r) \/ (\E text \in SUBSET Grantee : EditAuthz(r, text))
         \/ EditPasswd(r) \/ EditRow(r)
  PROVE  OrderlyInv'
<1> DEFINE f == loc[r].file
<1> USE DEF At
<1>a. /\ OneRequest /\ "write" \notin Faults
      /\ TypeInv /\ DataOK /\ RowHasDir /\ EditKept /\ shown = {} /\ Achieved(r, pc[r], loc[r])
  BY DEF Orderly, OrderlyInv, TypeInv
<1>b. /\ pc \in [Req -> Place] /\ loc \in [Req -> Locals]
      /\ dir \in [File -> Directory \cup {None}]
      /\ saved \in [File -> (SUBSET Login) \cup {None}]
      /\ project \in [ProjectId -> Project \cup {None}]
      /\ pc[r] \in Editing => f \in File /\ loc[r].id \in ProjectId
      /\ loc[r].text \in SUBSET Login
  BY <1>a, Located
<1>1. CASE EditSelect(r)
  BY <1>a, <1>b, <1>1, CalmStep
     DEF EditSelect, Fail, Finish, Goto, Calm, Place, Wrote, tables, history
<1>2. CASE \E text \in SUBSET Grantee : EditAuthz(r, text)
  <2>1. PICK text \in SUBSET Grantee : EditAuthz(r, text)
    BY <1>2
  <2>2. f \in File /\ text \in SUBSET Login
    BY <1>b, <2>1, JavaAssumption DEF EditAuthz, Editing
  <2>3. /\ pc'[r] = "edit_passwd" /\ loc'[r] = [loc[r] EXCEPT !.text = text]
        /\ UNCHANGED <<project, shown>> /\ saved' = [saved EXCEPT ![f] = None]
    BY <1>b, <2>1 DEF EditAuthz, Goto, tables
  <2>4. dir'[f] # None /\ dir'[f].authz = text /\ \A g \in File : g # f => dir'[g] = dir[g]
    BY <1>a, <2>1, <2>2, Writing DEF EditAuthz
  <2>5. loc'[r].file = f /\ loc'[r].text = text
    BY <1>b, <2>3 DEF Locals
  <2>6. Achieved(r, pc[r], loc[r])'
    BY <2>3, <2>4, <2>5 DEF Achieved, Wrote
  <2>7. QED
    BY <1>a, <1>b, <2>2, <2>3, <2>4, <2>6, WriteStep
<1>3. CASE EditPasswd(r)
  <2>1. f \in File /\ dir[f] # None /\ dir[f].authz = loc[r].text
    BY <1>a, <1>b, <1>3 DEF EditPasswd, Editing, Achieved
  <2>2. /\ pc'[r] = "edit_row" /\ UNCHANGED <<loc, project, saved, shown>>
    BY <1>b, <1>3 DEF EditPasswd, Goto, tables, history
  <2>3. dir'[f] = dir[f] /\ dir'[f] # None /\ \A g \in File : g # f => dir'[g] = dir[g]
    BY <1>a, <1>3, <2>1, Writing DEF EditPasswd
  <2>4. Achieved(r, pc[r], loc[r])'
    BY <2>1, <2>2, <2>3 DEF Achieved, Wrote
  <2>5. QED
    BY <1>a, <2>1, <2>2, <2>3, <2>4, WriteStep
<1>4. CASE EditRow(r)
  <2>1. CASE Fail(r)
    BY <1>a, <1>b, <2>1, CalmStep DEF Fail, Finish, Goto, Calm, Place, Wrote, tables, history
  <2>2. CASE ~Fail(r)
    <3> DEFINE i == loc[r].id
    <3>1. /\ i \in ProjectId /\ f \in File /\ project[i] # None /\ UNCHANGED <<dir, shown>>
          /\ project' = [project EXCEPT ![i] = [project[i] EXCEPT !.auth = loc[r].text]]
          /\ saved' = [saved EXCEPT ![f] = loc[r].text]
          /\ pc' = [pc EXCEPT ![r] = "idle"]
      BY <1>b, <1>4, <2>2 DEF EditRow, Editing, Finish, Goto
    <3>2. [project[i] EXCEPT !.auth = loc[r].text].file = project[i].file
      BY <1>b, <3>1 DEF Project
    <3>3. \A j \in Rows(project)' : j \in Rows(project) /\ project'[j].file = project[j].file
      BY <1>b, <3>1, <3>2 DEF Rows
    <3>4. RowHasDir'
      BY <1>a, <3>1, <3>3 DEF RowHasDir
    <3>5. dir[f] # None /\ dir[f].authz = loc[r].text
      BY <1>a, <1>4 DEF EditRow, Achieved
    <3>6. EditKept'
      BY <1>a, <1>b, <3>1, <3>5 DEF EditKept
    <3>7. \A q \in Req : Achieved(q, pc[q], loc[q])'
      BY <1>a, <1>b, <3>1 DEF OneRequest, Achieved, Wrote
    <3>8. QED
      BY <1>a, <3>1, <3>4, <3>6, <3>7 DEF OrderlyInv
  <2>3. QED
    BY <2>1, <2>2
<1>5. QED
  BY <1>1, <1>2, <1>3, <1>4

\* The steps of a deletion.
LEMMA OrderlyDel ==
  ASSUME Orderly, OrderlyInv, TypeInv', ProjectsApart', NEW r \in Req,
         DelSelect(r) \/ DelRow(r) \/ DelDir(r)
  PROVE  OrderlyInv'
<1> DEFINE f == loc[r].file
           i == loc[r].id
<1> USE DEF At
<1>a. /\ OneRequest /\ TypeInv /\ DataOK /\ RowHasDir /\ EditKept /\ shown = {}
      /\ ProjectsApart /\ Achieved(r, pc[r], loc[r])
  BY DEF Orderly, OrderlyInv, TypeInv
<1>b. /\ pc \in [Req -> Place] /\ loc \in [Req -> Locals]
      /\ dir \in [File -> Directory \cup {None}]
      /\ saved \in [File -> (SUBSET Login) \cup {None}]
      /\ project \in [ProjectId -> Project \cup {None}]
      /\ f \in File /\ i \in ProjectId
  BY <1>a, Located DEF DelSelect, DelRow, DelDir, Deleting
<1>d. CASE Fail(r)
  BY <1>a, <1>b, <1>d, CalmStep DEF Fail, Finish, Goto, Calm, Place, Wrote, tables, history
<1>1. CASE DelSelect(r) /\ ~Fail(r)
  <2>1. pc'[r] = "del_row" /\ UNCHANGED <<tables, dir, loc, history>>
    BY <1>b, <1>1 DEF DelSelect, Goto
  <2>2. Achieved(r, pc[r], loc[r])'
    BY <1>a, <1>1, <2>1 DEF DelSelect, Achieved, Wrote, tables
  <2>3. \A q \in Req : Achieved(q, pc[q], loc[q])'
    BY <1>a, <2>2 DEF OneRequest
  <2>4. QED
    BY <2>1, <2>3 DEF OrderlyInv, RowHasDir, EditKept, ProjectsApart, Rows, tables, history
<1>2. CASE DelRow(r) /\ ~Fail(r)
  <2>1. /\ pc'[r] = "del_dir" /\ UNCHANGED <<dir, saved, shown>>
        /\ loc'[r] = [loc[r] EXCEPT !.row = project[i].file]
        /\ project' = [project EXCEPT ![i] = None]
    BY <1>b, <1>2 DEF DelRow, Goto, history
  <2>2. i \in Rows(project) /\ project[i].file = f
    BY <1>a, <1>b, <1>2 DEF DelRow, Achieved, Rows
  <2>3. \A j \in Rows(project)' : j # i /\ j \in Rows(project) /\ project'[j] = project[j]
    BY <1>b, <2>1 DEF Rows
  <2>4. \A j \in Rows(project)' : project'[j].file # f
    BY <1>a, <2>2, <2>3 DEF ProjectsApart
  <2>5. loc'[r].file = f
    BY <1>b, <2>1 DEF Locals
  <2>6. Achieved(r, pc[r], loc[r])'
    BY <2>1, <2>4, <2>5 DEF Achieved, Wrote
  <2>7. \A q \in Req : Achieved(q, pc[q], loc[q])'
    BY <1>a, <2>6 DEF OneRequest
  <2>8. RowHasDir'
    BY <1>a, <2>1, <2>3 DEF RowHasDir
  <2>9. QED
    BY <1>a, <2>1, <2>7, <2>8 DEF OrderlyInv, EditKept
<1>3. CASE DelDir(r)
  <2>1. /\ pc' = [pc EXCEPT ![r] = "idle"] /\ UNCHANGED <<project, shown>>
        /\ saved' = [saved EXCEPT ![f] = None]
        /\ \A g \in File : g # f => dir'[g] = dir[g]
    BY <1>b, <1>3 DEF DelDir, Goto, tables
  <2>2. \A j \in Rows(project) : project[j].file \in File /\ project[j].file # f
    BY <1>a, <1>b, <1>3 DEF DelDir, Achieved, Rows, Project
  <2>3. RowHasDir'
    BY <1>a, <2>1, <2>2 DEF RowHasDir, Rows
  <2>4. EditKept'
    BY <1>a, <1>b, <2>1 DEF EditKept
  <2>5. \A q \in Req : Achieved(q, pc[q], loc[q])'
    BY <1>a, <1>b, <2>1 DEF OneRequest, Achieved, Wrote
  <2>6. QED
    BY <1>a, <2>1, <2>3, <2>4, <2>5 DEF OrderlyInv
<1>4. QED
  BY <1>d, <1>1, <1>2, <1>3

\* The steps of the purge.  The rows are those that were listed, as nobody
\* else runs; every round takes one from the list and cuts the login out of
\* its file, unless the login is not in its column.
LEMMA OrderlyPurge ==
  ASSUME Orderly, OrderlyInv, TypeInv', ProjectsApart', NEW r \in Req,
         PurgeList(r) \/ PurgeItem(r) \/ PurgeDone(r)
  PROVE  OrderlyInv'
<1> DEFINE l == loc[r].name
           Cut(x) == getNonBlankStr(x.auth, l)
<1> USE DEF At
<1>a. /\ OneRequest /\ "write" \notin Faults /\ TypeInv /\ DataOK /\ RowHasDir /\ EditKept
      /\ shown = {} /\ ProjectsApart /\ Achieved(r, pc[r], loc[r])
  BY DEF Orderly, OrderlyInv, TypeInv
<1>b. /\ pc \in [Req -> Place] /\ loc \in [Req -> Locals]
      /\ dir \in [File -> Directory \cup {None}]
      /\ saved \in [File -> (SUBSET Login) \cup {None}]
      /\ project \in [ProjectId -> Project \cup {None}]
      /\ loc[r].todo \subseteq Item
  BY <1>a, Located
<1>d. CASE Fail(r) \/ PurgeDone(r)
  BY <1>a, <1>b, <1>d, CalmStep
     DEF Fail, PurgeDone, Finish, Goto, Calm, Place, Wrote, tables, history
<1>1. CASE PurgeList(r)
  <2>1. /\ pc'[r] = "purge" /\ UNCHANGED <<project, dir, saved, shown>>
        /\ loc'[r] = [loc[r] EXCEPT !.todo = {ItemOf(i) : i \in Rows(project)}]
    BY <1>b, <1>1 DEF PurgeList, Goto, tables, history, ItemOf
  <2>2. loc'[r].todo = {ItemOf(i) : i \in Rows(project)}
    BY <1>b, <2>1 DEF Locals
  <2>3. Achieved(r, pc[r], loc[r])'
    BY <2>1, <2>2 DEF Achieved, Wrote, ItemOf, Rows
  <2>4. \A q \in Req : Achieved(q, pc[q], loc[q])'
    BY <1>a, <2>3 DEF OneRequest
  <2>5. QED
    BY <2>1, <2>4 DEF OrderlyInv, RowHasDir, EditKept, ProjectsApart, Rows
<1>2. CASE PurgeItem(r) /\ ~Fail(r)
  <2>1. PICK x \in loc[r].todo :
            /\ x.auth # None
            /\ IF svnAuthPattern(x.auth, l)
                 THEN writeAuthz(x.file, Cut(x)) /\ saved' = [saved EXCEPT ![x.file] = None]
                 ELSE UNCHANGED <<dir, saved>>
            /\ loc' = [loc EXCEPT ![r] = [@ EXCEPT !.todo = Rest(loc[r].todo, x)]]
            /\ Goto(r, "purge")
            /\ UNCHANGED <<tables, session, shown, confirmed, former>>
    BY <1>2 DEF PurgeItem
  <2>2. x \in Item /\ x.file \in File /\ Cut(x) \in SUBSET Login /\ l \notin Cut(x)
    <3>1. x \in Item /\ x.auth # None
      BY <1>b, <2>1
    <3>2. x.file \in File /\ x.auth \in SUBSET Login
      BY <3>1 DEF Item
    <3>3. QED
      BY <3>1, <3>2 DEF getNonBlankStr
  <2>3. /\ pc'[r] = "purge" /\ UNCHANGED <<project, shown>>
        /\ loc'[r] = [loc[r] EXCEPT !.todo = loc[r].todo \ {x}]
    BY <1>b, <2>1 DEF Goto, tables, Rest
  <2>4. loc'[r].todo = loc[r].todo \ {x} /\ loc'[r].name = l
    BY <1>b, <2>3 DEF Locals
  <2>5. \A g \in File : dir'[g] = dir[g] \/ (dir'[g] # None /\ dir'[g].authz = Cut(x))
    BY <1>a, <2>1, <2>2, Writing
  <2>6. ASSUME NEW i \in Rows(project), Grants(r, i)' PROVE ItemOf(i)' \in loc'[r].todo
    <3>1. project[i].file \in File /\ ItemOf(i)' = ItemOf(i)
      BY <1>b, <2>3 DEF Rows, Project, ItemOf
    <3>2. /\ project[i].auth # None /\ l \in project[i].auth
          /\ dir'[project[i].file] # None /\ l \in dir'[project[i].file].authz
      BY <2>3, <2>4, <2>6 DEF Grants
    <3>3. dir'[project[i].file] = dir[project[i].file]
      BY <2>2, <2>5, <3>1, <3>2
    <3>4. ItemOf(i) \in loc[r].todo
      BY <1>a, <1>2, <3>2, <3>3 DEF Achieved, Grants, PurgeItem
    <3>5. ASSUME ItemOf(i) = x PROVE FALSE
      <4>1. x.auth = project[i].auth /\ x.file = project[i].file
        BY <3>5 DEF ItemOf
      <4>2. writeAuthz(x.file, Cut(x))
        BY <2>1, <3>2, <4>1 DEF svnAuthPattern
      <4>3. dir'[x.file].authz = Cut(x)
        BY <1>a, <2>2, <4>2, Writing
      <4>4. QED
        BY <2>2, <3>2, <4>1, <4>3
    <3>6. QED
      BY <2>4, <3>1, <3>4, <3>5
  <2>7. Achieved(r, pc[r], loc[r])'
    BY <2>3, <2>6 DEF Achieved, Wrote, Rows
  <2>8. CASE UNCHANGED <<dir, saved>>
    <3>1. \A q \in Req : Achieved(q, pc[q], loc[q])'
      BY <1>a, <2>7 DEF OneRequest
    <3>2. QED
      BY <2>3, <2>8, <3>1 DEF OrderlyInv, RowHasDir, EditKept, ProjectsApart, Rows
  <2>9. CASE writeAuthz(x.file, Cut(x)) /\ saved' = [saved EXCEPT ![x.file] = None]
    <3>1. dir'[x.file] # None /\ \A g \in File : g # x.file => dir'[g] = dir[g]
      BY <1>a, <2>2, <2>9, Writing
    <3>2. QED
      BY <1>a, <1>b, <2>2, <2>3, <2>7, <2>9, <3>1, WriteStep
  <2>10. QED
    BY <2>1, <2>8, <2>9
<1>3. QED
  BY <1>d, <1>1, <1>2

\* All steps together.
LEMMA OrderlyStep == ASSUME Orderly, OrderlyInv, [Next]_vars PROVE OrderlyInv'
<1>a. TypeInv' /\ OneRequest /\ ~StalePages
  BY TypeInvStep DEF OrderlyInv, Orderly
<1>b. /\ pc \in [Req -> Place] /\ loc \in [Req -> Locals] /\ shown = {}
  BY Located DEF OrderlyInv, TypeInv, ControlOK
<1>1. ASSUME NEW r \in Req, Handle(r) PROVE OrderlyInv'
  <2>1. ProjectsApart'
    BY <1>1, ProjectsApartStep DEF OrderlyInv
  <2>2. CASE \/ AddUserCheck(r) \/ DelUserSelect(r) \/ DelUserRow(r)
             \/ (\E admin, active \in BOOLEAN :
                    AddUserInsert(r, admin, active) \/ EditUserRow(r, admin, active))
    BY <1>a, <1>b, <2>2, CalmStep
       DEF AddUserCheck, DelUserSelect, DelUserRow, AddUserInsert, EditUserRow, Fail,
           Finish, Goto, Calm, Place, Wrote, tables, history
  <2>3. QED
    BY <1>1, <1>a, <2>1, <2>2, OrderlyAdd, OrderlyEdit, OrderlyDel, OrderlyPurge DEF Handle
<1>2. ASSUME NEW r \in Req, Receive(r) PROVE OrderlyInv'
  <2>1. CASE \E s \in Session :
                \/ \E f \in File : AddStart(r, s, f)
                \/ \E i \in ProjectId : EditStart(r, s, i)
                \/ \E l \in Login : AddUserStart(r, s, l)
                \/ \E i \in UserId : EditUserStart(r, s, i) \/ DelUserStart(r, s, i)
    BY <1>a, <1>b, <2>1, CalmStep
       DEF AddStart, EditStart, AddUserStart, EditUserStart, DelUserStart, Enter, Goto,
           Calm, Place, Wrote, tables, history
  <2>2. ASSUME NEW s \in Session, NEW i \in ProjectId, NEW f \in File, DelStart(r, s, i, f)
        PROVE  OrderlyInv'
    <3>1. /\ pc'[r] = "del_select" /\ UNCHANGED <<tables, dir, history>>
          /\ loc'[r] = [NoLocals EXCEPT !.s = s, !.id = i, !.file = f]
          /\ project[i] # None /\ project[i].file = f
      BY <1>b, <2>2 DEF DelStart, Enter, Goto
    <3>2. loc'[r].id = i /\ loc'[r].file = f
      BY <3>1 DEF NoLocals
    <3>3. Achieved(r, pc[r], loc[r])'
      BY <3>1, <3>2 DEF Achieved, Wrote, tables
    <3>4. \A q \in Req : Achieved(q, pc[q], loc[q])'
      BY <1>a, <3>3 DEF OneRequest
    <3>5. QED
      BY <1>a, <3>1, <3>4 DEF OrderlyInv, RowHasDir, EditKept, ProjectsApart, Rows, tables, history
  <2>3. QED
    BY <1>2, <2>1, <2>2 DEF Receive
<1>3. CASE UNCHANGED <<project, dir, saved, shown, pc, loc>>
  <2>1. \A q \in Req : Achieved(q, pc[q], loc[q])'
    BY <1>3 DEF OrderlyInv, Achieved, Grants, ItemOf, Rows
  <2>2. QED
    BY <1>a, <1>3, <2>1 DEF OrderlyInv, RowHasDir, EditKept, ProjectsApart, Rows
<1>4. CASE Restart
  <2>1. \A q \in Req : Achieved(q, pc[q], loc[q])'
    BY <1>4 DEF Restart, Achieved, Wrote
  <2>2. QED
    BY <1>a, <1>4, <2>1 DEF Restart, OrderlyInv, RowHasDir, EditKept, ProjectsApart, Rows, tables
<1>5. ASSUME (\E s \in Session : LogOut(s) \/ \E i \in UserId : DoLogin(s, i))
             \/ UNCHANGED vars
      PROVE  UNCHANGED <<project, dir, saved, shown, pc, loc>>
  BY <1>5 DEF LogOut, DoLogin, vars, tables, history
<1>6. QED
  BY <1>1, <1>2, <1>3, <1>4, <1>5 DEF Next

\* The invariant of a server that has one request at a time.
THEOREM OrderlyHolds == ASSUME Orderly PROVE Spec => []OrderlyInv
<1>1. Init => OrderlyInv
  <2> SUFFICES ASSUME Init PROVE OrderlyInv
    OBVIOUS
  <2>1. ProjectsApart /\ RowHasDir /\ EditKept /\ shown = {}
    BY DEF Init, ProjectsApart, RowHasDir, EditKept, Rows
  <2>2. \A q \in Req : Achieved(q, pc[q], loc[q])
    BY DEF Init, Achieved, Wrote
  <2>3. QED
    BY <2>1, <2>2, TypeInvInit DEF OrderlyInv
<1>2. OrderlyInv /\ [Next]_vars => OrderlyInv'
  BY OrderlyStep, Orderly
<1>3. QED
  BY <1>1, <1>2, PTL DEF Spec

\* With one request at a time, and where files can be written, every project
\* in the table has its directory, whatever else fails and wherever the
\* process stops: addProject inserts the row last, delSvn deletes it first.
THEOREM RowsHaveDirs == ASSUME Orderly PROVE Spec => []RowHasDir
<1>1. OrderlyInv => RowHasDir
  BY DEF OrderlyInv
<1>2. QED
  BY <1>1, OrderlyHolds, Orderly, PTL

\* Then also, the text of a confirmed Edit is what the file holds until the
\* next Edit, purge or deletion of the project.
THEOREM EditsKept == ASSUME Orderly PROVE Spec => []EditKept
<1>1. OrderlyInv => EditKept
  BY DEF OrderlyInv
<1>2. QED
  BY <1>1, OrderlyHolds, Orderly, PTL

\* And a purge that comes to the end of its list has cut the login out of
\* every file whose column names it.
THEOREM PurgesReachAll == ASSUME Orderly PROVE Spec => []PurgeReachesAll
<1>1. OrderlyInv => PurgeReachesAll
  BY DEF OrderlyInv, PurgeReachesAll, Achieved, Grants, At
<1>2. QED
  BY <1>1, OrderlyHolds, Orderly, PTL
=============================================================================

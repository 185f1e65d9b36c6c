--------------------------- MODULE GoServerProofs ---------------------------
(***************************************************************************)
(* Proofs about GoServer, for any set of requests, names, tokens and data. *)
(***************************************************************************)
EXTENDS GoServer, TLAPS

\* Places at which a handler has a project name in hand.
Named == {"add_check", "add_create", "add_conf", "add_open", "add_set", "finish",
          "edit_open", "edit_get", "edit_set", "edit_authz", "edit_passwd",
          "index_stub", "del_remove", "del_open", "del_delete", "del_close"}

Deleting == {"del_remove", "del_open", "del_delete", "del_close"}

\* Local variables v fit a handler that stands at l: whoever asks for
\* authorisation has a continuation, and a name is there when it is used.
Fits(l, v) ==
    /\ l \in {"auth_open", "auth_get"} =>
          /\ v.kind \in DOMAIN AfterAuth
          /\ v.kind \in {"add", "del"} => v.name \in Name
    /\ l \in Named => v.name \in Name
    /\ l \in Deleting => v.kind = "del"

LocalsFit == \A r \in Req : Fits(pc[r], loc[r])

\* TypeOK in two halves: the handlers' control, and what they work on.
ControlOK ==
    /\ pc \in [Req -> Place]
    /\ loc \in [Req -> Locals]
    /\ answer \in Answer
    /\ LocalsFit

DataOK ==
    /\ up \in BOOLEAN
    /\ handle \in Goroutine \cup {NoOne}
    /\ token \in Token \cup {Blank}
    /\ files \subseteq Name
    /\ info \in [Name -> Info \cup {NoInfo}]
    /\ dirs \subseteq Name
    /\ conf \in [Name -> [ConfFile -> Content]]
    /\ bg \in [Job -> {"none", "scan", "open", "set"}]
    /\ scan \in [Job -> SUBSET Name]
    /\ creator \in [Name -> Req \cup {NoOne}]
    /\ confirmed \subseteq Name
    /\ existed \subseteq Name

TypeInv == ControlOK /\ DataOK

-----------------------------------------------------------------------------
(* How control moves *)

\* Respond keeps the control part of the invariant.
LEMMA Responded ==
  ASSUME ControlOK, NEW r \in Req, NEW c \in Answer, Respond(r, c)
  PROVE  ControlOK'
<1>1. NoLocals \in Locals /\ "idle" \in Place /\ Fits("idle", NoLocals)
  BY DEF Locals, NoLocals, Place, Elsewhere, Fits, Named, Deleting
<1>2. QED
  BY <1>1 DEF ControlOK, Respond, LocalsFit

\* So does a move to a place that the new local variables fit.
LEMMA Moved ==
  ASSUME ControlOK, NEW r \in Req, NEW l \in Place, NEW v \in Locals,
         Goto(r, l), loc' = [loc EXCEPT ![r] = v], Fits(l, v)
  PROVE  ControlOK'
  BY DEF ControlOK, Goto, LocalsFit, Answer

\* And so does one that leaves the local variables alone.
LEMMA MovedOn ==
  ASSUME ControlOK, NEW r \in Req, NEW l \in Place,
         Goto(r, l), UNCHANGED loc, Fits(l, loc[r])
  PROVE  ControlOK'
  BY DEF ControlOK, Goto, LocalsFit, Answer

\* Assignments to local variables keep their types.
LEMMA Assigned ==
  ASSUME NEW v \in Locals
  PROVE  /\ \A k \in Endpoint, n \in Name \cup {NoName} :
               [v EXCEPT !.kind = k, !.name = n] \in Locals
         /\ \A S \in SUBSET Name : [v EXCEPT !.todo = S] \in Locals
         /\ \A n \in Name : [v EXCEPT !.name = n] \in Locals
         /\ \A s \in Info \cup {NoInfo} : [v EXCEPT !.snap = s] \in Locals
         /\ \A n \in Name, s \in Info \cup {NoInfo} :
               [v EXCEPT !.name = n, !.snap = s] \in Locals
         /\ \A d \in Data \cup {Blank} :
               [v EXCEPT !.data = d, !.snap = NoInfo] \in Locals
         /\ \A n : [v EXCEPT !.todo = v.todo \ {n}, !.name = NoName, !.snap = NoInfo] \in Locals
  BY DEF Locals

\* Every step of a handler keeps the control part of the invariant.
LEMMA ControlStep ==
  ASSUME TypeInv, NEW r \in Req, Start(r) \/ HandlerStep(r)
  PROVE  ControlOK'
<1> USE DEF Answer
<1>a. ControlOK /\ DataOK /\ loc[r] \in Locals /\ pc[r] \in Place /\ Fits(pc[r], loc[r])
  BY DEF TypeInv, ControlOK, LocalsFit
<1>b. ASSUME NEW k \in Endpoint, NEW n \in Name \cup {NoName},
             NEW l \in {"login_open", "auth_open"}, Begin(r, k, n, l),
             k = "login" <=> l = "login_open", k \in {"add", "del"} => n \in Name
      PROVE  ControlOK'
  <2>1. Fits(l, [loc[r] EXCEPT !.kind = k, !.name = n])
    BY <1>a, <1>b DEF Fits, Named, Deleting, AfterAuth, Endpoint, Locals
  <2>2. l \in Place
    BY DEF Place, Opening, AfterGetDb
  <2>3. QED
    BY <1>a, <1>b, <2>1, <2>2, Moved, Assigned DEF Begin
<1>c. ASSUME NEW k, NEW c \in Answer, Refuse(r, k, c) PROVE ControlOK'
  BY <1>a, <1>c, Responded DEF Refuse
<1>1. CASE LoginStart(r)
  BY <1>1, <1>b, <1>c DEF LoginStart, Endpoint
<1>2. CASE IndexStart(r)
  BY <1>2, <1>b, <1>c DEF IndexStart, Endpoint
<1>3. CASE AddStart(r)
  BY <1>3, <1>b, <1>c DEF AddStart, Endpoint
<1>4. CASE EditGetStart(r)
  BY <1>4, <1>b, <1>c DEF EditGetStart, Endpoint
<1>5. CASE EditPostStart(r)
  BY <1>5, <1>b, <1>c DEF EditPostStart, Endpoint
<1>6. CASE DelStart(r)
  BY <1>6, <1>b, <1>c DEF DelStart, Endpoint
<1>7. CASE GetDb(r)
  <2>1. ASSUME pc[r] \in Opening
        PROVE  AfterGetDb[pc[r]] \in Place /\ Fits(AfterGetDb[pc[r]], loc[r])
    BY <1>a, <2>1 DEF Fits, Named, Deleting, Place, Opening, Critical, Elsewhere,
       AfterGetDb
  <2>2. QED
    BY <1>a, <1>7, <2>1, MovedOn, Responded DEF GetDb
<1>8. CASE IsLogn(r)
  <2>1. AfterAuth[loc[r].kind] \in Place /\ Fits(AfterAuth[loc[r].kind], loc[r])
    BY <1>a, <1>8 DEF IsLogn, Fits, Named, Deleting, AfterAuth, Place, Opening,
       Critical, Elsewhere, AfterGetDb
  <2>2. QED
    BY <1>a, <1>8, <2>1, MovedOn, Responded DEF IsLogn
<1>9. CASE LoginSet(r)
  BY <1>a, <1>9, Responded DEF LoginSet
<1>10. CASE NamesGet(r)
  <2>1. /\ "index_open" \in Place /\ "names_scan" \in Place
        /\ \A v : Fits("index_open", v) /\ Fits("names_scan", v)
    BY DEF Fits, Named, Deleting, Place, Opening, Critical, Elsewhere, AfterGetDb
  <2>2. [loc[r] EXCEPT !.todo = files] \in Locals
    BY <1>a, Assigned DEF DataOK
  <2>3. QED
    BY <1>a, <1>10, <2>1, <2>2, Moved, MovedOn DEF NamesGet
<1>11. CASE NamesScan(r)
  <2>1. "names_set" \in Place /\ \A v : Fits("names_set", v)
    BY DEF Fits, Named, Deleting, Place, Opening, Critical, Elsewhere, AfterGetDb
  <2>2. [loc[r] EXCEPT !.todo = dirs] \in Locals
    BY <1>a, Assigned DEF DataOK
  <2>3. QED
    BY <1>a, <1>11, <2>1, <2>2, Moved DEF NamesScan
<1>12. CASE NamesSet(r)
  <2>1. "index_open" \in Place /\ Fits("index_open", loc[r])
    BY <1>a, <1>12 DEF NamesSet, Fits, Named, Deleting, Place, Opening, Critical,
       Elsewhere, AfterGetDb
  <2>2. QED
    BY <1>a, <1>12, <2>1, MovedOn DEF NamesSet
<1>13. CASE IndexGet(r)
  <2>1. ASSUME NEW n \in loc[r].todo
        PROVE  LET v == [loc[r] EXCEPT !.name = n, !.snap = info[n]]
               IN  v \in Locals /\ Fits("index_stub", v)
    <3>1. n \in Name /\ info[n] \in Info \cup {NoInfo}
      BY <1>a, <2>1 DEF Locals, DataOK
    <3>2. [loc[r] EXCEPT !.name = n, !.snap = info[n]] \in Locals
      BY <1>a, <3>1, Assigned
    <3>3. Fits("index_stub", [loc[r] EXCEPT !.name = n, !.snap = info[n]])
      BY <1>a, <3>1 DEF Fits, Named, Deleting, Locals
    <3>4. QED
      BY <3>2, <3>3
  <2>2. "index_stub" \in Place
    BY DEF Place, Critical
  <2>3. QED
    BY <1>a, <1>13, <2>1, <2>2, Moved, Responded DEF IndexGet
<1>14. CASE IndexStub(r)
  <2>1. "index_get" \in Place /\ \A v : Fits("index_get", v)
    BY DEF Fits, Named, Deleting, Place, Opening, Critical, Elsewhere, AfterGetDb
  <2>2. [loc[r] EXCEPT !.todo = loc[r].todo \ {loc[r].name}, !.name = NoName, !.snap = NoInfo] \in Locals
    BY <1>a, Assigned
  <2>3. QED
    BY <1>a, <1>14, <2>1, <2>2, Moved DEF IndexStub
<1>15. CASE AddCheck(r)
  <2>1. "add_create" \in Place /\ Fits("add_create", loc[r])
    BY <1>a, <1>15 DEF AddCheck, Fits, Named, Deleting, Place, Opening, Critical,
       Elsewhere, AfterGetDb
  <2>2. QED
    BY <1>a, <1>15, <2>1, MovedOn, Responded DEF AddCheck
<1>16. CASE AddCreate(r)
  <2>1. "add_conf" \in Place /\ Fits("add_conf", loc[r])
    BY <1>a, <1>16 DEF AddCreate, Fits, Named, Deleting, Place, Opening, Critical,
       Elsewhere, AfterGetDb
  <2>2. QED
    BY <1>a, <1>16, <2>1, MovedOn, Responded DEF AddCreate
<1>17. CASE AddConf(r)
  <2>1. "add_open" \in Place /\ Fits("add_open", loc[r])
    BY <1>a, <1>17 DEF AddConf, Fits, Named, Deleting, Place, Opening, Critical,
       Elsewhere, AfterGetDb
  <2>2. QED
    BY <1>a, <1>17, <2>1, MovedOn DEF AddConf
<1>18. CASE AddSet(r)
  <2>1. "finish" \in Place /\ Fits("finish", loc[r])
    BY <1>a, <1>18 DEF AddSet, Fits, Named, Deleting, Place, Opening, Critical,
       Elsewhere, AfterGetDb
  <2>2. QED
    BY <1>a, <1>18, <2>1, MovedOn DEF AddSet
<1>19. CASE Finish(r)
  BY <1>a, <1>19, Responded DEF Finish
<1>20. CASE ReadGet(r)
  BY <1>a, <1>20, Responded DEF ReadGet
<1>21. CASE EditName(r)
  <2>1. ASSUME NEW n \in Name
        PROVE  LET v == [loc[r] EXCEPT !.name = n] IN v \in Locals /\ Fits("edit_open", v)
    <3>1. [loc[r] EXCEPT !.name = n] \in Locals
      BY <1>a, Assigned
    <3>2. Fits("edit_open", [loc[r] EXCEPT !.name = n])
      BY <1>a DEF Fits, Named, Deleting, Locals
    <3>3. QED
      BY <3>1, <3>2
  <2>2. "edit_open" \in Place
    BY DEF Place, Opening, AfterGetDb
  <2>3. QED
    BY <1>a, <1>21, <2>1, <2>2, Moved, Responded DEF EditName
<1>22. CASE EditGet(r)
  <2>1. loc[r].name \in Name /\ info[loc[r].name] \in Info \cup {NoInfo}
    BY <1>a, <1>22 DEF EditGet, Fits, Named, Deleting, DataOK
  <2>2. [loc[r] EXCEPT !.snap = info[loc[r].name]] \in Locals
    BY <1>a, <2>1, Assigned
  <2>3. Fits("edit_set", [loc[r] EXCEPT !.snap = info[loc[r].name]])
    BY <1>a, <2>1 DEF Fits, Named, Deleting, Locals
  <2>4. "edit_set" \in Place
    BY DEF Place, Critical
  <2>5. QED
    BY <1>a, <1>22, <2>2, <2>3, <2>4, Moved DEF EditGet
<1>23. CASE EditSet(r)
  <2>1. loc[r].name \in Name
    BY <1>a, <1>23 DEF EditSet, Fits, Named, Deleting
  <2>2. ASSUME NEW d \in Data \cup {Blank}
        PROVE  LET v == [loc[r] EXCEPT !.data = d, !.snap = NoInfo]
               IN  v \in Locals /\ Fits("edit_authz", v)
    <3>1. [loc[r] EXCEPT !.data = d, !.snap = NoInfo] \in Locals
      BY <1>a, Assigned
    <3>2. Fits("edit_authz", [loc[r] EXCEPT !.data = d, !.snap = NoInfo])
      BY <1>a, <2>1 DEF Fits, Named, Deleting, Locals
    <3>3. QED
      BY <3>1, <3>2
  <2>3. "edit_authz" \in Place
    BY DEF Place, Elsewhere
  <2>4. QED
    BY <1>a, <1>23, <2>2, <2>3, Moved DEF EditSet
<1>24. CASE EditAuthz(r)
  <2>1. "edit_passwd" \in Place /\ Fits("edit_passwd", loc[r])
    BY <1>a, <1>24 DEF EditAuthz, Fits, Named, Deleting, Place, Opening, Critical,
       Elsewhere, AfterGetDb
  <2>2. QED
    BY <1>a, <1>24, <2>1, MovedOn DEF EditAuthz
<1>25. CASE EditPasswd(r)
  BY <1>a, <1>25, Responded DEF EditPasswd
<1>26. CASE DelRemove(r)
  <2>1. "del_open" \in Place /\ Fits("del_open", loc[r])
    BY <1>a, <1>26 DEF DelRemove, Fits, Named, Deleting, Place, Opening, Critical,
       Elsewhere, AfterGetDb
  <2>2. QED
    BY <1>a, <1>26, <2>1, MovedOn, Responded DEF DelRemove
<1>27. CASE DelDelete(r)
  <2>1. "del_close" \in Place /\ Fits("del_close", loc[r])
    BY <1>a, <1>27 DEF DelDelete, Fits, Named, Deleting, Place, Opening, Critical,
       Elsewhere, AfterGetDb
  <2>2. QED
    BY <1>a, <1>27, <2>1, MovedOn DEF DelDelete
<1>28. CASE DelClose(r)
  <2>1. "finish" \in Place /\ Fits("finish", loc[r])
    BY <1>a, <1>28 DEF DelClose, Fits, Named, Deleting, Place, Opening, Critical,
       Elsewhere, AfterGetDb
  <2>2. QED
    BY <1>a, <1>28, <2>1, MovedOn DEF DelClose
<1>29. QED
  BY <1>1, <1>2, <1>3, <1>4, <1>5, <1>6, <1>7, <1>8, <1>9, <1>10, <1>11, <1>12, <1>13,
     <1>14, <1>15, <1>16, <1>17, <1>18, <1>19, <1>20, <1>21, <1>22, <1>23, <1>24,
     <1>25, <1>26, <1>27, <1>28 DEF Start, HandlerStep

\* Every step of a handler keeps store, tree and history typed.
LEMMA DataStep ==
  ASSUME TypeInv, NEW r \in Req, Start(r) \/ HandlerStep(r)
  PROVE  DataOK'
<1>a. /\ ControlOK /\ DataOK /\ loc[r] \in Locals
      /\ pc[r] \in Named => loc[r].name \in Name
  BY DEF TypeInv, ControlOK, LocalsFit, Fits
<1> USE VocabularyAssumption, ServerAssumption DEF DataOK, store, tree, jobs, history
<1>1. CASE Start(r)
  BY <1>a, <1>1 DEF Start, LoginStart, IndexStart, AddStart, EditGetStart,
     EditPostStart, DelStart, Begin, Refuse
<1>2. CASE GetDb(r)
  BY <1>a, <1>2 DEF GetDb, Goroutine, Handler
<1>3. CASE IsLogn(r)
  BY <1>a, <1>3 DEF IsLogn, CloserDb
<1>4. CASE LoginSet(r)
  BY <1>a, <1>4 DEF LoginSet, CloserDb
<1>5. CASE NamesGet(r)
  BY <1>a, <1>5 DEF NamesGet, CloserDb
<1>6. CASE NamesScan(r)
  BY <1>a, <1>6 DEF NamesScan
<1>7. CASE NamesSet(r)
  BY <1>a, <1>7 DEF NamesSet, CloserDb, Fragments, Locals
<1>8. CASE IndexGet(r)
  BY <1>a, <1>8 DEF IndexGet, CloserDb
<1>9. CASE IndexStub(r)
  BY <1>a, <1>9 DEF IndexStub, Info, StubInfo
<1>10. CASE AddCheck(r)
  BY <1>a, <1>10 DEF AddCheck
<1>11. CASE AddCreate(r)
  <2>1. loc[r].name \in Name
    BY <1>a, <1>11 DEF AddCreate, Named
  <2>2. Fresh \in [ConfFile -> Content]
    BY DEF Fresh, Content
  <2>3. CASE UNCHANGED <<tree, history>>
    BY <1>a, <1>11, <2>3 DEF AddCreate
  <2>4. CASE /\ dirs' = dirs \cup {loc[r].name}
             /\ conf' = [conf EXCEPT ![loc[r].name] = Fresh]
             /\ creator' = [creator EXCEPT ![loc[r].name] = r]
             /\ existed' = existed \cup {loc[r].name}
             /\ UNCHANGED confirmed
    BY <1>a, <1>11, <2>1, <2>2, <2>4 DEF AddCreate
  <2>5. QED
    BY <1>11, <2>3, <2>4 DEF AddCreate
<1>12. CASE AddConf(r)
  BY <1>a, <1>12 DEF AddConf, WriteFile, HasConf, Content, ConfFile
<1>13. CASE AddSet(r)
  <2>1. \A c \in Data, t \in Time : [cname |-> c, ctime |-> t] \in Info
    BY DEF Info
  <2>2. info' \in [Name -> Info \cup {NoInfo}]
    <3>1. PICK c \in Data, t \in Time :
            info' = [info EXCEPT ![loc[r].name] = [cname |-> c, ctime |-> t]]
      BY <1>13 DEF AddSet
    <3>2. QED
      BY <1>a, <2>1, <3>1
  <2>3. QED
    BY <1>a, <1>13, <2>2 DEF AddSet, CloserDb
<1>14. CASE Finish(r)
  BY <1>a, <1>14 DEF Finish, Named
<1>15. CASE ReadGet(r)
  BY <1>a, <1>15 DEF ReadGet, CloserDb
<1>16. CASE EditName(r)
  BY <1>a, <1>16 DEF EditName
<1>17. CASE EditGet(r)
  BY <1>a, <1>17 DEF EditGet
<1>18. CASE EditSet(r)
  <2>1. CtimeOf(loc[r].snap) \in Time \cup {Blank}
    BY <1>a DEF CtimeOf, Info, Locals
  <2>2. \A c \in Data \cup {Blank} : [cname |-> c, ctime |-> CtimeOf(loc[r].snap)] \in Info
    BY <2>1 DEF Info
  <2>3. info' \in [Name -> Info \cup {NoInfo}]
    <3>1. PICK c \in Data \cup {Blank} :
            info' = [info EXCEPT ![loc[r].name] = [cname |-> c, ctime |-> CtimeOf(loc[r].snap)]]
      BY <1>18 DEF EditSet
    <3>2. QED
      BY <1>a, <2>2, <3>1
  <2>4. QED
    BY <1>a, <1>18, <2>3 DEF EditSet, CloserDb
<1>19. CASE EditAuthz(r)
  BY <1>a, <1>19 DEF EditAuthz, WriteFile, HasConf, Content, ConfFile, Locals
<1>20. CASE EditPasswd(r)
  BY <1>a, <1>20 DEF EditPasswd, WriteFile, HasConf, Content, ConfFile, Locals
<1>21. CASE DelRemove(r)
  <2>1. Removed \in [ConfFile -> Content]
    BY DEF Removed, Content
  <2>2. ASSUME NEW n \in Name, NEW S PROVE
          [f \in ConfFile |-> IF f \in S THEN "gone" ELSE conf[n][f]] \in [ConfFile -> Content]
    BY <1>a DEF Content
  <2>3. loc[r].name \in Name
    BY <1>a, <1>21 DEF DelRemove, Named
  <2>4. conf' \in [Name -> [ConfFile -> Content]]
    <3>1. CASE UNCHANGED conf
      BY <1>a, <3>1
    <3>2. CASE conf' = [conf EXCEPT ![loc[r].name] = Removed]
      BY <1>a, <2>1, <3>2
    <3>3. ASSUME NEW S,
                 conf' = [conf EXCEPT ![loc[r].name] =
                            [f \in ConfFile |-> IF f \in S THEN "gone" ELSE @[f]]]
          PROVE  conf' \in [Name -> [ConfFile -> Content]]
      BY <1>a, <2>2, <2>3, <3>3
    <3>4. QED
      BY <1>21, <3>1, <3>2, <3>3 DEF DelRemove
  <2>5. QED
    BY <1>a, <1>21, <2>3, <2>4 DEF DelRemove
<1>22. CASE DelDelete(r)
  BY <1>a, <1>22 DEF DelDelete, CloserDb
<1>23. CASE DelClose(r)
  BY <1>a, <1>23 DEF DelClose, CloserDb
<1>24. QED
  BY <1>1, <1>2, <1>3, <1>4, <1>5, <1>6, <1>7, <1>8, <1>9, <1>10, <1>11, <1>12, <1>13,
     <1>14, <1>15, <1>16, <1>17, <1>18, <1>19, <1>20, <1>21, <1>22, <1>23 DEF
     HandlerStep

\* So does every step of a refresh, its panic included.
LEMMA RefreshTyped ==
  ASSUME TypeInv, NEW j \in Job, RefreshStep(j)
  PROVE  TypeInv'
<1> USE VocabularyAssumption, ServerAssumption
    DEF TypeInv, ControlOK, DataOK, store, tree, jobs, history, Answer
<1>1. CASE RefreshScan(j)
  BY <1>1 DEF RefreshScan, LocalsFit
<1>2. CASE RefreshOpen(j)
  BY <1>2 DEF RefreshOpen, LocalsFit, Goroutine, Refresher
<1>3. CASE RefreshSet(j)
  BY <1>3 DEF RefreshSet, LocalsFit, CloserDb, Fragments
<1>4. CASE RefreshPanic(j)
  <2>1. NoLocals \in Locals /\ "idle" \in Place /\ Fits("idle", NoLocals)
    BY DEF Locals, NoLocals, Place, Elsewhere, Fits, Named, Deleting
  <2>2. QED
    BY <1>4, <2>1 DEF RefreshPanic, LocalsFit
<1>5. QED
  BY <1>1, <1>2, <1>3, <1>4 DEF RefreshStep

\* The server starts in a typed state.
LEMMA TypeInvInit == Init => TypeInv
<1> SUFFICES ASSUME Init PROVE TypeInv
  OBVIOUS
<1>1. NoLocals \in Locals /\ "idle" \in Place /\ Fits("idle", NoLocals)
  BY DEF Locals, NoLocals, Place, Elsewhere, Fits, Named, Deleting
<1>2. ControlOK
  BY <1>1 DEF Init, ControlOK, LocalsFit, Answer
<1>3. DataOK
  BY DEF Init, DataOK, Fresh, Removed, ConfFile, Content
<1>4. QED
  BY <1>2, <1>3 DEF TypeInv

\* TypeInv is inductive.
LEMMA TypeInvStep == TypeInv /\ [Next]_vars => TypeInv'
<1> SUFFICES ASSUME TypeInv, [Next]_vars PROVE TypeInv'
  OBVIOUS
<1>1. ASSUME NEW r \in Req, Start(r) \/ HandlerStep(r) PROVE TypeInv'
  BY <1>1, ControlStep, DataStep DEF TypeInv
<1>2. ASSUME NEW j \in Job, RefreshStep(j) PROVE TypeInv'
  BY <1>2, RefreshTyped
<1>3. CASE Restart
  BY <1>3 DEF Restart, TypeInv, ControlOK, LocalsFit, DataOK, Answer, store, tree,
     jobs, history
<1>4. CASE UNCHANGED vars
  BY <1>4 DEF vars, TypeInv, ControlOK, LocalsFit, DataOK, store, tree, jobs, history
<1>5. QED
  BY <1>1, <1>2, <1>3, <1>4 DEF Next

\* The types of GoServer's variables, and with them that no handler goes on
\* without a project name or to a place that the code does not have.
THEOREM TypeCorrect == Spec => []TypeOK
<1>1. TypeInv => TypeOK
  BY DEF TypeInv, ControlOK, DataOK, TypeOK
<1>2. QED
  BY <1>1, TypeInvInit, TypeInvStep, PTL DEF Spec

-----------------------------------------------------------------------------
(* One goroutine has the store open *)

\* A step of one handler leaves the others where they are.
LEMMA OthersStand ==
  ASSUME TypeInv, NEW r \in Req, Start(r) \/ HandlerStep(r)
  PROVE  \A q \in Req \ {r} : pc'[q] = pc[q] /\ loc'[q] = loc[q]
<1>1. pc \in [Req -> Place] /\ loc \in [Req -> Locals]
  BY DEF TypeInv, ControlOK
<1>2. CASE Start(r)
  BY <1>1, <1>2 DEF Start, LoginStart, IndexStart, AddStart, EditGetStart,
     EditPostStart, DelStart, Begin, Refuse, Goto, Respond
<1>3. CASE HandlerStep(r)
  BY <1>1, <1>3
     DEF HandlerStep, GetDb, IsLogn, LoginSet, NamesGet, NamesScan, NamesSet,
         IndexGet, IndexStub, AddCheck, AddCreate, AddConf, AddSet, Finish, ReadGet,
         EditName, EditGet, EditSet, EditAuthz, EditPasswd, DelRemove, DelDelete,
         DelClose, Goto, Respond
<1>4. QED
  BY <1>2, <1>3

\* All handlers and refreshes are different goroutines.
LEMMA Goroutines ==
  /\ \A q, r \in Req : Handler(q) # NoOne /\ (Handler(q) = Handler(r) => q = r)
  /\ \A i, j \in Job : Refresher(i) # NoOne /\ (Refresher(i) = Refresher(j) => i = j)
  /\ \A r \in Req, j \in Job : Handler(r) # Refresher(j)
  BY ServerAssumption DEF Handler, Refresher, Goroutine

\* A handler that moves to l does right by the handle if it stays on the same
\* side of the lock, opens a store that is not open, or closes on its way out.
LEMMA HandleKept ==
  ASSUME TypeInv, OneOpenHandle, NEW r \in Req, NEW l,
         pc' = [pc EXCEPT ![r] = l],
         \A j \in Job : bg'[j] = "set" <=> bg[j] = "set",
         \/ handle' = handle /\ (pc[r] \in Critical <=> l \in Critical)
         \/ handle = NoOne /\ handle' = Handler(r) /\ l \in Critical
         \/ CloserDb(Handler(r)) /\ l \notin Critical
  PROVE  OneOpenHandle'
  BY Goroutines DEF TypeInv, ControlOK, OneOpenHandle, CloserDb

\* No step of a handler brings a second goroutine into the store.
LEMMA HandlerOpenHandle ==
  ASSUME TypeInv, OneOpenHandle, NEW r \in Req, Start(r) \/ HandlerStep(r)
  PROVE  OneOpenHandle'
<1>a. /\ pc[r] \in {"auth_get"} => loc[r].kind \in DOMAIN AfterAuth
      /\ bg \in [Job -> {"none", "scan", "open", "set"}]
  BY DEF TypeInv, ControlOK, LocalsFit, Fits, DataOK
<1> USE DEF Critical, Goto, Respond, jobs
<1>1. CASE Start(r)
  BY <1>1, HandleKept DEF Start, LoginStart, IndexStart, AddStart, EditGetStart,
     EditPostStart, DelStart, Begin, Refuse, Free
<1>2. CASE GetDb(r)
  BY <1>a, <1>2, HandleKept DEF GetDb, Opening, AfterGetDb
<1>3. CASE IsLogn(r)
  BY <1>a, <1>3, HandleKept DEF IsLogn, AfterAuth
<1>4. CASE LoginSet(r)
  BY <1>a, <1>4, HandleKept DEF LoginSet
<1>5. CASE NamesGet(r)
  BY <1>a, <1>5, HandleKept DEF NamesGet
<1>6. CASE NamesScan(r)
  BY <1>a, <1>6, HandleKept DEF NamesScan
<1>7. CASE NamesSet(r)
  BY <1>a, <1>7, HandleKept DEF NamesSet
<1>8. CASE IndexGet(r)
  BY <1>a, <1>8, HandleKept DEF IndexGet
<1>9. CASE IndexStub(r)
  BY <1>a, <1>9, HandleKept DEF IndexStub
<1>10. CASE AddCheck(r)
  BY <1>a, <1>10, HandleKept DEF AddCheck
<1>11. CASE AddCreate(r)
  BY <1>a, <1>11, HandleKept DEF AddCreate
<1>12. CASE AddConf(r)
  BY <1>a, <1>12, HandleKept DEF AddConf
<1>13. CASE AddSet(r)
  BY <1>a, <1>13, HandleKept DEF AddSet
<1>14. CASE Finish(r)
  BY <1>a, <1>14, HandleKept DEF Finish
<1>15. CASE ReadGet(r)
  BY <1>a, <1>15, HandleKept DEF ReadGet
<1>16. CASE EditName(r)
  BY <1>a, <1>16, HandleKept DEF EditName
<1>17. CASE EditGet(r)
  BY <1>a, <1>17, HandleKept DEF EditGet
<1>18. CASE EditSet(r)
  BY <1>a, <1>18, HandleKept DEF EditSet
<1>19. CASE EditAuthz(r)
  BY <1>a, <1>19, HandleKept DEF EditAuthz
<1>20. CASE EditPasswd(r)
  BY <1>a, <1>20, HandleKept DEF EditPasswd
<1>21. CASE DelRemove(r)
  BY <1>a, <1>21, HandleKept DEF DelRemove
<1>22. CASE DelDelete(r)
  BY <1>a, <1>22, HandleKept DEF DelDelete
<1>23. CASE DelClose(r)
  BY <1>a, <1>23, HandleKept DEF DelClose
<1>24. QED
  BY <1>1, <1>2, <1>3, <1>4, <1>5, <1>6, <1>7, <1>8, <1>9, <1>10, <1>11, <1>12,
     <1>13, <1>14, <1>15, <1>16, <1>17, <1>18, <1>19, <1>20, <1>21, <1>22, <1>23
     DEF HandlerStep

\* Nor does any other step.
LEMMA OpenHandleStep == TypeInv /\ OneOpenHandle /\ [Next]_vars => OneOpenHandle'
<1> SUFFICES ASSUME TypeInv, OneOpenHandle, [Next]_vars PROVE OneOpenHandle'
  OBVIOUS
<1>1. ASSUME NEW r \in Req, Start(r) \/ HandlerStep(r) PROVE OneOpenHandle'
  BY <1>1, HandlerOpenHandle
<1>2. ASSUME NEW j \in Job, RefreshStep(j) PROVE OneOpenHandle'
  BY <1>2, Goroutines
     DEF RefreshStep, RefreshScan, RefreshOpen, RefreshSet, RefreshPanic, CloserDb,
         OneOpenHandle, Critical, TypeInv, DataOK
<1>3. CASE Restart \/ UNCHANGED vars
  BY <1>3 DEF Restart, vars, jobs, OneOpenHandle
<1>4. QED
  BY <1>1, <1>2, <1>3 DEF Next

\* No two goroutines ever have the store open, and it is open only while one is
\* between GetDb and CloserDb: the second Close of Del, a panic in GetDb, an
\* early return or a dying process never takes or leaks a handle.
THEOREM HandleExclusive == Spec => []OneOpenHandle
<1>1. Init => OneOpenHandle
  BY Goroutines DEF Init, OneOpenHandle, Critical
<1>2. QED
  BY <1>1, TypeInvInit, TypeInvStep, OpenHandleStep, PTL DEF Spec

-----------------------------------------------------------------------------
(* The store changes as if every operation were one step *)

LockInv == TypeInv /\ OneOpenHandle

\* The invariant about the file lock is inductive ...
LEMMA LockInvStep == LockInv /\ [Next]_vars => LockInv'
  BY TypeInvStep, OpenHandleStep DEF LockInv

\* ... and holds when the server starts.
LEMMA LockInvInit == Init => LockInv
<1>1. Init => OneOpenHandle
  BY Goroutines DEF Init, OneOpenHandle, Critical
<1>2. QED
  BY <1>1, TypeInvInit DEF LockInv

\* Only a handler that has the store open writes a record, so nobody else is
\* between reading and writing one.
LEMMA WriterIsAlone ==
  ASSUME LockInv, NEW r \in Req, pc[r] \in Critical
  PROVE  \A q \in Req \ {r} : pc[q] \notin Critical
  BY Goroutines DEF LockInv, OneOpenHandle

\* Every step keeps what Index and Edit have read of a record current.
LEMMA SnapshotStep == LockInv /\ SnapshotCurrent /\ [Next]_vars => SnapshotCurrent'
<1> SUFFICES ASSUME LockInv, SnapshotCurrent, [Next]_vars PROVE SnapshotCurrent'
  OBVIOUS
<1>a. TypeInv /\ pc \in [Req -> Place] /\ loc \in [Req -> Locals]
  BY DEF LockInv, TypeInv, ControlOK
<1>1. ASSUME NEW r \in Req, Start(r) \/ HandlerStep(r) PROVE SnapshotCurrent'
  <2>1. CASE pc[r] \in {"index_get", "edit_get"}
    <3>1. IndexGet(r) \/ EditGet(r)
      BY <1>1, <2>1
         DEF HandlerStep, GetDb, IsLogn, LoginSet, NamesGet, NamesScan, NamesSet,
             IndexGet, IndexStub, AddCheck, AddCreate, AddConf, AddSet, Finish,
             ReadGet, EditName, EditGet, EditSet, EditAuthz, EditPasswd, DelRemove,
             DelDelete, DelClose, Opening, AfterGetDb,
             Start, LoginStart, IndexStart, AddStart, EditGetStart,
             EditPostStart, DelStart, Begin, Refuse,
             Free
    <3>2. UNCHANGED info
      BY <3>1 DEF IndexGet, EditGet, store
    <3>3. pc'[r] \in {"index_stub", "edit_set"} => loc'[r].snap = info[loc'[r].name]
      <4>1. CASE EditGet(r)
        BY <1>a, <4>1 DEF EditGet, Locals
      <4>2. ASSUME NEW n, loc' = [loc EXCEPT ![r] = [@ EXCEPT !.name = n, !.snap = info[n]]]
            PROVE  loc'[r].snap = info[loc'[r].name]
        BY <1>a, <4>2 DEF Locals
      <4>3. CASE IndexGet(r) /\ pc'[r] # "idle"
        BY <1>a, <4>2, <4>3 DEF IndexGet, Respond
      <4>4. QED
        BY <3>1, <4>1, <4>3
    <3>4. QED
      BY <1>1, <1>a, <3>2, <3>3, OthersStand DEF SnapshotCurrent
  <2>2. CASE pc[r] \notin {"index_get", "edit_get"}
    <3>1. pc'[r] \notin {"index_stub", "edit_set"}
      <4>1. CASE Start(r)
        BY <1>a, <4>1
           DEF Start, LoginStart, IndexStart, AddStart, EditGetStart,
               EditPostStart, DelStart, Begin, Refuse, Goto, Respond
      <4>2. CASE GetDb(r)
        BY <1>a, <4>2 DEF GetDb, Opening, AfterGetDb, Goto, Respond
      <4>3. CASE IsLogn(r)
        <5>1. loc[r].kind \in DOMAIN AfterAuth
          BY <1>a, <4>3 DEF IsLogn, TypeInv, ControlOK, LocalsFit, Fits
        <5>2. QED
          BY <1>a, <4>3, <5>1 DEF IsLogn, AfterAuth, Goto, Respond
      <4>4. CASE HandlerStep(r) /\ ~GetDb(r) /\ ~IsLogn(r)
        BY <1>a, <2>2, <4>4
           DEF HandlerStep, LoginSet, NamesGet, NamesScan, NamesSet, IndexGet,
               IndexStub, AddCheck, AddCreate, AddConf, AddSet, Finish, ReadGet,
               EditName, EditGet, EditSet, EditAuthz, EditPasswd, DelRemove,
               DelDelete, DelClose,
               Goto, Respond
      <4>5. QED
        BY <1>1, <4>1, <4>2, <4>3, <4>4
    <3>2. CASE UNCHANGED info
      BY <1>1, <1>a, <3>1, <3>2, OthersStand DEF SnapshotCurrent
    <3>3. CASE info' # info
      <4>1. pc[r] \in Critical
        BY <1>1, <3>3
           DEF HandlerStep, GetDb, IsLogn, LoginSet, NamesGet, NamesScan, NamesSet,
               IndexGet, IndexStub, AddCheck, AddCreate, AddConf, AddSet, Finish,
               ReadGet, EditName, EditGet, EditSet, EditAuthz, EditPasswd, DelRemove,
               DelDelete, DelClose, store, Critical,
               Start, LoginStart, IndexStart, AddStart, EditGetStart,
               EditPostStart, DelStart, Begin, Refuse
      <4>2. QED
        BY <1>1, <1>a, <3>1, <4>1, OthersStand, WriterIsAlone DEF SnapshotCurrent,
           Critical
    <3>4. QED
      BY <3>2, <3>3
  <2>3. QED
    BY <2>1, <2>2
<1>2. ASSUME NEW j \in Job, RefreshStep(j) PROVE SnapshotCurrent'
  BY <1>2 DEF RefreshStep, RefreshScan, RefreshOpen, RefreshSet, RefreshPanic,
              store, SnapshotCurrent
<1>3. CASE Restart \/ UNCHANGED vars
  BY <1>3 DEF Restart, vars, store, SnapshotCurrent
<1>4. QED
  BY <1>1, <1>2, <1>3 DEF Next

\* Every step of a handler is a step of the abstract store or leaves it alone.
LEMMA StoreStep ==
  ASSUME LockInv, SnapshotCurrent, [Next]_vars
  PROVE  [Store!StoreNext]_(Store!store)
<1>a. TypeInv /\ loc \in [Req -> Locals]
  BY DEF LockInv, TypeInv, ControlOK
<1>b. ASSUME NEW r \in Req, pc[r] \in Named PROVE loc[r].name \in Name
  BY <1>b DEF LockInv, TypeInv, ControlOK, LocalsFit, Fits
<1>1. ASSUME NEW r \in Req, LoginSet(r) PROVE Store!StoreNext
  BY <1>1 DEF LoginSet, Store!StoreNext, Store!SetToken
<1>2. ASSUME NEW r \in Req, NamesSet(r) PROVE Store!StoreNext
  <2>1. Fragments(loc[r].todo) \in SUBSET Name
    BY <1>a, ServerAssumption DEF Fragments, Locals
  <2>2. Store!SetFiles(Fragments(loc[r].todo))
    BY <1>2 DEF NamesSet, Store!SetFiles
  <2>3. QED
    BY <2>1, <2>2 DEF Store!StoreNext
<1>3. ASSUME NEW r \in Req, IndexStub(r)
      PROVE  Store!StoreNext \/ UNCHANGED Store!store
  <2>1. loc[r].name \in Name /\ loc[r].snap = info[loc[r].name]
    BY <1>3, <1>b DEF IndexStub, Named, SnapshotCurrent
  <2>2. CASE loc[r].snap = NoInfo
    <3>1. Store!Stub(loc[r].name)
      BY <1>3, <2>1, <2>2 DEF IndexStub, Store!Stub, StubInfo, Store!StubInfo, Blank,
         Store!Blank
    <3>2. QED
      BY <2>1, <3>1 DEF Store!StoreNext
  <2>3. CASE loc[r].snap # NoInfo
    BY <1>3, <2>3 DEF IndexStub, Store!store
  <2>4. QED
    BY <2>2, <2>3
<1>4. ASSUME NEW r \in Req, AddSet(r) PROVE Store!StoreNext
  <2>1. loc[r].name \in Name
    BY <1>4, <1>b DEF AddSet, Named
  <2>2. PICK c \in Data, t \in Time : Store!Create(loc[r].name, c, t)
    BY <1>4 DEF AddSet, Store!Create
  <2>3. QED
    BY <2>1, <2>2 DEF Store!StoreNext
<1>5. ASSUME NEW r \in Req, EditSet(r) PROVE Store!StoreNext
  <2>1. loc[r].name \in Name /\ loc[r].snap = info[loc[r].name]
    BY <1>5, <1>b DEF EditSet, Named, SnapshotCurrent
  <2>2. PICK c \in Data \cup {Blank} : Store!Update(loc[r].name, c)
    BY <1>5, <2>1 DEF EditSet, Store!Update, CtimeOf, Store!CtimeOf, Blank, Store!Blank
  <2>3. QED
    BY <2>1, <2>2 DEF Store!StoreNext, Blank, Store!Blank
<1>6. ASSUME NEW r \in Req, DelDelete(r) PROVE Store!StoreNext
  <2>1. loc[r].name \in Name
    BY <1>6, <1>b DEF DelDelete, Named
  <2>2. Store!Delete(loc[r].name)
    BY <1>6 DEF DelDelete, Store!Delete
  <2>3. QED
    BY <2>1, <2>2 DEF Store!StoreNext
<1>7. ASSUME NEW j \in Job, RefreshSet(j) PROVE Store!StoreNext
  <2>1. Fragments(scan[j]) \in SUBSET Name
    BY <1>a, ServerAssumption DEF Fragments, TypeInv, DataOK
  <2>2. Store!SetFiles(Fragments(scan[j]))
    BY <1>7 DEF RefreshSet, Store!SetFiles
  <2>3. QED
    BY <2>1, <2>2 DEF Store!StoreNext
<1>8. ASSUME NEW r \in Req, Start(r) PROVE UNCHANGED Store!store
  BY <1>8 DEF Start, LoginStart, IndexStart, AddStart, EditGetStart, EditPostStart,
     DelStart, Begin, Refuse, store, Store!store
<1>9. ASSUME NEW r \in Req, HandlerStep(r), ~LoginSet(r), ~NamesSet(r), ~IndexStub(r),
             ~AddSet(r), ~EditSet(r), ~DelDelete(r)
      PROVE  UNCHANGED Store!store
  BY <1>9 DEF HandlerStep, GetDb, IsLogn, NamesGet, NamesScan, IndexGet, AddCheck,
     AddCreate, AddConf, Finish, ReadGet, EditName, EditGet, EditAuthz, EditPasswd,
     DelRemove, DelClose, store, Store!store
<1>10. ASSUME NEW j \in Job, RefreshStep(j), ~RefreshSet(j) PROVE UNCHANGED Store!store
  BY <1>10 DEF RefreshStep, RefreshScan, RefreshOpen, RefreshPanic, store, Store!store
<1>11. CASE Restart \/ UNCHANGED vars
  BY <1>11 DEF Restart, vars, store, Store!store
<1>12. QED
  BY <1>1, <1>2, <1>3, <1>4, <1>5, <1>6, <1>7, <1>8, <1>9, <1>10, <1>11 DEF Next

\* What Index and Edit have read of a record is current when they write it.
THEOREM SnapshotsCurrent == Spec => []SnapshotCurrent
<1>1. Init => SnapshotCurrent
  BY DEF Init, SnapshotCurrent
<1>2. QED
  BY <1>1, LockInvInit, LockInvStep, SnapshotStep, PTL DEF Spec

\* GoServer implements ProjectStore: in spite of interleaved handlers, panics
\* and restarts, Edit never loses the creation time that a record has, and
\* Index never overwrites a record that Add or Edit has just written.
THEOREM StoreImplemented == Spec => StoreAtomic
<1>1. Init => Store!StoreInit
  BY DEF Init, Store!StoreInit, Blank, Store!Blank
<1>2. Init => SnapshotCurrent
  BY DEF Init, SnapshotCurrent
<1>3. QED
  BY <1>1, <1>2, LockInvInit, LockInvStep, SnapshotStep, StoreStep, PTL
     DEF Spec, StoreAtomic, Store!StoreSpec

-----------------------------------------------------------------------------
(* A project that Add has confirmed stays intact *)

HasCtime(n) == info[n] # NoInfo /\ info[n].ctime # Blank

\* How far an Add has come whose project no Del has touched meanwhile.
AddProgress ==
    \A r \in Req, n \in Name :
        loc[r].name = n /\ creator[n] = r =>
            /\ pc[r] = "add_conf" => n \in dirs /\ conf[n]["svnserve.conf"] # "gone"
            /\ \/ pc[r] \in {"add_open", "add_set"}
               \/ pc[r] = "finish" /\ loc[r].kind = "add"
               => n \in dirs /\ conf[n]["svnserve.conf"] = "closed"
            /\ pc[r] = "finish" /\ loc[r].kind = "add" => HasCtime(n)

\* What a step may do to the repository and the record of n and to the history
\* kept about them: spoil them, which only a Del of n does; make them; keep them.
Spoilt(n) == creator'[n] = NoOne /\ n \notin confirmed'

Made(n) == \E r \in Req : AddCreate(r) /\ loc[r].name = n /\ n \notin dirs /\ n \in dirs'

Kept(n) ==
    /\ creator'[n] = creator[n]
    /\ n \in dirs => n \in dirs'
    /\ conf[n]["svnserve.conf"] # "gone" => conf'[n]["svnserve.conf"] # "gone"
    /\ conf[n]["svnserve.conf"] = "closed" => conf'[n]["svnserve.conf"] = "closed"
    /\ HasCtime(n) => HasCtime(n)'

\* To one project a step does one of three things.
LEMMA StepOnProject ==
  ASSUME LockInv, SnapshotCurrent, [Next]_vars, NEW n \in Name
  PROVE  Spoilt(n) \/ Made(n) \/ Kept(n)
<1>a. /\ info \in [Name -> Info \cup {NoInfo}]
      /\ conf \in [Name -> [ConfFile -> Content]]
      /\ creator \in [Name -> Req \cup {NoOne}]
  BY DEF LockInv, TypeInv, DataOK
<1>b. ASSUME UNCHANGED <<creator, dirs, conf, info>> PROVE Kept(n)
  BY <1>b DEF Kept, HasCtime
<1>c. ASSUME NEW m, NEW f \in ConfFile, NEW c, WriteFile(m, f, c),
             f = "svnserve.conf" => c = "closed",
             UNCHANGED <<creator, dirs, info>>
      PROVE  Kept(n)
  BY <1>a, <1>c DEF WriteFile, Kept, HasCtime, ConfFile
<1>d. ASSUME UNCHANGED <<creator, dirs, conf>>, HasCtime(n) => HasCtime(n)' PROVE Kept(n)
  BY <1>d DEF Kept
<1>1. ASSUME NEW r \in Req, IndexStub(r) PROVE Kept(n)
  <2>1. loc[r].snap = info[loc[r].name]
    BY <1>1 DEF IndexStub, SnapshotCurrent
  <2>2. HasCtime(n) => HasCtime(n)'
    BY <1>a, <1>1, <2>1 DEF IndexStub, HasCtime
  <2>3. QED
    BY <1>1, <1>d, <2>2 DEF IndexStub, tree, history
<1>2. ASSUME NEW r \in Req, AddCreate(r) PROVE Made(n) \/ Kept(n)
  <2>1. CASE UNCHANGED <<tree, history>>
    BY <1>2, <1>b, <2>1 DEF AddCreate, tree, history, store
  <2>2. CASE loc[r].name = n /\ n \notin dirs /\ n \in dirs'
    BY <1>2, <2>2 DEF Made
  <2>3. CASE /\ loc[r].name # n
             /\ dirs' = dirs \cup {loc[r].name}
             /\ conf' = [conf EXCEPT ![loc[r].name] = Fresh]
             /\ creator' = [creator EXCEPT ![loc[r].name] = r]
    BY <1>a, <1>2, <2>3 DEF AddCreate, Kept, HasCtime, store
  <2>4. QED
    BY <1>2, <2>1, <2>2, <2>3 DEF AddCreate
<1>3. ASSUME NEW r \in Req, AddConf(r) PROVE Kept(n)
  BY <1>3, <1>c DEF AddConf, history, store, ConfFile
<1>4. ASSUME NEW r \in Req, AddSet(r) PROVE Kept(n)
  <2>1. PICK c \in Data, t \in Time :
          info' = [info EXCEPT ![loc[r].name] = [cname |-> c, ctime |-> t]]
    BY <1>4 DEF AddSet
  <2>2. [cname |-> c, ctime |-> t] \in Info
    BY DEF Info
  <2>3. HasCtime(n) => HasCtime(n)'
    BY <1>a, <2>1, <2>2, VocabularyAssumption DEF HasCtime
  <2>4. QED
    BY <1>4, <1>d, <2>3 DEF AddSet, tree, history
<1>5. ASSUME NEW r \in Req, EditSet(r) PROVE Kept(n)
  <2>1. loc[r].snap = info[loc[r].name]
    BY <1>5 DEF EditSet, SnapshotCurrent
  <2>2. PICK c \in Data \cup {Blank} :
          info' = [info EXCEPT ![loc[r].name] = [cname |-> c, ctime |-> CtimeOf(info[loc[r].name])]]
    BY <1>5, <2>1 DEF EditSet
  <2>3. HasCtime(n) => [cname |-> c, ctime |-> CtimeOf(info[n])] \in Info
    BY <1>a DEF Info, HasCtime, CtimeOf
  <2>4. HasCtime(n) => HasCtime(n)'
    BY <1>a, <2>2, <2>3, VocabularyAssumption DEF HasCtime, CtimeOf
  <2>5. QED
    BY <1>5, <1>d, <2>4 DEF EditSet, tree, history
<1>6. ASSUME NEW r \in Req, EditAuthz(r) \/ EditPasswd(r) PROVE Kept(n)
  BY <1>6, <1>c DEF EditAuthz, EditPasswd, history, store, ConfFile
<1>7. ASSUME NEW r \in Req, DelRemove(r) PROVE Spoilt(n) \/ Kept(n)
  <2>1. CASE UNCHANGED <<tree, history>>
    BY <1>7, <1>b, <2>1 DEF DelRemove, tree, history, store
  <2>2. CASE loc[r].name = n /\ creator' = [creator EXCEPT ![n] = NoOne] /\ confirmed' = confirmed \ {n}
    BY <1>a, <2>2 DEF Spoilt
  <2>3. CASE loc[r].name # n
    BY <1>a, <1>7, <2>3 DEF DelRemove, Kept, HasCtime, store, tree, history
  <2>4. QED
    BY <1>7, <2>1, <2>2, <2>3 DEF DelRemove
<1>8. ASSUME NEW r \in Req, DelDelete(r) PROVE Spoilt(n) \/ Kept(n)
  BY <1>a, <1>8 DEF DelDelete, Spoilt, Kept, HasCtime, tree
<1>9. ASSUME NEW r \in Req, Start(r) PROVE Kept(n)
  BY <1>9, <1>b DEF Start, LoginStart, IndexStart, AddStart, EditGetStart,
     EditPostStart, DelStart, Begin, Refuse, store, tree, history
<1>10. ASSUME NEW r \in Req, HandlerStep(r), ~IndexStub(r), ~AddCreate(r),
              ~AddConf(r), ~AddSet(r), ~EditSet(r), ~EditAuthz(r), ~EditPasswd(r),
              ~DelRemove(r), ~DelDelete(r)
      PROVE  Kept(n)
  BY <1>10, <1>b DEF HandlerStep, GetDb, IsLogn, LoginSet, NamesGet, NamesScan,
     NamesSet, IndexGet, AddCheck, Finish, ReadGet, EditName, EditGet, DelClose,
     store, tree, history
<1>11. ASSUME NEW j \in Job, RefreshStep(j) PROVE Kept(n)
  BY <1>11, <1>b DEF RefreshStep, RefreshScan, RefreshOpen, RefreshSet, RefreshPanic,
     store, tree, history
<1>12. CASE Restart \/ UNCHANGED vars
  BY <1>12, <1>b DEF Restart, vars, store, tree, history
<1>13. QED
  BY <1>1, <1>2, <1>3, <1>4, <1>5, <1>6, <1>7, <1>8, <1>9, <1>10, <1>11, <1>12 DEF Next

\* Every step keeps what an Add under way has achieved.
LEMMA AddProgressStep ==
  ASSUME LockInv, SnapshotCurrent, AddProgress, [Next]_vars
  PROVE  AddProgress'
<1>a. /\ TypeInv /\ pc \in [Req -> Place] /\ loc \in [Req -> Locals]
      /\ info \in [Name -> Info \cup {NoInfo}]
      /\ conf \in [Name -> [ConfFile -> Content]]
      /\ creator \in [Name -> Req \cup {NoOne}]
  BY DEF LockInv, TypeInv, ControlOK, DataOK
<1> SUFFICES ASSUME NEW r \in Req, NEW n \in Name, loc'[r].name = n, creator'[n] = r
             PROVE  /\ pc'[r] = "add_conf" => n \in dirs' /\ conf'[n]["svnserve.conf"] # "gone"
                    /\ \/ pc'[r] \in {"add_open", "add_set"}
                       \/ pc'[r] = "finish" /\ loc'[r].kind = "add"
                       => n \in dirs' /\ conf'[n]["svnserve.conf"] = "closed"
                    /\ pc'[r] = "finish" /\ loc'[r].kind = "add" => HasCtime(n)'
  BY DEF AddProgress, HasCtime
<1>1. CASE AddCreate(r)
  <2>1. CASE pc'[r] = "idle"
    BY <2>1
  <2>2. CASE pc'[r] # "idle"
    BY <1>a, <1>1, <2>2 DEF AddCreate, Goto, Respond, Fresh, ConfFile
  <2>3. QED
    BY <2>1, <2>2
<1>2. CASE ~AddCreate(r)
  <2>1. Kept(n)
    <3>1. ~Spoilt(n)
      BY ServerAssumption DEF Spoilt
    <3>2. ~Made(n)
      <4> SUFFICES ASSUME NEW q \in Req, AddCreate(q), loc[q].name = n, n \notin dirs, n \in dirs'
                   PROVE  q = r
        BY <1>2 DEF Made
      <4>1. QED
        BY <1>a DEF AddCreate, tree
    <3>3. QED
      BY <3>1, <3>2, StepOnProject
  <2>2. creator[n] = r
    BY <2>1 DEF Kept
  <2>3. CASE pc'[r] = pc[r] /\ loc'[r] = loc[r]
    BY <2>1, <2>2, <2>3 DEF AddProgress, Kept
  <2>4. CASE AddConf(r)
    <3>1. loc[r].name = n /\ pc[r] = "add_conf" /\ pc'[r] = "add_open"
      BY <1>a, <2>4 DEF AddConf, Goto
    <3>2. HasConf(n)
      BY <2>2, <3>1 DEF AddProgress, HasConf, ConfFile
    <3>3. conf'[n]["svnserve.conf"] = "closed" /\ n \in dirs'
      BY <1>a, <2>4, <3>1, <3>2 DEF AddConf, WriteFile, HasConf, ConfFile
    <3>4. QED
      BY <3>1, <3>3
  <2>5. CASE AddSet(r)
    <3>1. loc[r].name = n /\ pc[r] = "add_set" /\ pc'[r] = "finish" /\ UNCHANGED loc
      BY <1>a, <2>5 DEF AddSet, Goto
    <3>2. PICK c \in Data, t \in Time :
            info' = [info EXCEPT ![n] = [cname |-> c, ctime |-> t]]
      BY <2>5, <3>1 DEF AddSet
    <3>3. [cname |-> c, ctime |-> t] \in Info
      BY DEF Info
    <3>4. HasCtime(n)'
      BY <1>a, <3>2, <3>3, VocabularyAssumption DEF HasCtime
    <3>5. QED
      BY <2>1, <2>2, <3>1, <3>4 DEF AddProgress, Kept
  <2>6. CASE GetDb(r)
    <3>1. \/ pc'[r] = "add_set" /\ pc[r] = "add_open" /\ loc'[r] = loc[r]
          \/ pc'[r] \notin {"add_conf", "add_open", "add_set", "finish"}
      BY <1>a, <2>6 DEF GetDb, Opening, AfterGetDb, Goto, Respond
    <3>2. QED
      BY <2>1, <2>2, <3>1 DEF AddProgress, Kept
  <2>7. CASE DelClose(r)
    <3>1. pc'[r] = "finish" /\ loc'[r].kind = "del"
      BY <1>a, <2>7 DEF DelClose, Goto, TypeInv, ControlOK, LocalsFit, Fits, Deleting
    <3>2. QED
      BY <3>1
  <2>8. CASE IsLogn(r)
    <3>1. loc[r].kind \in DOMAIN AfterAuth
      BY <1>a, <2>8 DEF IsLogn, TypeInv, ControlOK, LocalsFit, Fits
    <3>2. pc'[r] \notin {"add_conf", "add_open", "add_set", "finish"}
      BY <1>a, <2>8, <3>1 DEF IsLogn, AfterAuth, Goto, Respond
    <3>3. QED
      BY <3>2
  <2>9. CASE /\ Start(r) \/ HandlerStep(r)
             /\ ~AddConf(r) /\ ~AddSet(r) /\ ~GetDb(r) /\ ~DelClose(r) /\ ~IsLogn(r)
    <3>1. pc'[r] \notin {"add_conf", "add_open", "add_set", "finish"}
      BY <1>a, <1>2, <2>9 DEF HandlerStep, LoginSet, NamesGet, NamesScan, NamesSet,
         IndexGet, IndexStub, AddCheck, Finish, ReadGet, EditName, EditGet, EditSet,
         EditAuthz, EditPasswd, DelRemove, DelDelete, Start, LoginStart, IndexStart,
         AddStart, EditGetStart, EditPostStart, DelStart, Begin, Refuse, Goto, Respond
    <3>2. QED
      BY <3>1
  <2>10. ASSUME NEW q \in Req, q # r, Start(q) \/ HandlerStep(q)
         PROVE  pc'[r] = pc[r] /\ loc'[r] = loc[r]
    BY <1>a, <2>10, OthersStand
  <2>11. ASSUME NEW j \in Job, RefreshStep(j)
         PROVE  pc'[r] = "idle" \/ (pc'[r] = pc[r] /\ loc'[r] = loc[r])
    BY <2>11 DEF RefreshStep, RefreshScan, RefreshOpen, RefreshSet, RefreshPanic
  <2>12. CASE Restart \/ UNCHANGED vars
    BY <2>3, <2>12 DEF Restart, vars
  <2>13. QED
    BY <2>3, <2>4, <2>5, <2>6, <2>7, <2>8, <2>9, <2>10, <2>11, <2>12 DEF Next
<1>3. QED
  BY <1>1, <1>2

\* Only the end of an Add confirms a project.
LEMMA Confirming ==
  ASSUME [Next]_vars, NEW n \in confirmed', n \notin confirmed
  PROVE  \E r \in Req : Finish(r) /\ loc[r].kind = "add" /\ loc[r].name = n /\ creator[n] = r
<1>1. ASSUME NEW r \in Req, Start(r) \/ HandlerStep(r)
      PROVE  Finish(r) /\ loc[r].kind = "add" /\ loc[r].name = n /\ creator[n] = r
  BY <1>1 DEF HandlerStep, GetDb, IsLogn, LoginSet, NamesGet, NamesScan, NamesSet,
     IndexGet, IndexStub, AddCheck, AddCreate, AddConf, AddSet, Finish, ReadGet,
     EditName, EditGet, EditSet, EditAuthz, EditPasswd, DelRemove, DelDelete,
     DelClose, Start, LoginStart, IndexStart, AddStart, EditGetStart, EditPostStart,
     DelStart, Begin, Refuse, history
<1>2. ASSUME NEW j \in Job, RefreshStep(j) PROVE FALSE
  BY <1>2 DEF RefreshStep, RefreshScan, RefreshOpen, RefreshSet, RefreshPanic, history
<1>3. ~(Restart \/ UNCHANGED vars)
  BY DEF Restart, vars, history
<1>4. QED
  BY <1>1, <1>2, <1>3 DEF Next

\* Every step keeps confirmed projects intact.
LEMMA ConfirmedStep ==
  ASSUME LockInv, SnapshotCurrent, AddProgress, ConfirmedIntact, [Next]_vars
  PROVE  ConfirmedIntact'
<1> SUFFICES ASSUME NEW n \in confirmed'
             PROVE  n \in dirs' /\ conf'[n]["svnserve.conf"] = "closed" /\ HasCtime(n)'
  BY DEF ConfirmedIntact, HasCtime
<1>1. n \in Name
  BY LockInvStep DEF LockInv, TypeInv, DataOK
<1>2. CASE n \in confirmed
  <2>1. n \in dirs /\ conf[n]["svnserve.conf"] = "closed" /\ HasCtime(n)
    BY <1>2 DEF ConfirmedIntact, HasCtime
  <2>2. ~Spoilt(n) /\ ~Made(n)
    BY <2>1 DEF Spoilt, Made
  <2>3. QED
    BY <1>1, <2>1, <2>2, StepOnProject DEF Kept
<1>3. CASE n \notin confirmed
  <2>1. PICK r \in Req : Finish(r) /\ loc[r].kind = "add" /\ loc[r].name = n /\ creator[n] = r
    BY <1>3, Confirming
  <2>2. n \in dirs /\ conf[n]["svnserve.conf"] = "closed" /\ HasCtime(n)
    BY <1>1, <2>1 DEF AddProgress, Finish
  <2>3. QED
    BY <2>1, <2>2 DEF Finish, store, tree, HasCtime
<1>4. QED
  BY <1>2, <1>3

\* Whatever other requests, refreshes, panics and restarts do, a project whose
\* Add was answered "created" keeps its directory, the server's own
\* svnserve.conf and a record with a creation time until a Del touches it.
THEOREM ConfirmedStaysIntact == Spec => []ConfirmedIntact
<1>1. Init => SnapshotCurrent /\ AddProgress /\ ConfirmedIntact
  BY ServerAssumption DEF Init, SnapshotCurrent, AddProgress, ConfirmedIntact
<1>2. QED
  BY <1>1, LockInvInit, LockInvStep, SnapshotStep, AddProgressStep, ConfirmedStep, PTL
     DEF Spec

-----------------------------------------------------------------------------
(* The listing *)

\* Without commas, splitting a joined listing yields the listing.
LEMMA SplitOfJoin ==
  ASSUME \A n \in Name : Parts[n] = {n}, NEW S \in SUBSET Name
  PROVE  Fragments(S) = S
  BY DEF Fragments

\* A handler learns names from the listing and from the directory only.
LEMMA TodoKnown ==
  ASSUME TypeInv, NEW r \in Req, Start(r) \/ HandlerStep(r)
  PROVE  loc'[r].todo \subseteq loc[r].todo \cup files \cup dirs
<1>a. loc \in [Req -> Locals] /\ loc[r] \in Locals
  BY DEF TypeInv, ControlOK
<1>b. ASSUME NEW c, Respond(r, c) PROVE loc'[r].todo = {}
  BY <1>a, <1>b DEF Respond, NoLocals
<1>c. ASSUME NEW k, NEW n, NEW l, Begin(r, k, n, l) PROVE loc'[r].todo = loc[r].todo
  BY <1>a, <1>c DEF Begin, Locals
<1>1. CASE Start(r)
  BY <1>1, <1>b, <1>c
     DEF Start, LoginStart, IndexStart, AddStart, EditGetStart, EditPostStart, DelStart, Refuse
<1>2. CASE NamesGet(r) \/ NamesScan(r)
  BY <1>a, <1>2 DEF NamesGet, NamesScan, Locals
<1>3. CASE IndexGet(r)
  <2>1. ASSUME NEW n, loc' = [loc EXCEPT ![r] = [@ EXCEPT !.name = n, !.snap = info[n]]]
        PROVE  loc'[r].todo = loc[r].todo
    BY <1>a, <2>1 DEF Locals
  <2>2. QED
    BY <1>3, <1>b, <2>1 DEF IndexGet
<1>4. CASE IndexStub(r)
  BY <1>a, <1>4 DEF IndexStub, Locals
<1>5. CASE EditName(r)
  BY <1>a, <1>5, <1>b DEF EditName, Locals
<1>6. CASE EditGet(r) \/ EditSet(r)
  <2>1. CASE EditGet(r)
    BY <1>a, <2>1 DEF EditGet, Locals
  <2>2. ASSUME NEW d, loc' = [loc EXCEPT ![r] = [@ EXCEPT !.data = d, !.snap = NoInfo]]
        PROVE  loc'[r].todo = loc[r].todo
    BY <1>a, <2>2 DEF Locals
  <2>3. QED
    BY <1>6, <2>1, <2>2 DEF EditSet
<1>7. CASE \/ GetDb(r) \/ IsLogn(r) \/ LoginSet(r) \/ NamesSet(r)
           \/ AddCheck(r) \/ AddCreate(r) \/ AddConf(r) \/ AddSet(r) \/ Finish(r)
           \/ ReadGet(r) \/ EditAuthz(r) \/ EditPasswd(r)
           \/ DelRemove(r) \/ DelDelete(r) \/ DelClose(r)
  <2>1. loc' = loc \/ \E c : Respond(r, c)
    BY <1>7 DEF GetDb, IsLogn, LoginSet, NamesSet, AddCheck, AddCreate, AddConf, AddSet,
                Finish, ReadGet, EditAuthz, EditPasswd, DelRemove, DelDelete, DelClose
  <2>2. QED
    BY <1>b, <2>1
<1>8. QED
  BY <1>1, <1>2, <1>3, <1>4, <1>5, <1>6, <1>7 DEF HandlerStep

\* Every step keeps listings within the directories that were ever there.
LEMMA ListedStep ==
  ASSUME \A n \in Name : Parts[n] = {n},
         TypeInv, dirs \subseteq existed, ListedExisted, [Next]_vars
  PROVE  (dirs \subseteq existed)' /\ ListedExisted'
<1>a. /\ loc \in [Req -> Locals] /\ scan \in [Job -> SUBSET Name]
      /\ \A r \in Req : loc[r].todo \in SUBSET Name
      /\ \A j \in Job : scan[j] \in SUBSET Name
  BY DEF TypeInv, ControlOK, DataOK, Locals
<1>1. ASSUME NEW r \in Req, Start(r) \/ HandlerStep(r)
      PROVE  (dirs \subseteq existed)' /\ ListedExisted'
  <2>1. /\ dirs' \subseteq existed' /\ existed \subseteq existed' /\ UNCHANGED scan
        /\ UNCHANGED files \/ files' = Fragments(loc[r].todo)
    BY <1>1 DEF HandlerStep, GetDb, IsLogn, LoginSet, NamesGet, NamesScan, NamesSet,
       IndexGet, IndexStub, AddCheck, AddCreate, AddConf, AddSet, Finish, ReadGet,
       EditName, EditGet, EditSet, EditAuthz, EditPasswd, DelRemove, DelDelete,
       DelClose, Start, LoginStart, IndexStart, AddStart, EditGetStart, EditPostStart,
       DelStart, Begin, Refuse, store, tree, jobs, history
  <2>2. files' \subseteq existed'
    BY <1>a, <2>1, SplitOfJoin DEF ListedExisted
  <2>3. \A q \in Req : loc'[q].todo \subseteq existed'
    BY <1>1, <2>1, OthersStand, TodoKnown DEF ListedExisted
  <2>4. QED
    BY <2>1, <2>2, <2>3 DEF ListedExisted
<1>2. ASSUME NEW j \in Job, RefreshStep(j)
      PROVE  (dirs \subseteq existed)' /\ ListedExisted'
  <2>1. CASE RefreshScan(j) \/ RefreshOpen(j)
    BY <1>a, <2>1 DEF RefreshScan, RefreshOpen, ListedExisted, store, tree, history
  <2>2. CASE RefreshSet(j)
    BY <1>a, <2>2, SplitOfJoin DEF RefreshSet, ListedExisted, tree, history
  <2>3. CASE RefreshPanic(j)
    BY <2>3 DEF RefreshPanic, ListedExisted, NoLocals, store, tree, history
  <2>4. QED
    BY <1>2, <2>1, <2>2, <2>3 DEF RefreshStep
<1>3. CASE Restart \/ UNCHANGED vars
  BY <1>3 DEF Restart, vars, ListedExisted, store, tree, jobs, history
<1>4. QED
  BY <1>1, <1>2, <1>3 DEF Next

\* As long as no name contains the separator, neither the stored listing nor a
\* listing in a handler's hands names a directory that never was.
THEOREM ListingIsOfDirectories ==
  ASSUME \A n \in Name : Parts[n] = {n}
  PROVE  Spec => []ListedExisted
<1>1. Init => dirs \subseteq existed /\ ListedExisted
  BY DEF Init, ListedExisted, NoLocals
<1>2. TypeInv /\ dirs \subseteq existed /\ ListedExisted /\ [Next]_vars
      => (dirs \subseteq existed)' /\ ListedExisted'
  BY ListedStep
<1>3. QED
  BY <1>1, <1>2, TypeInvInit, TypeInvStep, PTL DEF Spec

-----------------------------------------------------------------------------
(* What Index stores misses no confirmed project *)

\* Request r is an Add of n that has made its directory and written its record.
Answering(r, n) ==
    pc[r] = "finish" /\ loc[r].kind = "add" /\ loc[r].name = n /\ creator[n] = r

\* A listing between its reading and its writing has every project that is
\* confirmed or about to be.
ScanCurrent ==
    \A r \in Req : pc[r] = "names_set" =>
        /\ confirmed \subseteq loc[r].todo
        /\ \A q \in Req, n \in Name : Answering(q, n) => n \in loc[r].todo

\* How a handler gets to the two places that ScanCurrent is about.
LEMMA Reached ==
  ASSUME TypeInv, [Next]_vars, NEW r \in Req, pc'[r] \in {"names_set", "finish"}
  PROVE  \/ pc'[r] = pc[r] /\ loc'[r] = loc[r]
         \/ NamesScan(r) /\ pc'[r] = "names_set"
         \/ AddSet(r) /\ pc[r] = "add_set" /\ pc'[r] = "finish"
         \/ loc'[r].kind = "del" /\ pc'[r] = "finish"
<1>a. pc \in [Req -> Place] /\ loc \in [Req -> Locals] /\ loc[r] \in Locals
  BY DEF TypeInv, ControlOK
<1>1. CASE NamesScan(r)
  BY <1>a, <1>1 DEF NamesScan, Goto
<1>2. CASE AddSet(r)
  BY <1>a, <1>2 DEF AddSet, Goto
<1>3. CASE DelClose(r)
  BY <1>a, <1>3 DEF DelClose, Goto, TypeInv, ControlOK, LocalsFit, Fits, Deleting
<1>4. CASE GetDb(r)
  BY <1>a, <1>4 DEF GetDb, Opening, AfterGetDb, Goto, Respond
<1>5. CASE IsLogn(r)
  <2>1. loc[r].kind \in DOMAIN AfterAuth
    BY <1>a, <1>5 DEF IsLogn, TypeInv, ControlOK, LocalsFit, Fits
  <2>2. QED
    BY <1>a, <1>5, <2>1 DEF IsLogn, AfterAuth, Goto, Respond
<1>6. CASE /\ Start(r) \/ HandlerStep(r)
           /\ ~NamesScan(r) /\ ~AddSet(r) /\ ~DelClose(r) /\ ~GetDb(r) /\ ~IsLogn(r)
  BY <1>a, <1>6 DEF HandlerStep, LoginSet, NamesGet, NamesSet, IndexGet, IndexStub,
     AddCheck, AddCreate, AddConf, Finish, ReadGet, EditName, EditGet, EditSet,
     EditAuthz, EditPasswd, DelRemove, DelDelete, Start, LoginStart, IndexStart,
     AddStart, EditGetStart, EditPostStart, DelStart, Begin, Refuse, Goto, Respond
<1>7. ASSUME NEW q \in Req, q # r, Start(q) \/ HandlerStep(q)
      PROVE  pc'[r] = pc[r] /\ loc'[r] = loc[r]
  BY <1>7, OthersStand
<1>8. ASSUME NEW j \in Job, RefreshStep(j)
      PROVE  pc'[r] = pc[r] /\ loc'[r] = loc[r]
  BY <1>8 DEF RefreshStep, RefreshScan, RefreshOpen, RefreshSet, RefreshPanic
<1>9. CASE Restart \/ UNCHANGED vars
  BY <1>9 DEF Restart, vars
<1>10. QED
  BY <1>1, <1>2, <1>3, <1>4, <1>5, <1>6, <1>7, <1>8, <1>9 DEF Next

\* An Add does not come to its answer while Index has the store open, since its
\* record needs the store; and one that was there before is in the directory.
LEMMA ScanStep ==
  ASSUME LockInv, SnapshotCurrent, AddProgress, ConfirmedIntact, ScanCurrent, [Next]_vars
  PROVE  ScanCurrent'
<1>a. /\ TypeInv /\ pc \in [Req -> Place] /\ loc \in [Req -> Locals]
      /\ creator \in [Name -> Req \cup {NoOne}] /\ confirmed \subseteq Name
  BY DEF LockInv, TypeInv, ControlOK, DataOK
<1> SUFFICES ASSUME NEW r \in Req, pc'[r] = "names_set"
             PROVE  /\ confirmed' \subseteq loc'[r].todo
                    /\ \A q \in Req, n \in Name : Answering(q, n)' => n \in loc'[r].todo
  BY DEF ScanCurrent
<1>1. CASE NamesScan(r)
  <2>1. loc'[r].todo = dirs /\ confirmed' = confirmed /\ creator' = creator
    BY <1>a, <1>1 DEF NamesScan, Locals, history
  <2>2. \A q \in Req \ {r} : pc'[q] = pc[q] /\ loc'[q] = loc[q]
    BY <1>a, <1>1, OthersStand DEF HandlerStep
  <2>3. \A q \in Req, n \in Name : Answering(q, n) => n \in dirs
    BY DEF Answering, AddProgress
  <2>4. \A q \in Req, n \in Name : Answering(q, n)' => Answering(q, n)
    BY <2>1, <2>2 DEF Answering
  <2>5. QED
    BY <2>1, <2>3, <2>4 DEF ConfirmedIntact
<1>2. CASE pc[r] = "names_set" /\ loc'[r] = loc[r]
  <2>1. confirmed' \subseteq loc[r].todo
    <3> SUFFICES ASSUME NEW n \in confirmed', n \notin confirmed PROVE n \in loc[r].todo
      BY <1>2 DEF ScanCurrent
    <3>1. n \in Name
      BY LockInvStep DEF LockInv, TypeInv, DataOK
    <3>2. \E q \in Req : Answering(q, n)
      BY Confirming DEF Answering, Finish
    <3>3. QED
      BY <1>2, <3>1, <3>2 DEF ScanCurrent
  <2>2. ASSUME NEW q \in Req, NEW n \in Name, Answering(q, n)' PROVE Answering(q, n)
    <3>1. pc'[q] = "finish" /\ loc'[q].kind = "add" /\ loc'[q].name = n /\ creator'[n] = q
      BY <2>2 DEF Answering
    <3>2. pc'[q] = pc[q] /\ loc'[q] = loc[q]
      <4>1. ~(AddSet(q) /\ pc[q] = "add_set" /\ pc'[q] = "finish")
        BY <1>2, WriterIsAlone DEF Critical
      <4>2. QED
        BY <1>a, <3>1, <4>1, Reached
    <3>3. creator[n] = q
      <4>1. ~Spoilt(n)
        BY <3>1, ServerAssumption DEF Spoilt
      <4>2. ~Made(n)
        <5> SUFFICES ASSUME NEW p \in Req, AddCreate(p), loc[p].name = n,
                            n \notin dirs, n \in dirs'
                     PROVE  FALSE
          BY DEF Made
        <5>1. creator'[n] = p /\ pc[p] = "add_create"
          BY <1>a DEF AddCreate, tree
        <5>2. QED
          BY <3>1, <3>2, <5>1
      <4>3. QED
        BY <3>1, <4>1, <4>2, StepOnProject DEF Kept
    <3>4. QED
      BY <3>1, <3>2, <3>3 DEF Answering
  <2>3. QED
    BY <1>2, <2>1, <2>2 DEF ScanCurrent
<1>3. QED
  BY <1>a, <1>1, <1>2, Reached

\* A listing that Index stores has every project that an Add has confirmed,
\* whatever other handlers and refreshes do: GetDirFilesName reads the directory
\* with the store open, and an Add needs the store between its directory and its
\* answer.  A refresh reads it before it opens the store, and may miss some.
THEOREM IndexStoresConfirmed == Spec => []IndexListsConfirmed
<1> DEFINE IInv == LockInv /\ SnapshotCurrent /\ AddProgress /\ ConfirmedIntact /\ ScanCurrent
<1>1. Init => IInv
  BY LockInvInit DEF Init, SnapshotCurrent, AddProgress, ConfirmedIntact, ScanCurrent
<1>2. IInv /\ [Next]_vars => IInv'
  BY LockInvStep, SnapshotStep, AddProgressStep, ConfirmedStep, ScanStep
<1>3. IInv => IndexListsConfirmed
  BY DEF ScanCurrent, IndexListsConfirmed
<1>4. QED
  BY <1>1, <1>2, <1>3, PTL DEF Spec

=============================================================================

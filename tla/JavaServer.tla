----------------------------- MODULE JavaServer -----------------------------
(***************************************************************************)
(* The Java server (controller/, service/, handler/, util/ and mapper/):   *)
(* every request runs in a Tomcat thread of its own and works on three     *)
(* pieces of shared state without a lock or a transaction: the SQLite      *)
(* tables, the repository tree and the HTTP sessions.                      *)
(*                                                                         *)
(* One step of the model is one SQL statement (each commits by itself) or  *)
(* one file operation, together with the local code around it.  A value    *)
(* that a client submits is chosen at the step that first uses it.         *)
(*                                                                         *)
(* An authz text is represented by the set of the logins that it grants    *)
(* access to, one line "login=rw" each, where no login occurs within       *)
(* another one: then the regular expressions of PatternUtil hit exactly    *)
(* the lines of the login they are built from.                             *)
(***************************************************************************)
EXTENDS Naturals

CONSTANTS
    Req,        \* threads for requests (bound on concurrency)
    Session,    \* HTTP sessions
    Login,      \* login names
    Grantee,    \* the logins that submitted authz texts speak of
    Shipped,    \* the first users of the database that comes with the server
    File,       \* names of repository directories, already filtered
    MaxUser,    \* bound on user ids
    MaxProject, \* bound on project ids
    None,       \* no row, no directory, no session attribute, SQL NULL
    Kinds,      \* what happens in this instance
    Faults,     \* the failures of the surroundings that happen
    StalePages  \* clients may act on a page that was rendered long ago

UserId == 1 .. MaxUser
ProjectId == 1 .. MaxProject

Happening == {"add", "edit", "del", "addUser", "editUser", "delUser",
              "login", "logOut", "restart"}

\* exec: /bin/sh cannot be started; shell: svnadmin ends with an error;
\* write: a file cannot be written; delete: a file cannot be removed.
Fault == {"exec", "shell", "write", "delete"}

User == [name : Login, admin : BOOLEAN, active : BOOLEAN]
Project == [file : File, creator : UserId, auth : (SUBSET Login) \cup {None}]

\* A directory: is it a Subversion repository, does its svnserve.conf hold
\* the text of addProject, and whom does its authz grant access to.
Directory == [repo : BOOLEAN, closed : BOOLEAN, authz : SUBSET Login]

\* What the session attribute "user" keeps of a user row.
Account == [id : UserId, admin : BOOLEAN]

ASSUME JavaAssumption ==
    /\ MaxUser \in Nat \ {0} /\ MaxProject \in Nat
    /\ Grantee \subseteq Login
    /\ Kinds \subseteq Happening
    /\ Faults \subseteq Fault
    /\ StalePages \in BOOLEAN
    /\ \E n \in UserId : Shipped \in [1 .. n -> User]
    /\ \A i, j \in DOMAIN Shipped : Shipped[i].name = Shipped[j].name => i = j
    /\ None \notin File \cup Login \cup Session \cup UserId \cup ProjectId
    /\ None \notin User /\ None \notin Project /\ None \notin Directory
    /\ None \notin Account /\ \A T \in SUBSET Login : T # None

VARIABLES
    user, project,  \* the tables, as functions from ids to rows or None
    dir,            \* the repository tree
    session,        \* the attribute "user" of each session
    pc, loc,        \* where the thread of each request stands; its locals
    shown,          \* history: every <<id, file>> that was ever a row
    confirmed,      \* history: files added with success, not deleted since
    saved,          \* history: the authz text of the last successful Edit
    former          \* history: logins whose user was deleted, not granted since

tables == <<user, project>>
history == <<shown, confirmed, saved, former>>
vars == <<tables, dir, session, pc, loc, history>>

Place == {"idle", "add_check", "add_shell", "add_serve", "add_authz",
          "add_passwd", "add_insert", "edit_select", "edit_authz",
          "edit_passwd", "edit_row", "del_select", "del_row", "del_dir",
          "addUser_check", "addUser_insert", "editUser_row",
          "delUser_select", "delUser_row", "purge_list", "purge"}

Item == [id : ProjectId, file : File, auth : (SUBSET Login) \cup {None}]

\* clean is history: nobody has deleted the directory since this Add began.
Locals == [s : Session \cup {None}, id : UserId \cup ProjectId \cup {None},
           file : File \cup {None}, row : File \cup {None},
           text : SUBSET Login, name : Login \cup {None},
           todo : SUBSET Item, clean : BOOLEAN]

NoLocals == [s |-> None, id |-> None, file |-> None, row |-> None,
             text |-> {}, name |-> None, todo |-> {}, clean |-> FALSE]

TypeOK ==
    /\ user \in [UserId -> User \cup {None}]
    /\ project \in [ProjectId -> Project \cup {None}]
    /\ dir \in [File -> Directory \cup {None}]
    /\ session \in [Session -> Account \cup {None}]
    /\ pc \in [Req -> Place]
    /\ loc \in [Req -> Locals]
    /\ shown \subseteq ProjectId \X File
    /\ confirmed \subseteq File
    /\ saved \in [File -> (SUBSET Login) \cup {None}]
    /\ former \in [Login -> {"no", "deleted", "purged"}]

Init ==
    /\ user = [i \in UserId |-> IF i \in DOMAIN Shipped THEN Shipped[i] ELSE None]
    /\ project = [i \in ProjectId |-> None]
    /\ dir = [f \in File |-> None]
    /\ session = [s \in Session |-> None]
    /\ pc = [r \in Req |-> "idle"]
    /\ loc = [r \in Req |-> NoLocals]
    /\ shown = {}
    /\ confirmed = {}
    /\ saved = [f \in File |-> None]
    /\ former = [l \in Login |-> "no"]

-----------------------------------------------------------------------------
(* Control *)

At(r, l) == pc[r] = l

Goto(r, l) == pc' = [pc EXCEPT ![r] = l]

\* The request is over.
Finish(r) == Goto(r, "idle") /\ loc' = [loc EXCEPT ![r] = NoLocals]

\* The controller returns ResultMsg.error, or the exception reaches the
\* GlobalExceptionHandler.
Fail(r) == Finish(r) /\ UNCHANGED <<tables, dir, session, history>>

\* Interceptor1.preHandle: whoever is not logged in is sent to /login.
preHandle(s) == session[s] # None

\* User.isRole
isRole(s) == session[s] # None /\ session[s].admin

\* A request of kind k passes the filters and enters its handler at place l.
\* A request that is turned away before it reads or changes shared state
\* (not logged in, no administrator, an illegal parameter, a wrong deletion
\* password) is a stuttering step.
Enter(r, k, s, l) ==
    /\ k \in Kinds
    /\ At(r, "idle")
    /\ preHandle(s)
    /\ Goto(r, l)

-----------------------------------------------------------------------------
(* The tables *)

Rows(t) == {i \in DOMAIN t : t[i] # None}

\* SQLite's choice for an INTEGER PRIMARY KEY: one more than the largest id
\* in the table, so that the id of the last row is used again once it is gone.
IsNext(t, i) == /\ i \in DOMAIN t \ Rows(t)
                /\ \A j \in Rows(t) : j < i
                /\ i = 1 \/ i - 1 \in Rows(t)

\* selectByName finds a row.
HasName(l) == \E i \in Rows(user) : user[i].name = l

\* The UNIQUE constraints of the tables.
FileTakenNever(f) == FALSE      \* mutant: no constraint on the file name
FileTaken(f) == \E i \in Rows(project) : project[i].file = f

NameTaken(l) == HasName(l)

\* The checks of delSvn and update: project i is in the table, session s is
\* logged in (delSvn runs into a null pointer otherwise), and its user is an
\* administrator or the creator.
Allowed(s, i) ==
    /\ project[i] # None
    /\ session[s] # None
    /\ session[s].admin \/ session[s].id = project[i].creator

-----------------------------------------------------------------------------
(* The repository tree *)

NoDirectory == [repo |-> FALSE, closed |-> FALSE, authz |-> {}]

mkdirs(d) == IF d = None THEN NoDirectory ELSE d

\* getFileDir lists the directories of the tree.
isContains(f) == dir[f] # None

\* What svnadmin create leaves: its own svnserve.conf and authz.
Created == [repo |-> TRUE, closed |-> FALSE, authz |-> {}]

\* FilesUtil.writeFile makes the missing directories and replaces the file;
\* when that fails the file is as before or empty and nobody is told.
writeServe(f) ==
    \/ dir' = [dir EXCEPT ![f] = [mkdirs(@) EXCEPT !.closed = TRUE]]
    \/ /\ "write" \in Faults
       /\ dir' \in {dir, [dir EXCEPT ![f] = [mkdirs(@) EXCEPT !.closed = FALSE]]}

writeAuthz(f, text) ==
    \/ dir' = [dir EXCEPT ![f] = [mkdirs(@) EXCEPT !.authz = text]]
    \/ /\ "write" \in Faults
       /\ dir' \in {dir, [dir EXCEPT ![f] = [mkdirs(@) EXCEPT !.authz = {}]]}

\* What passwd holds is left out.
writePasswd(f) ==
    \/ dir' = [dir EXCEPT ![f] = mkdirs(@)]
    \/ "write" \in Faults /\ dir' = dir

\* What may be left of directory d by a deletion that fails halfway.
Leftovers(d) ==
    {e \in [repo : BOOLEAN, closed : BOOLEAN, authz : {{}, d.authz}] :
        (e.repo => d.repo) /\ (e.closed => d.closed)}

-----------------------------------------------------------------------------
(* POST /doAdd: Index.doAdd, SvnService.addProject *)

AddStart(r, s, f) ==
    /\ Enter(r, "add", s, "add_check")
    /\ loc' = [loc EXCEPT ![r] = [NoLocals EXCEPT !.s = s, !.file = f]]
    /\ UNCHANGED <<tables, dir, session, history>>

\* Mutant of AddCheck: the result of isContains is ignored.
AddCheckPasses(r) ==
    /\ At(r, "add_check")
    /\ loc' = [loc EXCEPT ![r] = [@ EXCEPT !.clean = TRUE]]
    /\ Goto(r, "add_shell")
    /\ UNCHANGED <<tables, dir, session, history>>

AddCheck(r) ==
    /\ At(r, "add_check")
    /\ \/ /\ ~isContains(loc[r].file)
          /\ Goto(r, "add_shell")
          /\ loc' = [loc EXCEPT ![r] = [@ EXCEPT !.clean = TRUE]]
          /\ UNCHANGED <<tables, dir, session, history>>
       \/ isContains(loc[r].file) /\ Fail(r)

\* Shell.doShell throws only when the shell cannot be started.  The exit
\* code of svnadmin is not looked at; it refuses an existing directory.
AddShell(r) ==
    /\ At(r, "add_shell")
    /\ \/ /\ dir[loc[r].file] = None
          /\ dir' = [dir EXCEPT ![loc[r].file] = Created]
          /\ Goto(r, "add_serve")
          /\ UNCHANGED <<tables, session, loc, history>>
       \/ /\ dir[loc[r].file] # None \/ "shell" \in Faults
          /\ Goto(r, "add_serve")
          /\ UNCHANGED <<tables, dir, session, loc, history>>
       \/ "exec" \in Faults /\ Fail(r)

\* Mutant of AddServe: svnserve.conf is left as svnadmin made it.
AddServeSkipped(r) ==
    /\ At(r, "add_serve")
    /\ Goto(r, "add_authz")
    /\ UNCHANGED <<tables, dir, session, loc, history>>

AddServe(r) ==
    /\ At(r, "add_serve")
    /\ writeServe(loc[r].file)
    /\ Goto(r, "add_authz")
    /\ UNCHANGED <<tables, session, loc, history>>

AddAuthz(r) ==
    /\ At(r, "add_authz")
    /\ writeAuthz(loc[r].file, {})
    /\ Goto(r, "add_passwd")
    /\ UNCHANGED <<tables, session, loc, history>>

AddPasswd(r) ==
    /\ At(r, "add_passwd")
    /\ writePasswd(loc[r].file)
    /\ Goto(r, "add_insert")
    /\ UNCHANGED <<tables, session, loc, history>>

\* The creator is whoever the session names by now.  The statement fails
\* when the session has ended, when the file or the submitted title is in
\* the table already, or when the database is busy.
AddInsert(r) ==
    LET f == loc[r].file
        a == session[loc[r].s]
    IN  /\ At(r, "add_insert")
        /\ \/ /\ a # None
              /\ ~FileTaken(f)
              /\ \E i \in ProjectId :
                    /\ IsNext(project, i)
                    /\ project' = [project EXCEPT ![i] =
                            [file |-> f, creator |-> a.id, auth |-> None]]
                    /\ shown' = IF StalePages THEN shown \cup {<<i, f>>}
                                              ELSE shown
              /\ confirmed' = IF loc[r].clean THEN confirmed \cup {f}
                                               ELSE confirmed
              /\ Finish(r)
              /\ UNCHANGED <<user, dir, session, saved, former>>
           \/ Fail(r)

-----------------------------------------------------------------------------
(* POST /doEdit: Index.doEdit, SvnService.update *)

EditStart(r, s, i) ==
    /\ Enter(r, "edit", s, "edit_select")
    /\ loc' = [loc EXCEPT ![r] = [NoLocals EXCEPT !.s = s, !.id = i]]
    /\ UNCHANGED <<tables, dir, session, history>>

\* Mutant of EditSelect: the path is built from the id.
EditSelectById(r) ==
    /\ At(r, "edit_select")
    /\ Allowed(loc[r].s, loc[r].id)
    /\ loc' = [loc EXCEPT ![r] = [@ EXCEPT !.file = loc[r].id]]
    /\ Goto(r, "edit_authz")
    /\ UNCHANGED <<tables, dir, session, history>>

\* selectByPrimaryKey, getLoginUser and the role check
EditSelect(r) ==
    LET i == loc[r].id
    IN  /\ At(r, "edit_select")
        /\ \/ /\ Allowed(loc[r].s, i)
              /\ loc' = [loc EXCEPT ![r] = [@ EXCEPT !.file = project[i].file]]
              /\ Goto(r, "edit_authz")
              /\ UNCHANGED <<tables, dir, session, history>>
           \/ ~Allowed(loc[r].s, i) /\ Fail(r)

EditAuthz(r, text) ==
    LET f == loc[r].file
    IN  /\ At(r, "edit_authz")
        /\ writeAuthz(f, text)
        /\ loc' = [loc EXCEPT ![r] = [@ EXCEPT !.text = text]]
        /\ saved' = [saved EXCEPT ![f] = None]
        /\ former' = [l \in Login |-> IF l \in text THEN "no" ELSE former[l]]
        /\ Goto(r, "edit_passwd")
        /\ UNCHANGED <<tables, session, shown, confirmed>>

EditPasswd(r) ==
    /\ At(r, "edit_passwd")
    /\ writePasswd(loc[r].file)
    /\ Goto(r, "edit_row")
    /\ UNCHANGED <<tables, session, loc, history>>

\* updateByPrimaryKeySelective; it changes no row when the row is gone, and
\* fails when the submitted title is taken or the database is busy.
EditRow(r) ==
    LET i == loc[r].id
    IN  /\ At(r, "edit_row")
        /\ \/ /\ project[i] # None
              /\ project' = [project EXCEPT ![i] = [@ EXCEPT !.auth = loc[r].text]]
              /\ saved' = [saved EXCEPT ![loc[r].file] = loc[r].text]
              /\ Finish(r)
              /\ UNCHANGED <<user, dir, session, shown, confirmed, former>>
           \/ Fail(r)

-----------------------------------------------------------------------------
(* POST /project/del: Index.del, SvnService.delSvn *)

\* The id and the file name come from a row of the index page: one that is
\* in the table, or one that was when the page was rendered.
DelStart(r, s, i, f) ==
    /\ Enter(r, "del", s, "del_select")
    /\ \/ project[i] # None /\ project[i].file = f
       \/ <<i, f>> \in shown
    /\ loc' = [loc EXCEPT ![r] = [NoLocals EXCEPT !.s = s, !.id = i, !.file = f]]
    /\ UNCHANGED <<tables, dir, session, history>>

DelSelect(r) ==
    /\ At(r, "del_select")
    /\ \/ /\ Allowed(loc[r].s, loc[r].id)
          /\ Goto(r, "del_row")
          /\ UNCHANGED <<tables, dir, session, loc, history>>
       \/ ~Allowed(loc[r].s, loc[r].id) /\ Fail(r)

\* Mutant of DelRow: the number of deleted rows is ignored.
DelRowUnchecked(r) ==
    /\ At(r, "del_row")
    /\ project' \in {project, [project EXCEPT ![loc[r].id] = None]}
    /\ Goto(r, "del_dir")
    /\ UNCHANGED <<user, dir, session, loc, history>>

DelRow(r) ==
    LET i == loc[r].id
    IN  /\ At(r, "del_row")
        /\ \/ /\ project[i] # None
              /\ project' = [project EXCEPT ![i] = None]
              /\ loc' = [loc EXCEPT ![r] = [@ EXCEPT !.row = project[i].file]]
              /\ Goto(r, "del_dir")
              /\ UNCHANGED <<user, dir, session, history>>
           \/ Fail(r)

\* FilesUtil.deleteDir of the directory that the client has named
DelDir(r) ==
    LET f == loc[r].file
    IN  /\ At(r, "del_dir")
        /\ \/ dir' = [dir EXCEPT ![f] = None]
           \/ /\ "delete" \in Faults
              /\ dir[f] # None
              /\ \E d \in Leftovers(dir[f]) : dir' = [dir EXCEPT ![f] = d]
        /\ confirmed' = confirmed \ {f}
        /\ saved' = [saved EXCEPT ![f] = None]
        /\ loc' = [q \in Req |->
                    IF q = r THEN NoLocals
                    ELSE [loc[q] EXCEPT !.clean = @ /\ loc[q].file # f]]
        /\ Goto(r, "idle")
        /\ UNCHANGED <<tables, session, shown, former>>

-----------------------------------------------------------------------------
(* /doLogin, /logOut *)

\* The session keeps a copy of the row of an active user.
DoLogin(s, i) ==
    /\ "login" \in Kinds
    /\ user[i] # None /\ user[i].active
    /\ session' = [session EXCEPT ![s] = [id |-> i, admin |-> user[i].admin]]
    /\ UNCHANGED <<tables, dir, pc, loc, history>>

\* ... until the client logs out or Tomcat lets the session expire.
LogOut(s) ==
    /\ "logOut" \in Kinds
    /\ session[s] # None
    /\ session' = [session EXCEPT ![s] = None]
    /\ UNCHANGED <<tables, dir, pc, loc, history>>

-----------------------------------------------------------------------------
(* /user/doAdd, /user/editUser: UserService.addUser, editUser *)

AddUserStart(r, s, l) ==
    /\ Enter(r, "addUser", s, "addUser_check")
    /\ isRole(s)
    /\ loc' = [loc EXCEPT ![r] = [NoLocals EXCEPT !.s = s, !.name = l]]
    /\ UNCHANGED <<tables, dir, session, history>>

\* getUserByName
AddUserCheck(r) ==
    /\ At(r, "addUser_check")
    /\ \/ /\ ~HasName(loc[r].name)
          /\ Goto(r, "addUser_insert")
          /\ UNCHANGED <<tables, dir, session, loc, history>>
       \/ HasName(loc[r].name) /\ Fail(r)

AddUserInsert(r, admin, active) ==
    LET l == loc[r].name
    IN  /\ At(r, "addUser_insert")
        /\ \/ /\ ~NameTaken(l)
              /\ \E i \in UserId :
                    /\ IsNext(user, i)
                    /\ user' = [user EXCEPT ![i] =
                            [name |-> l, admin |-> admin, active |-> active]]
              /\ former' = [former EXCEPT ![l] = "no"]
              /\ Finish(r)
              /\ UNCHANGED <<project, dir, session, shown, confirmed, saved>>
           \/ Fail(r)

EditUserStart(r, s, i) ==
    /\ Enter(r, "editUser", s, "editUser_row")
    /\ isRole(s)
    /\ loc' = [loc EXCEPT ![r] = [NoLocals EXCEPT !.s = s, !.id = i]]
    /\ UNCHANGED <<tables, dir, session, history>>

\* Role and status change in the table and in no session.
EditUserRow(r, admin, active) ==
    LET i == loc[r].id
    IN  /\ At(r, "editUser_row")
        /\ \/ /\ user[i] # None
              /\ user' = [user EXCEPT ![i] =
                            [@ EXCEPT !.admin = admin, !.active = active]]
              /\ Finish(r)
              /\ UNCHANGED <<project, dir, session, history>>
           \/ Fail(r)

-----------------------------------------------------------------------------
(* /user/delUser: UserService.deleteUser, SvnService.removeNameOnConfig *)

DelUserStart(r, s, i) ==
    /\ Enter(r, "delUser", s, "delUser_select")
    /\ isRole(s)
    /\ i # 1
    /\ loc' = [loc EXCEPT ![r] = [NoLocals EXCEPT !.s = s, !.id = i]]
    /\ UNCHANGED <<tables, dir, session, history>>

DelUserSelect(r) ==
    LET i == loc[r].id
    IN  /\ At(r, "delUser_select")
        /\ \/ /\ user[i] # None
              /\ loc' = [loc EXCEPT ![r] = [@ EXCEPT !.name = user[i].name]]
              /\ Goto(r, "delUser_row")
              /\ UNCHANGED <<tables, dir, session, history>>
           \/ user[i] = None /\ Fail(r)

DelUserRow(r) ==
    LET i == loc[r].id
    IN  /\ At(r, "delUser_row")
        /\ \/ /\ user[i] # None
              /\ user' = [user EXCEPT ![i] = None]
              /\ former' = [former EXCEPT ![user[i].name] = "deleted"]
              /\ Goto(r, "purge_list")
              /\ UNCHANGED <<project, dir, session, loc, shown, confirmed,
                             saved>>
           \/ Fail(r)

\* getList(null): a copy of all rows
PurgeList(r) ==
    /\ At(r, "purge_list")
    /\ loc' = [loc EXCEPT ![r] = [@ EXCEPT !.todo =
            {[id |-> i, file |-> project[i].file, auth |-> project[i].auth] :
                i \in Rows(project)}]]
    /\ Goto(r, "purge")
    /\ UNCHANGED <<tables, dir, session, history>>

\* SQLite returns the rows in the order of their ids.
IsFirst(x, T) == x \in T /\ \A y \in T : x.id <= y.id

RestIsAll(T, x) == T            \* mutant: the index is not incremented
Rest(T, x) == T \ {x}

svnAuthPattern(auth, l) == l \in auth

NothingCut(auth, l) == auth     \* mutant: the expression matches nothing
getNonBlankStr(auth, l) == auth \ {l}

\* One round of the loop: svnAuthPattern dereferences the column (which is
\* NULL until the first Edit), getNonBlankStr cuts the login out of the copy
\* and the result replaces the file; the column itself is left as it is.
PurgeItem(r) ==
    LET l == loc[r].name
    IN  /\ At(r, "purge")
        /\ \E x \in loc[r].todo :
            /\ IsFirst(x, loc[r].todo)
            /\ \/ x.auth = None /\ Fail(r)
               \/ /\ x.auth # None
                  /\ IF svnAuthPattern(x.auth, l)
                       THEN /\ writeAuthz(x.file, getNonBlankStr(x.auth, l))
                            /\ saved' = [saved EXCEPT ![x.file] = None]
                       ELSE UNCHANGED <<dir, saved>>
                  /\ loc' = [loc EXCEPT ![r] = [@ EXCEPT !.todo = Rest(loc[r].todo, x)]]
                  /\ Goto(r, "purge")
                  /\ UNCHANGED <<tables, session, shown, confirmed, former>>

PurgeDone(r) ==
    LET l == loc[r].name
    IN  /\ At(r, "purge")
        /\ loc[r].todo = {}
        /\ former' = [former EXCEPT ![l] = IF @ = "deleted" THEN "purged" ELSE @]
        /\ Finish(r)
        /\ UNCHANGED <<tables, dir, session, shown, confirmed, saved>>

-----------------------------------------------------------------------------
\* The process stops at any point and is started again: the threads and the
\* sessions are gone, the database and the tree stay as they are.
Restart ==
    /\ "restart" \in Kinds
    /\ pc' = [r \in Req |-> "idle"]
    /\ loc' = [r \in Req |-> NoLocals]
    /\ session' = [s \in Session |-> None]
    /\ UNCHANGED <<tables, dir, shown, confirmed, saved, former>>

Receive(r) ==
    \E s \in Session :
        \/ \E f \in File : AddStart(r, s, f)
        \/ \E i \in ProjectId : EditStart(r, s, i)
        \/ \E i \in ProjectId, f \in File : DelStart(r, s, i, f)
        \/ \E l \in Login : AddUserStart(r, s, l)
        \/ \E i \in UserId : EditUserStart(r, s, i) \/ DelUserStart(r, s, i)

Handle(r) ==
    \/ AddCheck(r) \/ AddShell(r) \/ AddServe(r)
    \/ AddAuthz(r) \/ AddPasswd(r) \/ AddInsert(r)
    \/ EditSelect(r) \/ (\E text \in SUBSET Grantee : EditAuthz(r, text))
    \/ EditPasswd(r) \/ EditRow(r)
    \/ DelSelect(r) \/ DelRow(r) \/ DelDir(r)
    \/ AddUserCheck(r)
    \/ (\E admin, active \in BOOLEAN :
            AddUserInsert(r, admin, active) \/ EditUserRow(r, admin, active))
    \/ DelUserSelect(r) \/ DelUserRow(r)
    \/ PurgeList(r) \/ PurgeItem(r) \/ PurgeDone(r)

Next ==
    \/ \E r \in Req : Receive(r) \/ Handle(r)
    \/ \E s \in Session : LogOut(s) \/ \E i \in UserId : DoLogin(s, i)
    \/ Restart

Spec == Init /\ [][Next]_vars

\* Tomcat's threads are run by the operating system: a request that was
\* accepted goes on.  Nothing obliges clients to do anything.
FairSpec == Spec /\ \A r \in Req : WF_vars(Handle(r))

-----------------------------------------------------------------------------
(* What the server owes its users *)

\* No two projects share a repository directory and no two users a login:
\* addProject and addUser check first and insert later, so that of two
\* requests which both pass the check only one may get its row.
RowsApart ==
    /\ \A i, j \in Rows(project) :
            project[i].file = project[j].file => i = j
    /\ \A i, j \in Rows(user) : user[i].name = user[j].name => i = j

\* A directory whose Add was answered with success, and which nobody has
\* deleted since that Add began, exists and is closed to anonymous access by
\* the svnserve.conf of addProject, whatever other requests do to it.
ConfirmedClosed ==
    \A f \in confirmed : dir[f] # None /\ dir[f].closed

\* Every project in the table has its directory: a request that fails or a
\* process that stops may leave a directory without a row, never the reverse.
RowHasDir ==
    \A i \in Rows(project) : dir[project[i].file] # None

\* The authz text of an Edit that was answered with success is what the file
\* holds until the next Edit, purge or deletion.
EditKept ==
    \A f \in File : saved[f] # None =>
        dir[f] # None /\ dir[f].authz = saved[f]

\* When removeNameOnConfig has come to the end of its list, the user is in
\* the authz file of no project whose column names that user.
PurgeReachesAll ==
    \A r \in Req : At(r, "purge") /\ loc[r].todo = {} =>
        \A i \in Rows(project) :
            /\ project[i].auth # None
            /\ loc[r].name \in project[i].auth
            /\ dir[project[i].file] # None
            => loc[r].name \notin dir[project[i].file].authz

\* Every request that the server has accepted is answered.
EveryRequestEnds ==
    \A r \in Req : pc[r] # "idle" ~> pc[r] = "idle"

-----------------------------------------------------------------------------
(* What comments and messages say and the code does not do *)

\* The confirmation of the index page names the project that is going to be
\* deleted: the row that delSvn deletes is the one of that directory.
DelRemovesNamed ==
    \A r \in Req : At(r, "del_dir") => loc[r].file = loc[r].row

\* Deleting a user "removes the user name from the svn configuration files":
\* a login whose deletion was answered with success, and which no Edit has
\* granted anything since, is in no authz file.
PurgedGone ==
    \A l \in Login, f \in File :
        former[l] = "purged" /\ dir[f] # None => l \notin dir[f].authz

\* The same for a login whose user row is gone, once no request is running,
\* and for the authz texts of Edits that were answered with success, so that
\* the column says what the file does.
DeletedNotGranted ==
    (\A r \in Req : pc[r] = "idle") =>
        \A l \in Login, f \in File :
            former[l] # "no" /\ saved[f] # None => l \notin dir[f].authz

=============================================================================

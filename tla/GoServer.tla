------------------------------ MODULE GoServer ------------------------------
(***************************************************************************)
(* The Go server (main.go, logic/, util/): net/http runs each request in a *)
(* goroutine of its own; a handler opens the LevelDB store for every short *)
(* use and closes it again; Add and Del start a background goroutine that  *)
(* refreshes the cached directory listing, and answer without waiting for  *)
(* it: the next request may meet it.                                       *)
(*                                                                         *)
(* LevelDB's file lock makes a second concurrent open fail, and GetDb then *)
(* panics.  In a handler net/http recovers the panic and drops the         *)
(* connection; in a background goroutine nothing recovers it and the whole *)
(* process dies.                                                           *)
(*                                                                         *)
(* One step of the model is one access to shared state (the store, its     *)
(* lock, the repository tree) together with the local code that follows    *)
(* it.  What a request brings along is chosen when the code first needs it.*)
(***************************************************************************)
EXTENDS SvnInfo, FiniteSets, Naturals

CONSTANTS
    Req,        \* slots for requests in flight (bound on concurrency)
    Job,        \* slots for refreshes in flight (bound on their number)
    NoOne,      \* nobody: no holder, no creator
    Kinds,      \* the endpoints that clients use
    Parts,      \* Parts[n]: the names that n falls into when split at commas
    NoName      \* the handler has not read a project name yet

Endpoint == {"login", "index", "add", "editGet", "editPost", "del"}

\* The goroutines: the handlers of requests, and refreshes.
Handler(r) == <<"handler", r>>
Refresher(j) == <<"refresher", j>>
Goroutine == ({"handler"} \X Req) \cup ({"refresher"} \X Job)

ASSUME ServerAssumption ==
    /\ NoOne \notin Req \cup Goroutine
    /\ NoName \notin Name
    /\ Kinds \subseteq Endpoint
    /\ Parts \in [Name -> (SUBSET Name) \ {{}}]

\* Files that svnadmin and the server keep in a repository's conf directory.
ConfFile == {"svnserve.conf", "authz", "passwd"}

\* What such a file may hold: what svnadmin put there, the server's fixed
\* svnserve.conf, a text submitted through Edit, or the file is gone.
Content == Data \cup {Blank, "default", "closed", "gone"}

Fresh == [f \in ConfFile |-> "default"]
Removed == [f \in ConfFile |-> "gone"]

VARIABLES
    up,         \* the server process is running
    handle,     \* the goroutine that has the store open, or NoOne
    token, files, info,     \* the store: see ProjectStore
    dirs,       \* the names in the repository root directory
    conf,       \* conf[n]: the configuration files of repository n
    pc,         \* pc[r]: where the handler of request r stands
    loc,        \* loc[r]: its local variables
    bg,         \* bg[j]: where refresh j stands
    scan,       \* scan[j]: the listing which that refresh has read
    answer,     \* the status code that the last step has sent, if any
    creator,    \* history: the request that created the present directory n
    confirmed,  \* history: names whose Add was answered 200, no Del since
    existed     \* history: every name that ever was in the root directory

store == <<token, files, info>>
tree == <<dirs, conf>>
jobs == <<bg, scan>>
history == <<creator, confirmed, existed>>
vars == <<up, handle, store, tree, pc, loc, jobs, answer, history>>

Locals == [kind : Endpoint \cup {Blank}, name : Name \cup {NoName},
           data : Data \cup {Blank}, snap : Info \cup {NoInfo},
           todo : SUBSET Name]

NoLocals == [kind |-> Blank, name |-> NoName, data |-> Blank,
             snap |-> NoInfo, todo |-> {}]

\* Where a handler goes once GetDb has succeeded.
AfterGetDb ==
    [login_open |-> "login_set",  auth_open |-> "auth_get",
     names_open |-> "names_get",  index_open |-> "index_get",
     add_open   |-> "add_set",    read_open |-> "read_get",
     edit_open  |-> "edit_get",   del_open  |-> "del_delete"]

\* Where a handler goes once IsLogn has said yes.
AfterAuth ==
    [index |-> "names_open", add |-> "add_check", editGet |-> "read_open",
     editPost |-> "edit_name", del |-> "del_remove"]

Opening == DOMAIN AfterGetDb

\* The places between GetDb and CloserDb: the handler has the store open.
Critical == {"login_set", "auth_get", "names_get", "names_scan", "names_set",
             "index_get", "index_stub", "add_set", "read_get", "edit_get",
             "edit_set", "del_delete"}

Elsewhere == {"idle", "add_check", "add_create", "add_conf", "edit_name",
              "edit_authz", "edit_passwd", "del_remove", "del_close", "finish"}

Place == Opening \cup Critical \cup Elsewhere

\* The status codes; "abort" is a connection dropped by a panic.
Answer == {"none", "200", "400", "430", "abort"}

\* The names that strings.Split recovers from strings.Join of a listing.
Fragments(S) == UNION {Parts[n] : n \in S}

TypeOK ==
    /\ up \in BOOLEAN
    /\ handle \in Goroutine \cup {NoOne}
    /\ token \in Token \cup {Blank}
    /\ files \subseteq Name
    /\ info \in [Name -> Info \cup {NoInfo}]
    /\ dirs \subseteq Name
    /\ conf \in [Name -> [ConfFile -> Content]]
    /\ pc \in [Req -> Place]
    /\ loc \in [Req -> Locals]
    /\ bg \in [Job -> {"none", "scan", "open", "set"}]
    /\ scan \in [Job -> SUBSET Name]
    /\ answer \in Answer
    /\ creator \in [Name -> Req \cup {NoOne}]
    /\ confirmed \subseteq Name
    /\ existed \subseteq Name

\* The root directory may hold repositories made by hand; the store is new.
Init ==
    /\ up = TRUE
    /\ handle = NoOne
    /\ token = Blank /\ files = {} /\ info = [n \in Name |-> NoInfo]
    /\ dirs \in SUBSET Name
    /\ conf = [n \in Name |-> IF n \in dirs THEN Fresh ELSE Removed]
    /\ pc = [r \in Req |-> "idle"]
    /\ loc = [r \in Req |-> NoLocals]
    /\ bg = [j \in Job |-> "none"]
    /\ scan = [j \in Job |-> {}]
    /\ answer = "none"
    /\ creator = [n \in Name |-> NoOne]
    /\ confirmed = {}
    /\ existed = dirs

-----------------------------------------------------------------------------
(* Control *)

Goto(r, l) == pc' = [pc EXCEPT ![r] = l] /\ answer' = "none"

\* The handler sends its answer (or dies with a panic: "abort") and is gone.
Respond(r, code) ==
    /\ pc' = [pc EXCEPT ![r] = "idle"]
    /\ loc' = [loc EXCEPT ![r] = NoLocals]
    /\ answer' = code

\* Mutant of CloserDb: Close drops the lock whoever has the store open.
CloserDbAny(g) == handle' = NoOne

\* db.Close: only the goroutine whose handle is still open gives it back.
\* A second Close of the same handle returns ErrClosed and does nothing.
CloserDb(g) == handle' = IF handle = g THEN NoOne ELSE handle

\* A slot takes a new request once the last one is answered.
Free(r) == up /\ pc[r] = "idle"

\* Bound: an Add or a Del comes in while there is a slot left for its refresh.
Room ==
    Cardinality({r \in Req : loc[r].kind \in {"add", "del"}})
        + Cardinality({j \in Job : bg[j] # "none"}) < Cardinality(Job)

\* GetDb in a handler: the store is opened, or the handler panics.
GetDb(r) ==
    /\ pc[r] \in Opening
    /\ \/ /\ handle = NoOne
          /\ handle' = Handler(r)
          /\ Goto(r, AfterGetDb[pc[r]])
          /\ UNCHANGED loc
       \/ /\ handle # NoOne
          /\ Respond(r, "abort")
          /\ UNCHANGED handle
    /\ UNCHANGED <<up, store, tree, jobs, history>>

\* The part of a handler before its first GetDb, when it gets that far.
Begin(r, k, n, l) ==
    /\ k \in Kinds
    /\ Free(r)
    /\ loc' = [loc EXCEPT ![r] = [@ EXCEPT !.kind = k, !.name = n]]
    /\ Goto(r, l)
    /\ UNCHANGED <<up, handle, store, tree, jobs, history>>

\* The same part when it finds the parameters wrong and answers at once.
Refuse(r, k, code) ==
    /\ k \in Kinds
    /\ Free(r)
    /\ Respond(r, code)
    /\ UNCHANGED <<up, handle, store, tree, jobs, history>>

\* IsLogn after GetDb: compare the token that the client sent with the one
\* that is stored, close the store, and go on or answer 430.
IsLogn(r) ==
    /\ pc[r] = "auth_get"
    /\ CloserDb(Handler(r))
    /\ \E userToken \in Token \cup {Blank} :
          \/ /\ userToken = token
             /\ Goto(r, AfterAuth[loc[r].kind])
             /\ UNCHANGED loc
          \/ /\ userToken # token
             /\ Respond(r, "430")
    /\ UNCHANGED <<up, store, tree, jobs, history>>

-----------------------------------------------------------------------------
(* Login *)

LoginStart(r) ==
    \/ Begin(r, "login", NoName, "login_open")
    \/ Refuse(r, "login", "400")

\* A new UUID replaces the token of whoever was logged in before.
LoginSet(r) ==
    /\ pc[r] = "login_set"
    /\ \E t \in Token \ {token} : token' = t
    /\ CloserDb(Handler(r))
    /\ Respond(r, "200")
    /\ UNCHANGED <<up, files, info, tree, jobs, history>>

-----------------------------------------------------------------------------
(* Index *)

IndexStart(r) == Begin(r, "index", NoName, "auth_open")

\* Mutant of NamesGet: the early return forgets CloserDb.
NamesGetLeaks(r) ==
    /\ pc[r] = "names_get"
    /\ \/ /\ files # {}
          /\ loc' = [loc EXCEPT ![r] = [@ EXCEPT !.todo = files]]
          /\ Goto(r, "index_open")
       \/ /\ files = {}
          /\ Goto(r, "names_scan")
          /\ UNCHANGED loc
    /\ UNCHANGED <<up, handle, store, tree, jobs, history>>

\* Mutant of NamesGet: the store is closed before the directory is read.
NamesGetCloses(r) ==
    /\ pc[r] = "names_get"
    /\ CloserDb(Handler(r))
    /\ \/ /\ files # {}
          /\ loc' = [loc EXCEPT ![r] = [@ EXCEPT !.todo = files]]
          /\ Goto(r, "index_open")
       \/ /\ files = {}
          /\ Goto(r, "names_scan")
          /\ UNCHANGED loc
    /\ UNCHANGED <<up, store, tree, jobs, history>>

\* GetDirFilesName: a listing that is not the empty string is believed.
NamesGet(r) ==
    /\ pc[r] = "names_get"
    /\ \/ /\ files # {}
          /\ loc' = [loc EXCEPT ![r] = [@ EXCEPT !.todo = files]]
          /\ CloserDb(Handler(r))
          /\ Goto(r, "index_open")
       \/ /\ files = {}
          /\ Goto(r, "names_scan")
          /\ UNCHANGED <<handle, loc>>
    /\ UNCHANGED <<up, store, tree, jobs, history>>

NamesScan(r) ==
    /\ pc[r] = "names_scan"
    /\ loc' = [loc EXCEPT ![r] = [@ EXCEPT !.todo = dirs]]
    /\ Goto(r, "names_set")
    /\ UNCHANGED <<up, handle, store, tree, jobs, history>>

NamesSet(r) ==
    /\ pc[r] = "names_set"
    /\ files' = Fragments(loc[r].todo)
    /\ CloserDb(Handler(r))
    /\ Goto(r, "index_open")
    /\ UNCHANGED <<up, token, info, tree, loc, jobs, history>>

\* Read the record of the next name; after the last one, close and answer.
IndexGet(r) ==
    /\ pc[r] = "index_get"
    /\ \/ \E n \in loc[r].todo :
             /\ loc' = [loc EXCEPT ![r] = [@ EXCEPT !.name = n, !.snap = info[n]]]
             /\ Goto(r, "index_stub")
             /\ UNCHANGED handle
       \/ /\ loc[r].todo = {}
          /\ CloserDb(Handler(r))
          /\ Respond(r, "200")
    /\ UNCHANGED <<up, store, tree, jobs, history>>

\* Mutant of IndexStub: the empty record replaces whatever is there.
IndexStubAlways(r) ==
    /\ pc[r] = "index_stub"
    /\ info' = [info EXCEPT ![loc[r].name] = StubInfo]
    /\ loc' = [loc EXCEPT ![r] = [@ EXCEPT !.todo = loc[r].todo \ {loc[r].name},
                                         !.name = NoName, !.snap = NoInfo]]
    /\ Goto(r, "index_get")
    /\ UNCHANGED <<up, handle, token, files, tree, jobs, history>>

\* Mutant of IndexStub: the loop does not move on to the next name.
IndexStubStays(r) ==
    /\ pc[r] = "index_stub"
    /\ info' = IF loc[r].snap = NoInfo
               THEN [info EXCEPT ![loc[r].name] = StubInfo] ELSE info
    /\ loc' = [loc EXCEPT ![r] = [@ EXCEPT !.name = NoName, !.snap = NoInfo]]
    /\ Goto(r, "index_get")
    /\ UNCHANGED <<up, handle, token, files, tree, jobs, history>>

\* A name without a record gets an empty one.
IndexStub(r) ==
    /\ pc[r] = "index_stub"
    /\ info' = IF loc[r].snap = NoInfo
               THEN [info EXCEPT ![loc[r].name] = StubInfo] ELSE info
    /\ loc' = [loc EXCEPT ![r] = [@ EXCEPT !.todo = loc[r].todo \ {loc[r].name},
                                         !.name = NoName, !.snap = NoInfo]]
    /\ Goto(r, "index_get")
    /\ UNCHANGED <<up, handle, token, files, tree, jobs, history>>

-----------------------------------------------------------------------------
(* Add *)

AddStart(r) ==
    \/ Room /\ \E n \in Name : Begin(r, "add", n, "auth_open")
    \/ Refuse(r, "add", "400")

\* Mutant of AddCheck: the name is listed before the repository is made.
AddCheckLists(r) ==
    /\ pc[r] = "add_check"
    /\ \/ /\ loc[r].name \in dirs
          /\ Respond(r, "400")
          /\ UNCHANGED files
       \/ /\ loc[r].name \notin dirs
          /\ files' = files \cup {loc[r].name}
          /\ Goto(r, "add_create")
          /\ UNCHANGED loc
    /\ UNCHANGED <<up, handle, token, info, tree, jobs, history>>

AddCheck(r) ==
    /\ pc[r] = "add_check"
    /\ \/ /\ loc[r].name \in dirs
          /\ Respond(r, "400")
       \/ /\ loc[r].name \notin dirs
          /\ Goto(r, "add_create")
          /\ UNCHANGED loc
    /\ UNCHANGED <<up, handle, store, tree, jobs, history>>

\* svnadmin create fails on a directory that is there, and may fail anyway.
AddCreate(r) ==
    /\ pc[r] = "add_create"
    /\ \/ /\ Respond(r, "400")
          /\ UNCHANGED <<tree, history>>
       \/ LET n == loc[r].name IN
          /\ n \notin dirs
          /\ dirs' = dirs \cup {n}
          /\ conf' = [conf EXCEPT ![n] = Fresh]
          /\ creator' = [creator EXCEPT ![n] = r]
          /\ existed' = existed \cup {n}
          /\ Goto(r, "add_conf")
          /\ UNCHANGED <<loc, confirmed>>
    /\ UNCHANGED <<up, handle, store, jobs>>

\* ioutil.WriteFile in a repository's conf directory.  Without that directory
\* it fails, and its callers ignore the error.
HasConf(n) == n \in dirs /\ \E f \in ConfFile : conf[n][f] # "gone"

WriteFile(n, f, c) ==
    conf' = IF HasConf(n) THEN [conf EXCEPT ![n][f] = c] ELSE conf

\* Mutant of AddConf: the default svnserve.conf stays.
AddConfSkipped(r) ==
    /\ pc[r] = "add_conf"
    /\ Goto(r, "add_open")
    /\ UNCHANGED <<up, handle, store, tree, loc, jobs, history>>

AddConf(r) ==
    /\ pc[r] = "add_conf"
    /\ WriteFile(loc[r].name, "svnserve.conf", "closed")
    /\ Goto(r, "add_open")
    /\ UNCHANGED <<up, handle, store, dirs, loc, jobs, history>>

AddSet(r) ==
    /\ pc[r] = "add_set"
    /\ \E c \in Data, t \in Time :
          info' = [info EXCEPT ![loc[r].name] = [cname |-> c, ctime |-> t]]
    /\ CloserDb(Handler(r))
    /\ Goto(r, "finish")
    /\ UNCHANGED <<up, token, files, tree, loc, jobs, history>>

\* Mutant of Finish: the listing is not refreshed.
FinishOnly(r) ==
    /\ pc[r] = "finish"
    /\ confirmed' = IF loc[r].kind = "add" /\ creator[loc[r].name] = r
                    THEN confirmed \cup {loc[r].name} ELSE confirmed
    /\ Respond(r, "200")
    /\ UNCHANGED <<up, handle, store, tree, jobs, creator, existed>>

\* The end of Add and of Del: start the refresh and answer 200.
Finish(r) ==
    /\ pc[r] = "finish"
    /\ \E j \in Job : bg[j] = "none" /\ bg' = [bg EXCEPT ![j] = "scan"]
    /\ confirmed' = IF loc[r].kind = "add" /\ creator[loc[r].name] = r
                    THEN confirmed \cup {loc[r].name} ELSE confirmed
    /\ Respond(r, "200")
    /\ UNCHANGED <<up, handle, store, tree, scan, creator, existed>>

-----------------------------------------------------------------------------
(* Edit *)

\* GET without the parameters runs off the end of a slice and panics.
EditGetStart(r) ==
    \/ \E n \in Name : Begin(r, "editGet", n, "auth_open")
    \/ \E code \in {"400", "abort"} : Refuse(r, "editGet", code)

\* GetSvnDb and getSvnConfig: what was read only goes into the answer.
ReadGet(r) ==
    /\ pc[r] = "read_get"
    /\ CloserDb(Handler(r))
    /\ Respond(r, "200")
    /\ UNCHANGED <<up, store, tree, jobs, history>>

\* POST, and the answer to any method other than GET and POST.
EditPostStart(r) ==
    \/ Begin(r, "editPost", NoName, "auth_open")
    \/ Refuse(r, "editPost", "430")

EditName(r) ==
    /\ pc[r] = "edit_name"
    /\ \/ Respond(r, "400")
       \/ \E n \in Name :
             /\ loc' = [loc EXCEPT ![r] = [@ EXCEPT !.name = n]]
             /\ Goto(r, "edit_open")
    /\ UNCHANGED <<up, handle, store, tree, jobs, history>>

\* Mutant of EditGet: the record is not read.
EditGetNothing(r) ==
    /\ pc[r] = "edit_get"
    /\ Goto(r, "edit_set")
    /\ UNCHANGED <<up, handle, store, tree, loc, jobs, history>>

EditGet(r) ==
    /\ pc[r] = "edit_get"
    /\ loc' = [loc EXCEPT ![r] = [@ EXCEPT !.snap = info[loc[r].name]]]
    /\ Goto(r, "edit_set")
    /\ UNCHANGED <<up, handle, store, tree, jobs, history>>

\* The record read before is written back with the submitted display name.
EditSet(r) ==
    /\ pc[r] = "edit_set"
    /\ \E c \in Data \cup {Blank} :
          info' = [info EXCEPT ![loc[r].name] =
                      [cname |-> c, ctime |-> CtimeOf(loc[r].snap)]]
    /\ \E d \in Data \cup {Blank} :
          loc' = [loc EXCEPT ![r] = [@ EXCEPT !.data = d, !.snap = NoInfo]]
    /\ CloserDb(Handler(r))
    /\ Goto(r, "edit_authz")
    /\ UNCHANGED <<up, token, files, tree, jobs, history>>

\* SaveSvnConfig: two writes, and true whatever became of them.
EditAuthz(r) ==
    /\ pc[r] = "edit_authz"
    /\ WriteFile(loc[r].name, "authz", loc[r].data)
    /\ Goto(r, "edit_passwd")
    /\ UNCHANGED <<up, handle, store, dirs, loc, jobs, history>>

EditPasswd(r) ==
    /\ pc[r] = "edit_passwd"
    /\ WriteFile(loc[r].name, "passwd", loc[r].data)
    /\ Respond(r, "200")
    /\ UNCHANGED <<up, handle, store, dirs, jobs, history>>

-----------------------------------------------------------------------------
(* Del *)

DelStart(r) ==
    \/ Room /\ \E n \in Name : Begin(r, "del", n, "auth_open")
    \/ Refuse(r, "del", "400")

\* The deletion password, then os.RemoveAll: it removes the whole repository
\* (or finds none), or fails half way with some files already gone.
DelRemove(r) ==
    LET n == loc[r].name IN
    /\ pc[r] = "del_remove"
    /\ \/ /\ Respond(r, "400")
          /\ UNCHANGED <<tree, history>>
       \/ /\ dirs' = dirs \ {n}
          /\ conf' = [conf EXCEPT ![n] = Removed]
          /\ creator' = [creator EXCEPT ![n] = NoOne]
          /\ confirmed' = confirmed \ {n}
          /\ Goto(r, "del_open")
          /\ UNCHANGED <<loc, existed>>
       \/ /\ n \in dirs
          /\ \E S \in SUBSET ConfFile :
                conf' = [conf EXCEPT ![n] =
                           [f \in ConfFile |-> IF f \in S THEN "gone" ELSE @[f]]]
          /\ creator' = [creator EXCEPT ![n] = NoOne]
          /\ confirmed' = confirmed \ {n}
          /\ Respond(r, "400")
          /\ UNCHANGED <<dirs, existed>>
    /\ UNCHANGED <<up, handle, store, jobs>>

\* DelDbByKey deletes the record and closes the store itself.
DelDelete(r) ==
    LET n == loc[r].name IN
    /\ pc[r] = "del_delete"
    /\ info' = [info EXCEPT ![n] = NoInfo]
    /\ CloserDb(Handler(r))
    /\ creator' = [creator EXCEPT ![n] = NoOne]
    /\ confirmed' = confirmed \ {n}
    /\ Goto(r, "del_close")
    /\ UNCHANGED <<up, token, files, tree, loc, jobs, existed>>

\* Del closes the store again, when another goroutine may have it open.
DelClose(r) ==
    /\ pc[r] = "del_close"
    /\ CloserDb(Handler(r))
    /\ Goto(r, "finish")
    /\ UNCHANGED <<up, store, tree, loc, jobs, history>>

-----------------------------------------------------------------------------
(* UpdateDirFilesNameToDb, in the background *)

RefreshScan(j) ==
    /\ bg[j] = "scan"
    /\ scan' = [scan EXCEPT ![j] = dirs]
    /\ bg' = [bg EXCEPT ![j] = "open"]
    /\ answer' = "none"
    /\ UNCHANGED <<up, handle, store, tree, pc, loc, history>>

RefreshOpen(j) ==
    /\ bg[j] = "open"
    /\ handle = NoOne
    /\ handle' = Refresher(j)
    /\ bg' = [bg EXCEPT ![j] = "set"]
    /\ answer' = "none"
    /\ UNCHANGED <<up, store, tree, pc, loc, scan, history>>

RefreshSet(j) ==
    /\ bg[j] = "set"
    /\ files' = Fragments(scan[j])
    /\ CloserDb(Refresher(j))
    /\ bg' = [bg EXCEPT ![j] = "none"]
    /\ scan' = [scan EXCEPT ![j] = {}]
    /\ answer' = "none"
    /\ UNCHANGED <<up, token, info, tree, pc, loc, history>>

\* GetDb panics in the background goroutine: the process ends, every
\* goroutine with it, and the kernel drops the file lock.
RefreshPanic(j) ==
    /\ bg[j] = "open"
    /\ handle # NoOne
    /\ up' = FALSE
    /\ handle' = NoOne
    /\ pc' = [q \in Req |-> "idle"]
    /\ loc' = [q \in Req |-> NoLocals]
    /\ bg' = [k \in Job |-> "none"]
    /\ scan' = [k \in Job |-> {}]
    /\ answer' = "none"
    /\ UNCHANGED <<store, tree, history>>

\* The operator starts the server again; what is on disk is still there.
Restart ==
    /\ ~up
    /\ up' = TRUE
    /\ answer' = "none"
    /\ UNCHANGED <<handle, store, tree, pc, loc, jobs, history>>

-----------------------------------------------------------------------------
(* Specification *)

Start(r) ==
    \/ LoginStart(r) \/ IndexStart(r) \/ AddStart(r)
    \/ EditGetStart(r) \/ EditPostStart(r) \/ DelStart(r)

HandlerStep(r) ==
    \/ GetDb(r) \/ IsLogn(r) \/ LoginSet(r)
    \/ NamesGet(r) \/ NamesScan(r) \/ NamesSet(r) \/ IndexGet(r) \/ IndexStub(r)
    \/ AddCheck(r) \/ AddCreate(r) \/ AddConf(r) \/ AddSet(r) \/ Finish(r)
    \/ ReadGet(r)
    \/ EditName(r) \/ EditGet(r) \/ EditSet(r) \/ EditAuthz(r) \/ EditPasswd(r)
    \/ DelRemove(r) \/ DelDelete(r) \/ DelClose(r)

RefreshStep(j) ==
    RefreshScan(j) \/ RefreshOpen(j) \/ RefreshSet(j) \/ RefreshPanic(j)

Next ==
    \/ \E r \in Req : Start(r) \/ HandlerStep(r)
    \/ \E j \in Job : RefreshStep(j)
    \/ Restart

Spec == Init /\ [][Next]_vars

\* The Go scheduler runs every goroutine that can run; nothing obliges a
\* client to send a request or the operator to restart the server.
FairSpec ==
    /\ Spec
    /\ \A r \in Req : WF_vars(HandlerStep(r))
    /\ \A j \in Job : WF_vars(RefreshStep(j))

-----------------------------------------------------------------------------
(* Properties *)

Store == INSTANCE ProjectStore

\* The store is open exactly while one goroutine is between GetDb and
\* CloserDb: no two goroutines have it open, no early return, panic or second
\* Close leaves it open for good or takes it from another goroutine.
OneOpenHandle ==
    /\ \A r \in Req : pc[r] \in Critical <=> handle = Handler(r)
    /\ \A j \in Job : bg[j] = "set" <=> handle = Refresher(j)

\* What Index and Edit have read of a record is still what the store holds
\* when they write that record.
SnapshotCurrent ==
    \A r \in Req : pc[r] \in {"index_stub", "edit_set"} =>
        loc[r].snap = info[loc[r].name]

\* Handlers interleave, yet the store changes as if each operation on it were
\* one step: Edit keeps the creation time that the record has at that moment,
\* and Index never overwrites a record with a stub.
StoreAtomic == Store!StoreSpec

\* From the answer "created" of Add until a Del touches the project, the
\* repository is there, its svnserve.conf is the server's own (no anonymous
\* access), and its record has a creation time, whatever other Adds, Edits,
\* Indexes, panics and restarts do meanwhile.
ConfirmedIntact ==
    \A n \in confirmed :
        /\ n \in dirs
        /\ conf[n]["svnserve.conf"] = "closed"
        /\ info[n] # NoInfo /\ info[n].ctime # Blank

\* The listing, stored or in the hands of an Index or a refresh, names only
\* directories that are or once were in the repository root.
ListedExisted ==
    /\ files \subseteq existed
    /\ \A r \in Req : loc[r].todo \subseteq existed
    /\ \A j \in Job : scan[j] \subseteq existed

\* A listing that Index stores misses no project that an Add has confirmed:
\* unlike a refresh, GetDirFilesName reads the directory with the store open,
\* so that an Add is before it with its record or after it altogether.
IndexListsConfirmed ==
    \A r \in Req : pc[r] = "names_set" => confirmed \subseteq loc[r].todo

\* A project whose Add is about to answer "created" gets into the stored listing
\* at some moment, whoever has the store meanwhile, unless a Del touches it first
\* or a refresh that finds the store busy ends the process.  (A refresh with an
\* older scan may take it out again, see ListingComplete.)
AddedIsListed ==
    \A n \in Name :
        (\E r \in Req : /\ pc[r] = "finish" /\ loc[r].kind = "add"
                        /\ loc[r].name = n /\ creator[n] = r)
            ~> (Parts[n] \subseteq files \/ creator[n] = NoOne \/ ~up)

Quiet ==
    /\ up
    /\ \A r \in Req : pc[r] = "idle"
    /\ \A j \in Job : bg[j] = "none"

\* What the comment at index.go:36 says, "all project names in the svn directory":
\* when nothing runs, what Index would show names every project whose Add was
\* answered "created".  The code does not keep it, even for a client that waits
\* for each answer.
ListingComplete == Quiet => files = {} \/ Fragments(confirmed) \subseteq files

\* Edit answers 200 only when both configuration files now hold what it was
\* given to save.
EditSaved ==
    [][\A r \in Req :
          pc[r] = "edit_passwd" /\ answer' = "200" /\ pc'[r] = "idle" =>
              HasConf(loc[r].name)]_vars

\* Every request comes to an end: an answer or an aborted connection.
EveryRequestEnds == \A r \in Req : pc[r] # "idle" ~> pc[r] = "idle"

\* The store never stays open.
HandleReleased == []<>(handle = NoOne)

=============================================================================

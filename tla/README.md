# Verification of svn_web_admin

svn_web_admin administers Subversion repositories through a web page. The
repository holds two servers that do this independently of each other: a Go
server (`src/go_code/go`), which keeps its state in a LevelDB store, and a Java
server (`src/java/svnadmin`), which keeps its state in an SQLite database. Both
run `svnadmin create` and rewrite the configuration files of the repositories.
The Go server brings its store with it: the sources of goleveldb, snappy and
json-iterator are part of the repository and most of its code, and what the
handlers rely on (an acknowledged record survives, a second open fails, a record
is read back as it was written) is decided there. This directory holds TLA+
models of the two servers and of that storage engine, TLC configurations that
check the models on small instances, and TLAPS proofs of what matters most for
instances of any size.

## The Go server: parts, state, operations

| part | state | operations |
|---|---|---|
| `util/leveldb.go` | the LevelDB directory and its file lock | GetDb, CloserDb, GetDbByKey, SetDbByKey, DelDbByKey |
| `logic/login.go`, `util/Auth.go` | the key `uuid`: the one session token | Login, IsLogn |
| `logic/index.go` | the key `AllFiles`: the cached listing of the repository root; a record per project | Index, GetDirFilesName, UpdateDirFilesNameToDb |
| `logic/add.go` | repository root, `conf/svnserve.conf`, the record | Add |
| `logic/edit.go` | `conf/authz`, `conf/passwd`, the record | Edit (GET, POST) |
| `logic/del.go` | repository root, the record | Del |
| `main.go`, `config/Config.go` | routes, `config.json` | main, GetConfig |

`net/http` runs every request in a goroutine of its own and the handlers use no
lock. What keeps them apart is LevelDB's file lock: every use of the store opens
it, works and closes it, and an open of a store that is already open fails. GetDb
turns that failure into a panic. In a handler `net/http` recovers the panic and
drops the connection; in the goroutine that Add and Del start to refresh the
listing nothing recovers it, and the process ends.

Hard about this: a handler may die at any GetDb with half of its work done; the
refresh may end the process while other handlers are anywhere; the directory
tree is changed outside the lock; the listing is a cache that only a refresh
corrects; Del closes the store twice.

What makes it correct: only one goroutine works on the store at a time; a record
that was read is still the same when it is written back; a project that Add has
confirmed keeps its repository, its closed `svnserve.conf` and its record until a
Del touches it; the listing names what is there; every request ends and the store
is given back.

## The Java server: parts, state, operations

| part | state | operations |
|---|---|---|
| `service/SvnService.java`, `controller/Index.java` | table `svn_project`, the repository tree | addProject, update, delSvn, getList, getSvnInfo |
| `service/UserService.java`, `controller/User.java` | table `user` | addUser, editUser, deleteUser, editUserInfo |
| `SvnService.removeNameOnConfig` | the `authz` files | the purge of a deleted user |
| `controller/Login.java`, `handler/Interceptor1.java` | the session attribute `user` | doLogin, logOut, preHandle, isRole |
| `util/FilesUtil.java`, `util/Shell.java` | the repository tree | writeFile, deleteDir, getFileDir, doShell |
| `util/PatternUtil.java`, `util/MD5Util.java` | none | name filters, authz patterns, salted digests |
| `mapper/*.xml`, `svnadmin.db` | the tables | one SQL statement per call, each committed by itself |
| `controller/Crontab.java` | none | prints the directories |

Tomcat runs every request in a thread of its own. There is no lock and no
transaction: a request is a series of SQL statements and file operations, and
any other request may run between two of them. Directories are checked for by
name, rows by id; ids are used again; the session holds a copy of the user row as
of the login; the column `auth` is a second copy of the file `authz`; the results
of the shell and of the file operations are dropped.

What makes it correct: no two rows share a directory or a login; a row has its
directory; what an Edit has confirmed is in the file; a directory that Add has
confirmed is closed to anonymous access; a deleted user is in no `authz`; a
deletion removes the row and the directory of one and the same project; every
request ends.

## The store of the Go server: parts, state, operations

Paths are below `src/go_code/go/github.com/`.

| part | state | operations |
|---|---|---|
| `goleveldb/leveldb`: db*.go, batch.go | journals, memdbs, sequence number, snapshots, transaction | Open, Recover, Write, Put, Delete, Get, NewIterator, GetSnapshot, OpenTransaction, CompactRange, SetReadOnly, Close; flush and compaction |
| session*.go, version.go, table.go | manifest, versions with their references, file numbers | commit, recover, newManifest, pickCompaction, expand |
| the channels of db_write.go, db_compaction.go | write lock, merge, commands, errors | writeLocked, unlockWrite, mCompaction, tCompaction, compactionError |
| storage/ | `LOCK`, `CURRENT`, its backup and pending files | OpenFile, Lock, SetMeta, GetMeta, Create, Open, Remove, Close |
| cache/ | a resizing hash table, handles, LRU list | Get, Delete, Evict*, SetCapacity, Close, CloseWeak, Release |
| memdb/, table/, filter/, key.go, comparer/ | skip list, sorted table files | Put, Find, Append, find, OffsetOf, Separator, Successor |
| db_iter.go, iterator/ | position and direction | First, Last, Seek, Next, Prev, Release |
| journal/, batch.go, session_record.go | the logs | Next, Write, Flush, nextChunk, decode |
| `golang/snappy` | none | Encode, Decode |
| `json-iterator/go` | none | Marshal, Unmarshal |

A database has four kinds of goroutines: callers, the memdb compaction, the
table compaction and the one that hands errors out. A caller that writes takes
the write lock, merges the batches of others that wait, writes the journal, the
memdb and the sequence number; a full memdb is frozen and flushed to a table,
tables are merged down the levels, and each change of the set of tables is a
record in the manifest, which `CURRENT` names. Readers take a sequence number,
the memdbs and a version, in this order, and hold on to them.

Hard about this: a crash between any two of these changes, also during the
recovery from one; readers over files that compactions are done with; the lock
that is handed from one writer to the next; five kinds of parties on unbuffered
channels, any of which may fail or leave; a hash table that is resized under its
users; iterators that turn round over merged, layered iterators; torn and
damaged logs; and the boundaries of every format.

What makes it correct: it behaves like one map that each write changes at one
instant, for every reader and through every crash (`KvStore`); an iterator is a
cursor over one fixed list (`Cursor`); every call returns; a value is not
released while somebody has it; `CURRENT` always leads to a whole manifest;
what is read back is what was written, or is refused.

## Modules

| module | what it is | code |
|---|---|---|
| `SvnInfo` | names, records and times shared by the Go modules | `logic/index.go`, `logic/edit.go` |
| `ProjectStore` | abstract specification: the contents of the Go server's store, every operation on it one step | what Login, Add, Edit, Index, Del and the refresh do to the store |
| `GoServer` | the Go server, one action per step of a handler or a refresh; `Store == INSTANCE ProjectStore` | `main.go`, `logic/`, `util/`, `config/` |
| `GoServerProofs` | theorems about `GoServer` | |
| `JavaServer` | the Java server, one action per statement or file operation | `controller/`, `service/`, `handler/`, `util/`, `mapper/` |
| `JavaServerProofs` | theorems about `JavaServer` | |
| `KvStore` | abstract specification: what a database promises | comments of DB.Write, Get, GetSnapshot |
| `Levels` | operators: tables, levels, lookups, staging, choice and building of compactions | `table.go`, `version.go`, `session_compaction.go`, `db_compaction.go` |
| `LevelDb` | a database from its files up; `K == INSTANCE KvStore WITH ...` | `db*.go`, `session*.go` |
| `Writers` | the goroutines and channels of a database | `db_write.go`, `db_compaction.go`, `db_transaction.go`, `db.go` |
| `WritersProofs` | theorems about `Writers` | |
| `FileStorage` | lock file, `CURRENT`, manifests as files | `storage/` |
| `FileStorageProofs` | theorems about `FileStorage` | |
| `Cache`, `CacheProofs` | the cache of tables and blocks | `cache/` |
| `InternalKeys`, `MemDb`, `TableFormat` | operators: keys, skip list, sorted tables with index and filter | `key.go`, `comparer*`, `memdb/`, `table/`, `filter*` |
| `Cursor` | abstract specification: what an iterator promises | comments of `iterator/iter.go` |
| `DbIter` | iterators and lookups over all of these; `C == INSTANCE Cursor WITH ...` | `db_iter.go`, `iterator/`, `table.go`, `version.go` |
| `Journal` | operators: the chunk format of logs | `journal/journal.go` |
| `Wal` | the two logs: written, torn, damaged, replayed | `batch.go`, `db_write.go`, `session_record.go`, `session.go`, `db.go` |
| `Snappy`, `JsonText` | operators: compressed blocks; the JSON of a project record | `golang/snappy`, `json-iterator/go` |
| `Formats` | `Wal`, and values written and read back through `Snappy` and `JsonText` | `table/`, `logic/index.go` |
| `MC*` | constants of the instances | |

How they fit: `GoServer` uses the store through one lock and atomic operations
(`ProjectStore`). `FileStorage` shows why a second open fails, `LevelDb` why what
was written is there at the next open, `Writers` why the open store answers.
`LevelDb` takes a table for a set of entries, a manifest for the state its records
add up to and a journal for the batches in it; `DbIter` with `TableFormat` and
`MemDb`, and `Wal` with `Journal`, show that the bytes stand for just that.

An operator with "Mutant" in its comment is a plausible bug; no specification
uses it. Putting it in the place of the operator it is a mutant of must make a
property fail, which shows that the property can tell.

### GoServer

`handle` is the file lock and the open store in one: the goroutine that has it,
or nobody. `token`, `files` and `info` are the keys `uuid`, `AllFiles` and the
projects' keys. `dirs` and `conf` are the repository tree. `pc[r]` and `loc[r]`
are the handler of request `r` and its local variables; `bg[j]` and `scan[j]` are
refresh `j` and what it has read. Add and Del answer while the refresh they have
started still runs, so a refresh has a slot of its own (`Job`) and the next request,
also one of the same client, may meet it. A place `x_open` is a GetDb: it succeeds when
`handle` is free and panics otherwise (the action GetDb has both), after which
a handler loses only its own connection. `RefreshPanic` is the same failure in a
refresh: it ends the process (`up`), and `Restart` starts it again; the store and
the tree survive.
`creator`, `confirmed` and `existed` are history.

Abstractions: a file is written in one step and only a missing directory makes
that fail; RemoveAll removes everything or fails with any part left; a
repository with none of the three configuration files stands for one without
`conf`; svnadmin is one step and does not outlive the process; `config.json` does
not change; no project is called `uuid` or `AllFiles`; Put on an open store
succeeds; an Add or a Del comes in only while a slot is left for the refresh it may
start (`Room`, a bound); `Parts` says what a
name becomes when a joined listing is split at commas; display name, remark and
modification time of a record are dropped where nothing depends on them; a
missing `uuid` reads as the empty token, which an empty token matches before the
first login.

### JavaServer

`user` and `project` are the tables, `dir` the tree, `session` the attribute
`user` of every session. `pc` and `loc` are the threads. A place is named after
the statement that comes next. `saved`, `confirmed`, `former` and `shown`, and the
locals `clean` and `row`, are history. A request that is turned away before it
touches shared state is a stuttering step.

Every statement may fail: the database may be busy or a title taken (titles are
not modelled otherwise). Which failures of the surroundings happen is the
constant `Faults`: `/bin/sh` cannot be started, svnadmin fails, a write fails (the
file stays or is emptied), a deletion leaves something behind. `StalePages` says
whether a deletion may come from a page that shows a row of long ago.
`Shipped` is the beginning of the user table of `svnadmin.db`.

Abstractions: an `authz` text is the set of logins it grants access to, and no
login occurs within another, so that the patterns of the purge hit exactly the
lines of one login; `passwd` has no content; writeFile and deleteDir are one step
each; passwords are the choice whether a login succeeds; forms are filled in as
the pages require (texts not empty, parameters present); editMyInfo changes
nothing that is modelled; the check of a session and the code up to the next
statement are one step.

### LevelDb and Levels

`disk` is `tables`, `journals`, `manifests` and `current`: what survives. `s` is the
session, `d` the memdbs and the sequence number, `rc` the recovery under way, `w`
the holder of the write lock, `tr` the transaction, `mc` and `tc` the two
compactions, `rd` the reader, `opened` the table cache. `acked` is history: for
each key the last acknowledged write. An action is one change of a file or of
state under memMu, vmu or snapsMu; `phase` says how far an open has come, so that
`Crash` may fall between any two steps of it. The refinement reads the files as
what the next open would make of them (`Durable`), and memdbs and version as what
a new reader would see.

Abstractions: sizes are numbers of entries; the compaction pointer is any table
of the level; which lookup makes a table due for a seek compaction is free; the
write throttle sleeps and is left out; a reader is one at a time, `Get` or an
iterator; a crash is one of the process, so what was written to a file is there; in a
recovery the making of a manifest and SetMeta are one step, and so are SetMeta and the
removal of the manifest before (FileStorage has them apart); a batch larger than the
memdb, which becomes a transaction (`db_write.go:271`), is left out; a range compaction
waits for the memdb compaction also when it had nothing to rotate.
`Allow` names situations that the code is not prepared for (see below); the
runs exclude them, and with one of them allowed a property fails.

### Writers

`lock` is writeLockC, the other channels are steps of two parties. A client makes
one call; `pc`, `op` and `res` say which, where it is and what it returned.
`journal` is the groups of writes that were written together. writeJournal hands a group
to the file before it syncs (`db_write.go:26`), so that a group whose write fails may be in
the journal all the same; the journal writer then refuses what comes after until a new
file is made, where the model may go on with the old one. `mem`, `frozen` and
`l0` are counts. The memdb compaction (`m`), the table compaction (`t`) and
compactionError (`ce`) are processes with their own places; each of their file
operations may fail (`MaxFails`), once for a retry or for good.

### FileStorage

`cur`, `bak` and `pend` are the name files, `man` the manifests, `flock` the lock of
the operating system, `st` each process with the storage it has open. setMeta is
one action per change of the directory, and so are GetMeta's repair and the
removals; a process may die at each. Each step of setMeta may fail, the sync of the
directory after the rename (`MetaSync`) included.

`spoilt` is history: an error of SetMeta has had a consequence that the code is not
prepared for. One is that failed sync: SetMeta returns an error although `CURRENT` has
been replaced (`file_storage.go:272`), and the session removes the manifest that `CURRENT`
now names (`session_util.go:225`); the next GetMeta may even copy this `CURRENT` over the
good backup before it is put right. The other is that reuseFileNum gives the number back
(`session_util.go:228`) while a pending `CURRENT.n` still names it: a new manifest of that
number counts before it is complete. `MetaAtomic` is about all histories without these
two, and TLC shows each of them to break it.

### Cache

`tabs` is the chain of hash tables of a resizing, `node` the nodes with their
counts and OnDel functions, `lru` the list. A handle is an object of its own, as in the
code: `hnd` says what it leads to, 0 once it is released, so that an entry of the list and
its handle part ways when lru.Evict releases the one and leaves the other. OnDel functions
are numbered in the order in which Delete was given them. An action is a section under one
mutex or one atomic operation. The nodes of a frozen bucket move when somebody
first needs the bucket, or when the background goroutine of the resizing comes to
it.

### InternalKeys, MemDb, TableFormat, DbIter

A state of `DbIter` has a live and a frozen memdb and tables on two levels, built
by the operators of `MemDb` and `TableFormat` from one of the histories; how far
each write has got, and where level 1 was cut, are chosen at the start, as are the
blocks that cannot be read: data, index, filter, metaindex or footer. An iterator
is a record of the layered iterators, and First, Last, Seek, Next, Prev and Release
do what the code of each layer does. `view` is history: the newest visible
versions inside the range at the moment the iterator was made; `Cursor` is stated
over it. Reads are lenient or strict (`Strictness`; strict is what the server gets,
`opt/options.go:134`). For a lenient iterator `view` is made of what can be read, for a
strict one of everything: an unreadable block must end it before it shows a list with a
gap. The exception is in `Cursor` as `FailLate`: on its way back a strict iterator may show
one pair that is not of the list, since dbIter.prev drops the error when it has a value,
and the call after that fails.

Keys are up to two bytes, blocks some tens of bytes; the two offsets of a filter, the
restart points and the shortened index keys fall on every side of a boundary in the
layouts chosen.

### Journal, Wal, Snappy, JsonText, Formats

`Wal` (where a manifest record always has a journal and a sequence number)
writes batches or manifest records through the journal writer, with or
without Sync; a file may take only part of a write; a crash leaves any part of the
unsynced end, zeros for the rest or nothing; a cell may be damaged; then the
replay loop of recoverJournal or session.recover reads it. A header is two cells
instead of seven bytes and a block eight cells instead of 32768, so that every
position of a record over blocks occurs with three entries; a checksum is what it
was taken over. `Snappy` is byte for byte, with an abstract hash function and a
small hash table (any hash function gives a correct encoder), and 300 bytes for
the 65536 after which a new block begins. On amd64 the package's assembler takes
the place of the Go files modelled. `JsonText` is byte for byte but for the names
of fields, which are one symbol each. `Formats` puts the three side by side, as
they share no state.

## Runs

| run | instance | shows |
|---|---|---|
| `go_concurrent` | 2 requests, 2 refreshes, 1 project, all endpoints | type correctness, one open handle, records current when written back, confirmed projects intact, listings that name only what was there and, when Index stores them, all that is confirmed; the store as atomic as `ProjectStore` says |
| `go_liveness` | 2 requests, 2 refreshes, 1 project, Index, Add and Del | every request ends, the store is given back, a created project gets listed unless a refresh has ended the process |
| `java_concurrent` | 2 requests, 1 directory, 2 project ids, 3 user ids | type correctness, rows apart, confirmed directories closed |
| `java_sequential` | 1 request, 2 directories, 2 users, failures and restarts | rows have directories, confirmed texts stay, the purge reaches every file, every request ends |
| `java_purge_stops` | 1 request, 2 users, 2 projects | violated: a NULL column stops the purge |
| `leveldb_reads` | 2 keys, 2 writes, 2 reads or range compactions, memdbs of one entry | `KvStore` implemented for readers, levels sound, table files kept and removed as the versions ask |
| `leveldb_crash` | 2 keys, 2 writes, 2 stops, transactions, Recover, read-only open | `KvStore` implemented through crashes, acknowledged writes survive, every open succeeds, transactions read their own writes |
| `writers` | 3 callers, 1 failure | one writer, results match, no retry of a rotation, every call returns |
| `file_storage` | 2 processes, 3 manifests, 1 failure, 2 crashes | `CURRENT` atomic, locks exclusive |
| `cache` | 2 goroutines, 3 calls, 2 keys, up to 3 hash tables | handles live, one value per key, OnDel once, counts exact when quiet |
| `iterators` | 4 keys, 6 old writes and 1 new, 4 layouts, 3 ranges, unreadable blocks | lookups exact, `Cursor` implemented |
| `formats` | 3 entries, 1 damaged cell; some 70 blocks; all strings of up to two of 18 units | batches, manifests, blocks and records come back exactly |

`java_purge_stops` violates what a comment of the code says; `PROJECT.json` quotes
the lines. TLC's trace has two projects, the first added and never edited, the second
edited so that its `authz` grants something to a user: deleting that user stops at the
first one.

Bounds. For the servers the hazards are races of two requests over one project or
one login, so two requests and one name are where they all happen; a second name
or id is there where a property compares two. Two refreshes and two requests are
where a handler, a refresh and a third party contend for the store in any order. In
the Go runs a project has one possible text and one time, since no property tells two
texts apart; in `go_liveness` the endpoints left out are those that start no refresh
and touch no listing. `java_concurrent` has one id more than rows can exist for a login
or a directory. In `leveldb_reads` and `leveldb_crash` memdbs, tables and level 1
are full with one or two entries, so that two writes go through flush, level 0,
level 1 and a merge of both; two keys and a deletion are what a dropped or a
resurrected version needs, two stops a crash in the recovery from a crash.
`writers` has a leader, one that is merged or handed the lock, and a third party of
every other kind. `file_storage` has two processes because a third is like the
second to the lock. `cache` starts with one bucket that overflows with the second
node, so that it grows and shrinks under the callers. Histories and layouts of
`iterators` hold overwritten and deleted keys on both sides of every boundary
between memdbs, tables and blocks. The sizes of blocks in `formats` are those
around which the encoder changes its mind (17, 60 to 68, a new block); with blocks of 300
bytes no copy has an offset of 2048 or more, so that this branch of emitCopy is translated
and not exercised. `MaxNodes`,
`MaxHandles`, `MaxTables` and `MaxWrites` are not reached as limits on what happens but
bound what is stored: a node that is deleted and a handle that nobody has are used again.

Deadlock is checked in the Go and the sequential Java runs and in `formats`.
Elsewhere an instance really stops: `java_concurrent` because editUser may disable
the last active user, the others because calls are bounded or the database is
closed. Symmetry is used for safety only, among requests, refreshes, directories, processes
and goroutines.

Fairness. A goroutine or thread that can run is run (Go's scheduler, the operating
system), hence weak fairness for the steps of every handler and refresh, and in
`Writers` for every client, both compactions and the exit of compactionError; the
retries of a failing compaction are bounded by `MaxFails`, since a file that fails
for ever keeps its callers waiting for ever. A Go process that has ended is started
again only in behaviours that do so; clients owe nothing. For the Java server
liveness is checked one request at a time: threads share no lock, so that a second
request delays nobody.

## Proofs

`GoServerProofs` proves, for any number of requests, names, tokens and texts:

- `TypeCorrect`, `HandleExclusive`, `SnapshotsCurrent`, `ConfirmedStaysIntact`:
  the invariants of `go_concurrent`;
- `StoreImplemented`: GoServer implements ProjectStore;
- `ListingIsOfDirectories`: for names without a comma, the listing names only
  directories that are or were there;
- `IndexStoresConfirmed`: the listing that Index stores names every confirmed project
  (`IndexListsConfirmed`), whatever refreshes run beside it.

Assumptions: `VocabularyAssumption` and `ServerAssumption`, which only keep the
special values apart from names, tokens and requests. Argument: the type
invariant alone is not inductive, because a handler's locals have the right type
only at the places where they are used (`LocalsFit` says what holds where). On top
of it comes `OneOpenHandle` (who stands between GetDb and CloserDb is
the holder of the handle, hence alone), from which a record read there is still
current when written (`SnapshotCurrent`). Then every step is a step of
ProjectStore or leaves the store alone. `ConfirmedIntact` needs `AddProgress`: what
an Add that has created its directory has achieved at each of its later places.
`IndexListsConfirmed` rests on both: GetDirFilesName reads the directory with the store
open (`names_set` is a place of `Critical`), and an Add stores its record on its way to
the answer, for which it needs the store; so between scan and store nobody can get to
the place where it is confirmed that was not there, with its directory, before the scan
(`ScanCurrent`). A refresh scans before it opens the store, and for it the same is false.
All of these invariants were model-checked before.

`JavaServerProofs` proves, for any number of requests, sessions, users, projects
and directories:

- `TypeCorrect` and `RowsUnique`, whatever fails: the type invariant and
  `RowsApart` of `java_concurrent`;
- `ConfirmedStayClosed`: `ConfirmedClosed`, provided that files can be written
  (`"write" \notin Faults`). Deletions may still fail halfway, svnadmin may fail,
  and the process may stop anywhere;
- `RowsHaveDirs`, `EditsKept`, `PurgesReachAll`: `RowHasDir`, `EditKept` and
  `PurgeReachesAll` of `java_sequential`, provided `Orderly`: one request at a time, no
  page that is out of date, files that can be written.

Assumption: `JavaAssumption`, which keeps `None` apart from rows, names and ids
and says that the shipped user table is a table in which no login occurs twice.
Argument: `TypeInv` is `TypeOK` with `LocalsFit`, as above. `RowsApart` is inductive
on top of it, since an INSERT refuses a name that is taken at that very step; the
earlier checks of addProject and addUser play no part. `ConfirmedClosed` is not
inductive: an Add confirms what it wrote several steps before. `AddProgress` says
what is in place between the write of `svnserve.conf` and the INSERT, for an Add
whose directory nobody has deleted (`clean`). The one step that could undo it is
another Add's svnadmin, which refuses a directory that exists.

The `Orderly` theorems need their three hypotheses. With two requests an Add writes its
empty `authz` over an edited one, or inserts its row while a deletion removes the
directory; a page that is out of date (`shown`) deletes the row of one project and the
directory of another; and a write that fails makes no directory. Deletions and svnadmin
may fail here too, and the process may stop. `OrderlyInv` adds to the properties what the
one request has achieved at each of its places (`Achieved`): an Add past `svnserve.conf`
has a directory that nobody has edited since, an Edit past `authz` has its text there, a
deletion names the row and the directory of one project, and a purge has on its list, as
they are in the table, all projects that still grant anything to its login.

`FileStorageProofs` proves, for any number of processes, manifests, failures and crashes:

- `LocksExclusiveHolds`: `LocksExclusive`, without any hypothesis;
- `MetaAtomicHolds` and `MetaForwardHolds`: `MetaAtomic`, and that what is committed never
  goes back to an older manifest. Both hold until `spoilt`: an error of SetMeta has had
  one of the two consequences described under FileStorage above, which the code does not
  survive. Any other step may fail, and processes may die at every step.

Assumption: `FileStorageAssumption` keeps the special values apart. Argument: the lock
file is locked by who says that it has it (`LockInv`), hence there is one process that may
write, and its storage is the only one whose state the files follow. `FilesInv` is what
the files say whoever is there: `CURRENT`, once made, names a whole manifest, and any
pending `CURRENT.n` that could win over it is of a manifest that SetMeta was called with.
It holds up to `spoilt`, as does `SessionInv`; types and locks hold beyond.
`SessionInv` says of the one writer how far each of its calls has got, since MetaAtomic is
about what the *next* GetMeta would choose, and a writer that dies leaves any of these
states behind. `TypeInv` ties the counter of open files to Close.

`WritersProofs` proves, for any set of clients and calls and any limits:

- `OneWriterHolds`: `OneWriter`, provided that Close does not come during SetReadOnly or
  OpenTransaction (`"closeInCall" \notin Allow`, as in the run). `HolderHolds` is what
  remains without the proviso: who is in a part of a call that needs the write lock has
  it, or is a SetReadOnly that the end of the database has overtaken;
- `NoRetryHolds`: `NoRetry`; `NoPanicHolds`: the panic of rotateMem is never reached;
- `ResultsMatchHolds`: `ResultsMatch`, each write that was acknowledged is in the journal
  once, one that got an error once at most, one that found the database closed never, and
  those who were written together are told the same.

Assumption: `WritersAssumption`, which says of the limits what the options ensure. `WInv` has
eight parts. `ControlInv` says which waits (`aux`) a client may stand in at each place of
each call; `HolderInv` where the lock is, which passes from writer to writer without being
released and which compactionError may hold; `CloseInv` that nobody is in the two calls
above when the database is closed; `CommandInv` that whoever a compaction is going to
answer is still waiting for it or has given up; `FrozenInv` that a rotation answered by
the memdb compaction finds no frozen memdb; `GroupInv` that the merged writes are those
who wait for the leader, who has the lock; `JournalInv` what the journal holds of each
write, by the place of its writer or of the writer's leader and by the verdict of its
group (a failed group is there or not, and nobody can tell). None of these is inductive
without the others: that an answered write is in the journal rests on its leader, the
leader on the lock, the lock on which call gave it back.

`CacheProofs` proves, for any number of goroutines, keys, nodes, handles, tables and calls,
any capacity and any thresholds at which the hash table grows and shrinks:

- `HandleLiveHolds`: `HandleLive`, the value behind a handle is not released;
- `OnDelOnceHolds`: `OnDelOnce`, no OnDel function is lost or called twice.

Assumption: `CacheAssumption`, which keeps the special values apart and says what the
thresholds are. Argument: `HoldInv` has five parts. `TypeInv` has the shape of the chain of
tables and what each goroutine needs at its place. `RefInv` is the heart: the count of a node
is the number of handles that lead to it and of calls that hold a reference of their own
(`Referred`), and a call that will return a handle has none yet. So a node whose count is
zero is one that nobody has, but that alone is not enough to release its value: `DeadInv`
says that a node that is being deleted is in no bucket of any table, where a lookup could
count it again, and that two goroutines never delete the same one. It is kept because delete
looks at the count once more with the bucket locked, and needs that initBucket puts a node
nowhere it was not (`InitStep`). `LruInv` says that the list has a live handle for each node
whose CacheData is set, and that nobody is about to release that handle: what an entry leads
to may be gone, as after lru.Evict, but then no CacheData leads to the entry. `ValueInv` adds
to `HandleLive` that setFunc runs once, under the lock of the node. For `OnDelOnce` it remains
to see that Lookup, which takes a free node, overwrites no function. After Close by force the
values are gone while handles remain; `HandleLive` says so, and `OnDelOnce` holds
all the same.

`OrderlyInv`, `IInv` of `FileStorageProofs`, `WInv` and `HoldInv` were model-checked before, as
invariants of the instances of the runs.

Only model-checked: the properties of `LevelDb`, `DbIter`, `Wal` and `Formats`, `OneValue` and
`QuietExact` of `Cache`, and all liveness, which needs fairness and is out of the prover's reach. `MemDb`,
`TableFormat`, `DbIter`, `Journal`, `Wal`, `Snappy`, `JsonText` and `Formats` describe recursive
algorithms with RECURSIVE operators, and what those compute for every input is out of
reach too.
`OneValue` needs that a node of a frozen bucket is found in the table after it, which is a
statement about lengths and remainders; `QuietExact` needs, besides `RefInv`, that the counters
of nodes and of the list follow every step. Neither has been attempted.

## Seen while modelling

Properties that the models state and that do not hold, so that no passing run has
them:

- `EditSaved` (GoServer): SaveSvnConfig drops the errors of its writes and always
  returns true; Edit answers 200 for a project whose directory is gone.
- `ListingComplete` (GoServer), even for a client that waits for each answer: of two
  refreshes the one with the older scan may store last, and a confirmed project stays
  unlisted; or a refresh dies on the store that the next request has open and takes the
  process along. In the other direction, a Del whose GetDb meets a refresh dies after
  RemoveAll and leaves a removed name listed.
- `DelRemovesNamed` (JavaServer, `StalePages = TRUE`): the id of an old page belongs to
  another project by now, whose row is deleted.
- `PurgedGone` (JavaServer, 3 users): the purge of a second user starts from the
  column again and writes the first user back.
- `EditKept` (JavaServer) with two requests: an Add that passed its check before
  another one finished writes its empty `authz` over the edited one.
- `AckedSurvive` (LevelDb, `Allow = {"frozenTx"}`): OpenTransaction rotates the memdb only
  if it is not empty (`db_transaction.go:306`); over an empty one, with a frozen one
  not yet flushed, the transaction's tables come to lie below older entries that
  are flushed later.
- `AckedSurvive`, `OpenSucceeds` or `ImplementsKvStore` with the other members of `Allow`
  in LevelDb: a crash before the first `CURRENT` (`createCrash`), in Recover
  (`repairCrash`), Recover with leftover tables (`repairOrphans`), writes after a
  failed Sync of the journal (`failedSync`: the sequence number is used again), a
  discarded transaction whose tables are in the cache (`discardOpen`: their numbers
  are used again).
- `EveryCallReturns` (Writers) with `Allow = {"closeInCall"}` or `{"failInTx"}`: SetReadOnly and
  OpenTransaction return some errors with the write lock taken, and Close waits
  for it.
- `MetaAtomic` (FileStorage) without `~ spoilt`: a failed sync of the directory after
  `CURRENT` was replaced, or a manifest number used again after a failed SetMeta.
- `EveryCallReturns` (Cache, `FairSpec`, `Allow = {"closeWaits"}`): Get holds the read lock
  while a release below it takes it again; a waiting Close blocks the second.
- `ImplementsCursor` (DbIter, strict) without `FailLate`: prev drops the error of the
  iterator below it when it has a value already (`db_iter.go:248`), and Last or Prev shows
  an older version, or a deleted key, with Error() nil until the next call.
- `SkippedIsSkipped` (Wal): a manifest record that ends early is skipped after its
  first fields were taken over (`session.go:149`).

Without a property:

- Names with a comma: the Go server joins and splits its listing at commas and
  Add lets such names through; a project called `AllFiles` or `uuid` shares a key.
- `Shell.doShell` ignores the exit code of svnadmin, so the Java server confirms an
  Add that made no repository; an Add whose insert fails leaves a directory that
  no page shows and that blocks its name.
- The role in a session is that of the login; two administrators may delete and
  add users so that the id deleted belongs to another user; the last active
  administrator may disable himself.
- The search condition `creator = creator` in `SvnProjectMapper.xml` is always true.
- newManifest makes `CURRENT` name a manifest that was not synced
  (`session_util.go:244`); Transaction.Commit leaves compCommitLk taken after three
  failures; Close reads the open transaction without a lock.
- Index ignores the error of Unmarshal; bytes that are no UTF-8 come back as U+FFFD
  (`RecordsExact` says so by `Repaired`).

## Not modelled

The browser pages, paging, logging, the Maven wrapper, Crontab, `MD5Util`, the texts
of titles and remarks, the wording of answers; of goleveldb the statistics, the
options (constants here), the memory storage, the pools of buffers and memdbs, the
rebuilding of a damaged table in Recover, file locks of other systems; snappy's
stream format; of json-iterator all that a struct of strings does not use;
reflect2, concurrent and go.uuid. `PROJECT.json` lists each part with the reason.
What remains of the vendored code is data conversion, wiring and tables of cases
that the server never reaches.

## Plan

Done: the two servers with their checks and proofs; the storage engine with its two
refinements; proofs about its file storage, its goroutines and its cache. Next, in this order:

1. Proofs for `LevelDb`: `FilesExact` and `LevelsSound`, then `AckedSurvive`.
2. `AuthzText`: the lines of an `authz` text and what svnAuthPattern and
   getNonBlankStr do to them, for logins that end in one another.
3. `OneValue` and `QuietExact` of `Cache`, on top of `HoldInv`.

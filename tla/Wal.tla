-------------------------------- MODULE Wal ---------------------------------
(***************************************************************************)
(* The two logs goleveldb recovers from, in the format of Journal: the     *)
(* journal of write batches (batch.go, db_write.go, the replay loop of     *)
(* db.go) and the manifest of session records (session_record.go,          *)
(* session_util.go, the replay loop of session.go).                        *)
(*                                                                         *)
(* A behaviour writes entries to one log, with or without sync and with    *)
(* writes that fail, loses what was not synced in a crash, may have a cell *)
(* of the file damaged, and recovers.  The recovery is lenient, as the     *)
(* default options have it for both logs.                                  *)
(***************************************************************************)
EXTENDS Journal

CONSTANTS
    Kinds,         \* subset of {"journal", "manifest"}
    Batches,       \* batches, each a sequence of [type, key]
    Edits,         \* session records without their numbers: [added, deleted]
    MaxEntries,    \* bound on the entries of the log
    MaxDamage      \* bound on the damaged cells

ASSUME WalAssumption == Kinds \subseteq {"journal", "manifest"} /\ BlockLen > HeaderLen

VARIABLES
    kind,       \* which log this is
    log,        \* its writer with the file
    seq,        \* the sequence number of the database
    entries,    \* history: the entries written, with where their chunks lie
    synced,     \* how much of the file was synced
    phase,      \* "open", "down" or "recovered"
    disk,       \* the file that was left
    state       \* what recovery made of it

vars == <<kind, log, seq, entries, synced, phase, disk, state>>

keyTypeDel == 0
keyTypeVal == 1

-----------------------------------------------------------------------------
\* Batches.

\* Batch.appendRec: the type, the length of the key, the key, and for a put
\* the length of the value and the value, which is its sequence number.
encodeRec(op, n) ==
    <<Byte(op.type), Byte(Len(op.key))>> \o [k \in DOMAIN op.key |-> Byte(op.key[k])]
    \o (IF op.type = keyTypeVal THEN <<Byte(1), Byte(n)>> ELSE <<>>)

\* writeBatchesWithHeader
encodeBatch(b, n) ==
    <<Byte(n), Byte(Len(b))>>
    \o FlattenSeq([k \in DOMAIN b |-> encodeRec(b[k], n + k - 1)])

BatchHeaderLen == 2

\* decodeBatch from offset o, the records being numbered from n: those handed
\* on before the end or an error, and whether it ended well.
RECURSIVE decodeRecs(_, _, _)
decodeRecs(data, o, n) ==
    LET type == data[o + 1][2]
        klen == data[o + 2][2]
        vo   == o + 2 + klen
        end  == IF type = keyTypeVal THEN vo + 1 + data[vo + 1][2] ELSE vo
        rest == decodeRecs(data, end, n + 1)
        rec  == [key |-> [k \in 1 .. klen |-> data[o + 2 + k][2]], seq |-> n, type |-> type,
                 value |-> IF type = keyTypeVal THEN data[end][2] ELSE 0]
    IN  CASE o = Len(data) -> [recs |-> <<>>, ok |-> TRUE]
          [] /\ o + 2 <= Len(data)
             /\ type \in {keyTypeDel, keyTypeVal}
             /\ vo <= Len(data)
             /\ type = keyTypeVal => vo + 1 <= Len(data) /\ end <= Len(data)
             -> [rest EXCEPT !.recs = <<rec>> \o @]
          [] OTHER -> [recs |-> <<>>, ok |-> FALSE]

\* decodeBatchToMem with its caller: a batch numbered below the database is
\* refused; after an error the number stays, and so do the records put before.
decodeBatchToMem(data, st) ==
    LET n   == data[1][2]
        len == data[2][2]
        got == decodeRecs(data, BatchHeaderLen, n)
        put == SubSeq(got.recs, 1, Min({len, Len(got.recs)}))
    IN  IF Len(data) < BatchHeaderLen \/ n < st.seq THEN st
        ELSE [st EXCEPT !.mem = @ \cup ToSet(put),
                        !.seq = IF got.ok /\ Len(got.recs) = len THEN n + len ELSE @]

\* A mutated form of ReadToEnd: the end of the data is the end of the record.
ReadAnyhow(rec) == rec.end # "corrupted"

\* buf.ReadFrom without an error
ReadToEnd(rec) == rec.end = "eof"

\* The replay loop of recoverJournal: a record that cannot be read to its end
\* is left out.
RECURSIVE replayJournal(_, _, _)
replayBatch(file, rec, st) ==
    replayJournal(file, rec.r, IF ReadToEnd(rec) THEN decodeBatchToMem(rec.data, st) ELSE st)
replayFrom(file, start, st) ==
    IF start.res # "ok" THEN st
    ELSE replayBatch(file, readRecord(file, start.r, FALSE, <<>>), st)
replayJournal(file, r, st) == replayFrom(file, startRecord(file, r, FALSE), st)

-----------------------------------------------------------------------------
\* Session records: a tag and a number for each field.

recComparer == 1
recJournalNum == 2
recNextFileNum == 3
recSeqNum == 4
recDelTable == 6
recAddTable == 7

Field(tag, n) == <<Byte(tag), Byte(n)>>

\* sessionRecord.encode.  The first record of a manifest is a whole one.
encodeSession(e) ==
    (IF e.first THEN Field(recComparer, 0) ELSE <<>>)
    \o Field(recJournalNum, e.num) \o Field(recNextFileNum, e.num + 1) \o Field(recSeqNum, e.num)
    \o FlattenSeq([k \in DOMAIN e.deleted |-> Field(recDelTable, e.deleted[k])])
    \o FlattenSeq([k \in DOMAIN e.added |-> Field(recAddTable, e.added[k])])

\* resetAddedTables, resetDeletedTables
NoTables(rec) == [rec EXCEPT !.added = <<>>, !.deleted = <<>>]

\* The setters of sessionRecord
setField(rec, tag, n) ==
    CASE tag = recComparer    -> [rec EXCEPT !.has = @ \cup {tag}]
      [] tag = recJournalNum  -> [rec EXCEPT !.has = @ \cup {tag}, !.journalNum = n]
      [] tag = recNextFileNum -> [rec EXCEPT !.has = @ \cup {tag}, !.nextFileNum = n]
      [] tag = recSeqNum      -> [rec EXCEPT !.has = @ \cup {tag}, !.seqNum = n]
      [] tag = recDelTable    -> [rec EXCEPT !.deleted = Append(@, n)]
      [] tag = recAddTable    -> [rec EXCEPT !.added = Append(@, n)]

\* sessionRecord.decode of what can be read: the fields are set one by one.
RECURSIVE decodeSession(_, _, _)
decodeSession(data, o, rec) ==
    IF o + 2 > Len(data) THEN rec
    ELSE decodeSession(data, o + 2, setField(rec, data[o + 1][2], data[o + 2][2]))

\* versionStaging.commit for the tables of a record
commitTables(tables, rec) == (tables \ ToSet(rec.deleted)) \cup ToSet(rec.added)

\* The replay loop of session.recover.  The record is kept from one entry to
\* the next; after each only its tables are reset.
RECURSIVE replayManifest(_, _, _, _)
replayEdit(file, got, now, tables) ==
    replayManifest(file, got.r, NoTables(now),
                   IF got.end = "eof" THEN commitTables(tables, now) ELSE tables)
replayRecord(file, got, rec, tables) ==
    replayEdit(file, got, decodeSession(got.data, 0, rec), tables)
replayRecordFrom(file, start, rec, tables) ==
    IF start.res # "ok" THEN [rec |-> rec, tables |-> tables]
    ELSE replayRecord(file, readRecord(file, start.r, FALSE, <<>>), rec, tables)
replayManifest(file, r, rec, tables) ==
    replayRecordFrom(file, startRecord(file, r, FALSE), rec, tables)

NewRec == [has |-> {}, journalNum |-> 0, nextFileNum |-> 0, seqNum |-> 0,
           added |-> <<>>, deleted |-> <<>>]

-----------------------------------------------------------------------------
\* The log while the database is open.

\* The end of a machine: each write has room for all its cells unless it is
\* the one that fails.
Unlimited == 1000

Init ==
    /\ kind \in Kinds
    /\ log = NewLogWriter
    /\ seq = 0
    /\ entries = <<>>
    /\ synced = 0
    /\ phase = "open"
    /\ disk = <<>>
    /\ state = {}

\* writeJournal, or session.flushManifest: Next, the cells, Flush, with the
\* file failing after room cells.
Logged(cells, room) == flushLog(writeCells(nextRecord([log EXCEPT !.room = room]), cells))

\* Where the chunks of an entry lie, past the zeros that fill a block.
Placed(e, w) ==
    LET n == Len(log.file)
        j == n % BlockLen
    IN  e @@ [from |-> IF j + HeaderLen > BlockLen THEN n + BlockLen - j + 1 ELSE n + 1,
              to   |-> Len(w.file), ok |-> ~w.err]

\* An entry e with the given cells.  After a failed write the writer refuses
\* all others.
WriteEntry(e, cells, room, sync) ==
    /\ phase = "open"
    /\ Len(entries) < MaxEntries
    /\ ~log.err
    /\ \E w \in {Logged(cells, room)} :
           /\ room # Unlimited => w.err
           /\ log' = w
           /\ entries' = Append(entries, Placed(e, w))
           /\ synced' = IF sync /\ ~w.err THEN Len(w.file) ELSE synced
    /\ UNCHANGED <<kind, phase, disk, state>>

\* DB.writeLocked: the number of the database moves on only after success.
WriteBatch(b, room, sync) ==
    /\ kind = "journal"
    /\ WriteEntry([batch |-> b, num |-> seq + 1], encodeBatch(b, seq + 1), room, sync)
    /\ seq' = IF log'.err THEN seq ELSE seq + Len(b)

\* session.commit: newManifest writes the first record, flushManifest, which
\* also syncs, the others.
WriteEdit(d, room) ==
    LET e == [num |-> Len(entries) + 1, first |-> entries = <<>>,
              added |-> d.added, deleted |-> d.deleted]
    IN  /\ kind = "manifest"
        /\ WriteEntry(e, encodeSession(e), room, ~e.first)
        /\ UNCHANGED seq

\* The machine stops: of what was not synced any part is left, the rest is
\* missing or reads as zeros.
Crash(n, zeros) ==
    /\ phase = "open"
    /\ n \in synced .. Len(log.file)
    /\ phase' = "down"
    /\ disk' = SubSeq(log.file, 1, n) \o (IF zeros THEN Zeros(Len(log.file) - n) ELSE <<>>)
    /\ synced' = 0
    /\ UNCHANGED <<kind, log, seq, entries, state>>

DamagedCells == {d \in DOMAIN disk : disk[d] = Bad}

Damage(d) ==
    /\ phase = "down"
    /\ Cardinality(DamagedCells) < MaxDamage
    /\ d \in DOMAIN disk \ DamagedCells
    /\ disk' = [disk EXCEPT ![d] = Bad]
    /\ UNCHANGED <<kind, log, seq, entries, synced, phase, state>>

-----------------------------------------------------------------------------
\* DB.recoverJournal, or session.recover, which fails when a number is missing.
Recover ==
    /\ phase = "down"
    /\ phase' = "recovered"
    /\ state' = IF kind = "journal"
                THEN replayJournal(disk, NewLogReader, [mem |-> {}, seq |-> 0])
                ELSE replayManifest(disk, NewLogReader, NewRec, {})
    /\ UNCHANGED <<kind, log, seq, entries, synced, disk>>

Done == phase = "recovered" /\ UNCHANGED vars

Next ==
    \/ \E b \in Batches, sync \in BOOLEAN, room \in 0 .. 2 * BlockLen \cup {Unlimited} :
           WriteBatch(b, room, sync)
    \/ \E d \in Edits, room \in 0 .. 2 * BlockLen \cup {Unlimited} : WriteEdit(d, room)
    \/ \E n \in 0 .. Len(log.file), zeros \in BOOLEAN : Crash(n, zeros)
    \/ \E d \in DOMAIN disk : Damage(d)
    \/ Recover
    \/ Done

Spec == Init /\ [][Next]_vars

-----------------------------------------------------------------------------
\* What should be left of an entry, told from where its cells lie.

BlockOfCell(d) == (d - 1) \div BlockLen

BlocksOf(e) == {BlockOfCell(d) : d \in e.from .. e.to}

Lost(d) == \/ d > Len(disk)
           \/ disk[d] = Bad
           \/ disk[d] = Zero /\ log.file[d] # Zero

\* Every chunk of the entry lies before the first hurt cell of its block: the
\* reader gives up a block where it cannot go on.
Whole(e) ==
    /\ e.ok
    /\ \A d \in DOMAIN log.file :
           Lost(d) /\ BlockOfCell(d) \in BlocksOf(e) =>
               d > Max({c \in e.from .. e.to : BlockOfCell(c) = BlockOfCell(d)})

WholeEntries == SelectSeq(entries, Whole)

Recs(e) ==
    {[key   |-> e.batch[k].key, seq |-> e.num + k - 1, type |-> e.batch[k].type,
      value |-> IF e.batch[k].type = keyTypeVal THEN e.num + k - 1 ELSE 0] :
        k \in DOMAIN e.batch}

EndSeq(e) == e.num + Len(e.batch)

\* Replaying a journal brings back exactly the batches whose chunks are all
\* readable, each of them whole and with the sequence numbers it was written
\* under, and the number the database goes on from is past all of them:
\* whatever part of the unsynced end a crash took, wherever a byte went bad
\* and however a batch lies over the blocks (journal.Reader.nextChunk, the
\* loop of recoverJournal, decodeBatchToMem).
BatchesExact ==
    (phase = "recovered" /\ kind = "journal") =>
        /\ state.mem = UNION {Recs(e) : e \in ToSet(WholeEntries)}
        /\ state.seq = Max({0} \cup {EndSeq(e) : e \in ToSet(WholeEntries)})

Opened == state.rec.has = {recComparer, recJournalNum, recNextFileNum, recSeqNum}

\* A manifest that can be opened holds the tables of exactly the records that
\* can be read to their end, applied in order, and its next file number is
\* above every number those records gave out (session.recover).
ManifestExact ==
    (phase = "recovered" /\ kind = "manifest" /\ Opened) =>
        /\ state.tables = FoldLeft(commitTables, {}, WholeEntries)
        /\ \A e \in ToSet(WholeEntries) : state.rec.nextFileNum > e.num

\* A record the recovery skips leaves nothing behind: the numbers are those of
\* the last record that can be read ("manifest error: %v (skipped)",
\* session.recover).
SkippedIsSkipped ==
    (phase = "recovered" /\ kind = "manifest" /\ WholeEntries # <<>>) =>
        state.rec.journalNum = Last(WholeEntries).num

=============================================================================

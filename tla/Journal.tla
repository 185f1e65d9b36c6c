------------------------------ MODULE Journal -------------------------------
(***************************************************************************)
(* The log format of goleveldb, journal/journal.go: records cut into       *)
(* chunks over blocks of a fixed size, as operators on values.             *)
(*                                                                         *)
(* A file is a sequence of cells, one for each byte that matters: a byte   *)
(* of a record, a zero, or a damaged byte.  A header has two cells for its *)
(* seven bytes: the checksum, which stands for what it was taken over, and *)
(* the type with the length.  Indices into a block count from zero.        *)
(***************************************************************************)
EXTENDS Naturals, Sequences, SequencesExt, FiniteSetsExt

CONSTANT BlockLen    \* blockSize

HeaderLen == 2

fullChunkType == 1
firstChunkType == 2
middleChunkType == 3
lastChunkType == 4

Byte(n) == <<"byte", n>>
Zero == <<"zero">>
Bad == <<"bad">>

Zeros(n) == [k \in 1 .. n |-> Zero]

\* A chunk: its header and what it carries.
Chunk(type, payload) == <<<<"sum", type, payload>>, <<"tl", type, Len(payload)>>>> \o payload

-----------------------------------------------------------------------------
\* Writer.  buf is the block so far (its length is j), i where the current
\* chunk begins in it, written how much of it is in the file.  room is how
\* many cells the file still takes before a write to it fails.

NewLogWriter == [file |-> <<>>, buf |-> <<>>, i |-> 0, written |-> 0, first |-> FALSE,
                 pending |-> FALSE, err |-> FALSE, room |-> 0]

\* The underlying Write of cells.
Emit(w, cells) ==
    LET n == Min({w.room, Len(cells)})
    IN  [w EXCEPT !.file = @ \o SubSeq(cells, 1, n), !.room = @ - n,
                  !.err = n < Len(cells)]

Unwritten(w) == SubSeq(w.buf, w.written + 1, Len(w.buf))

\* Writer.fillHeader
fillHeader(w, last) ==
    LET type    == CASE last /\ w.first   -> fullChunkType
                     [] last /\ ~w.first  -> lastChunkType
                     [] ~last /\ w.first  -> firstChunkType
                     [] OTHER             -> middleChunkType
        payload == SubSeq(w.buf, w.i + HeaderLen + 1, Len(w.buf))
    IN  [w EXCEPT !.buf = SubSeq(@, 1, w.i) \o Chunk(type, payload)]

\* Writer.writeBlock, with room for the next header
writeLogBlock(w) ==
    [Emit(w, Unwritten(w)) EXCEPT !.buf = Zeros(HeaderLen), !.i = 0, !.written = 0]

\* Writer.Next: a block without room for a header is filled up.
nextRecord(w) ==
    LET p    == IF w.pending THEN fillHeader(w, TRUE) ELSE w
        j    == Len(p.buf)
        full == writeLogBlock([p EXCEPT !.buf = @ \o Zeros(BlockLen - j)])
        n    == IF j + HeaderLen > BlockLen THEN full
                ELSE [p EXCEPT !.i = j, !.buf = @ \o Zeros(HeaderLen)]
    IN  IF w.err \/ n.err THEN n ELSE [n EXCEPT !.first = TRUE, !.pending = TRUE]

\* singleWriter.Write
RECURSIVE writeCells(_, _)
writeCells(w, p) ==
    LET turned == IF Len(w.buf) = BlockLen
                  THEN [writeLogBlock(fillHeader(w, FALSE)) EXCEPT !.first = FALSE] ELSE w
        n      == Min({BlockLen - Len(turned.buf), Len(p)})
    IN  IF w.err \/ p = <<>> THEN w
        ELSE IF turned.err THEN turned
        ELSE writeCells([turned EXCEPT !.buf = @ \o SubSeq(p, 1, n)],
                        SubSeq(p, n + 1, Len(p)))

\* Writer.Flush with writePending
flushLog(w) ==
    LET p == IF w.pending THEN [fillHeader(w, TRUE) EXCEPT !.pending = FALSE] ELSE w
    IN  IF w.err THEN w
        ELSE [Emit(p, Unwritten(p)) EXCEPT !.written = Len(p.buf)]

-----------------------------------------------------------------------------
\* Reader.  base is the place of the current block in the file, n its length;
\* from i up to j is the unread rest of the current chunk.

NewLogReader == [base |-> 0, i |-> 0, j |-> 0, n |-> 0, last |-> TRUE, err |-> ""]

\* Reader.corrupt: what was found wrong is dropped; a strict reader ends.
corrupt(r, strict, skip) ==
    IF strict /\ ~skip THEN [r |-> [r EXCEPT !.err = "corrupted"], res |-> "corrupted"]
    ELSE [r |-> r, res |-> "skip"]

AtEOF(r, first, strict) ==
    IF first THEN [r |-> [r EXCEPT !.err = "eof"], res |-> "eof"]
    ELSE corrupt(r, strict, FALSE)

\* A mutated form of orphan: the rest of a record is taken for a record.
orphanTaken(first, type) == FALSE

\* A chunk that continues a record of which the reader has no beginning.
orphan(first, type) == first /\ type \notin {fullChunkType, firstChunkType}

\* Reader.nextChunk
RECURSIVE nextChunk(_, _, _, _)
nextChunk(file, r, first, strict) ==
    LET Cell(k) == file[r.base + k + 1]
        head    == Cell(r.j + 1)
        dropped == [r EXCEPT !.i = r.n, !.j = r.n]
        len     == head[3]
        from    == r.j + HeaderLen
        at      == [r EXCEPT !.i = from, !.j = from + len]
        base    == r.base + r.n
        payload == SubSeq(file, r.base + from + 1, r.base + from + len)
    IN  IF r.j + HeaderLen <= r.n
        THEN IF \/ head[1] # "tl"
                \/ from + len > r.n
                \/ Cell(r.j) # <<"sum", head[2], payload>>
             THEN corrupt(dropped, strict, FALSE)
             ELSE IF orphan(first, head[2])
             THEN corrupt([at EXCEPT !.i = at.j], strict, TRUE)
             ELSE [r |-> [at EXCEPT !.last = head[2] \in {fullChunkType, lastChunkType}],
                   res |-> "ok"]
        ELSE IF (r.n > 0 /\ r.n < BlockLen) \/ base = Len(file)
        THEN AtEOF(r, first, strict)
        ELSE nextChunk(file, [r EXCEPT !.i = 0, !.j = 0, !.base = base,
                                       !.n = Min({BlockLen, Len(file) - base})],
                       first, strict)

\* Reader.Next: the first chunk of the next record.
RECURSIVE startRecord(_, _, _)
startRecord(file, r, strict) ==
    LET c == nextChunk(file, r, TRUE, strict)
    IN  CASE r.err # ""     -> [r |-> r, res |-> r.err]
          [] r.err = "" /\ c.res = "skip" -> startRecord(file, c.r, strict)
          [] OTHER          -> c

\* What can be read of a record through singleReader, and how it ends: "eof"
\* for a whole record, else "unexpectedEOF" or "corrupted".
RECURSIVE readRecord(_, _, _, _)
readRecord(file, r, strict, data) ==
    LET got == data \o SubSeq(file, r.base + r.i + 1, r.base + r.j)
        c   == nextChunk(file, [r EXCEPT !.i = r.j], FALSE, strict)
    IN  CASE r.last -> [r |-> [r EXCEPT !.i = r.j], data |-> got, end |-> "eof"]
          [] ~r.last /\ c.res = "ok" -> readRecord(file, c.r, strict, got)
          [] ~r.last /\ c.res = "skip" -> [r |-> c.r, data |-> got, end |-> "unexpectedEOF"]
          [] OTHER -> [r |-> c.r, data |-> got, end |-> "corrupted"]

=============================================================================

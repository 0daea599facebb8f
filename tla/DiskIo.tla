------------------------------- MODULE DiskIo -------------------------------
(***************************************************************************)
(* The storage of one torrent: the DiskIo thread with its queues, its event *)
(* and its open files, and the side of CommandTask that feeds it: complete *)
(* pieces to write, the results of that, the state file, the set of wanted *)
(* files and the storage made for them.  UploadTask asks for blocks.       *)
(*                                                                         *)
(* A file is a row of cells, a cell holds the address in the torrent whose *)
(* datum was written there.  The wanted files have a directory; the others *)
(* are opened too where a wanted piece reaches into them.                  *)
(***************************************************************************)
EXTENDS FileLayout, StorageTree

CONSTANTS
    Layouts,        \* the torrents: sequences of file sizes
    Explored,       \* bound: those whose behaviours are followed
    OffsetMod,      \* 2^32, the width of the offset of a piece to verify
    MaxWrites,      \* bound: pieces written, again or for the first time
    MaxEvents       \* bound: blocks asked for, changes of the wanted files and
                    \* failing system calls

ASSUME LayoutAssumption ==
    /\ Layouts \subseteq Seq(Nat) /\ Explored \subseteq Layouts
    /\ \A files \in Layouts : TorrentSize(files) > 0
ASSUME ModAssumption == OffsetMod \in Nat /\ OffsetMod >= PieceSize
ASSUME BoundsAssumption == MaxWrites \in Nat /\ MaxEvents \in Nat

VARIABLES
    files,                          \* TorrentModel::fileList
    wanted, housed,                 \* unmaskedFiles; the files with a directory
    fetchable,                      \* pieces that were scheduled at some time
    disk, cache,                    \* contents; openFiles_
    writes, reads, verifies, saves, \* the queues, as the requesters fill them
    batch,                          \* what the thread stole from them
    loop, stop,                     \* where ioLoop is, stop_
    results, available, stateFile,  \* ioResults_, availablePieces_, the state file
    \* the last callback since the queues were stolen; bounds: pieces written, other events
    answer, written, events

torrentVars == <<files, wanted, housed, fetchable>>
queueVars   == <<writes, reads, verifies, saves>>
diskVars    == <<disk, cache>>
bundleVars  == <<results, available, stateFile>>
countVars   == <<written, events>>
vars == <<torrentVars, queueVars, diskVars, bundleVars, countVars, batch, loop, stop, answer>>

Zero == -1      \* what the system fills a file up with
Bad  == -2      \* data that a peer sent wrong

Pieces   == 0..PieceCount(files) - 1
AllBlocks(i) == ToSet(Blocks(files, i))
TorrentBlocks == UNION {AllBlocks(i) : i \in Pieces}
Lowest(m, n) == IF m <= n THEN m ELSE n

Wanted(unmasked) == {i \in Pieces : ResetScheduledPiecesMask(files, unmasked)[i] # "out"}

NoBatch == [writes |-> <<>>, reads |-> <<>>, verifies |-> <<>>, saves |-> <<>>]

\* After the first CommandTask::execute of a torrent without preallocation.  A
\* file that is not wanted may have a directory in common with one that is.
Init ==
    /\ files \in Layouts
    /\ wanted \in SUBSET DOMAIN files
    /\ housed \in {wanted, DOMAIN files}
    /\ fetchable = Wanted(wanted)
    /\ disk = [f \in DOMAIN files |-> <<>>] /\ cache = [f \in DOMAIN files |-> "closed"]
    /\ writes = <<>> /\ reads = <<>> /\ verifies = <<>> /\ saves = <<>>
    /\ batch = NoBatch /\ loop = "looping" /\ stop = FALSE
    /\ results = <<>> /\ available = {} /\ stateFile = {}
    /\ answer = [kind |-> "none"]
    /\ written = 0 /\ events = 0

Running == files \in Explored /\ loop # "crashed"

----------------------------------------------------------------------------
\* The requesters.  A signal is lost on a thread that does not wait; mutant:
\* it is kept.

SignalKept == loop' = IF loop = "waiting" THEN "looping" ELSE "signalled"
Signal == loop' = IF loop = "waiting" THEN "looping" ELSE loop

Mine(i) == {w \in ToSet(writes) \cup ToSet(batch.writes) : w.piece = i}
InFlight(i) ==
    \/ Mine(i) # {} \/ i \in ToSet(verifies) \cup ToSet(batch.verifies)
    \/ \E n \in DOMAIN results : results[n].piece = i

\* flushPendingPieces, for one of the complete pieces.
WriteBlocks(i, good) ==
    /\ Running /\ ~stop
    /\ i \in fetchable \ available /\ ~InFlight(i) /\ written < MaxWrites
    /\ writes' = Append(writes, [piece |-> i, good |-> good])
    /\ written' = written + 1
    /\ Signal
    /\ UNCHANGED <<torrentVars, reads, verifies, saves, diskVars, bundleVars, events, batch, stop, answer>>

\* UploadTask does not ask whether the piece is there.
ReadBlock(b) ==
    /\ Running /\ ~stop /\ events < MaxEvents
    /\ events' = events + 1
    /\ reads' = Append(reads, b)
    /\ Signal
    /\ UNCHANGED <<torrentVars, writes, verifies, saves, diskVars, bundleVars, written, batch, stop, answer>>

\* Mutant: a piece is available once it is written.
ProcessUnverified ==
    /\ Running /\ results # <<>>
    /\ available' = available \cup {results[n].piece : n \in DOMAIN results}
    /\ saves' = Append(saves, available')
    /\ results' = <<>>
    /\ Signal
    /\ UNCHANGED <<torrentVars, writes, reads, verifies, diskVars, stateFile, countVars, batch, stop, answer>>

\* processIoResults: a failed write stops the torrent from its own thread, which
\* joins itself: an exception that nobody catches.  A bad piece is fetched again.
ProcessIoResults ==
    LET unwritten == {n \in DOMAIN results : results[n].result = "unwritten"}
        good      == {results[n].piece : n \in {k \in DOMAIN results : results[k].result = "good"}}
    IN  /\ Running /\ results # <<>>
        /\ IF unwritten # {}
           THEN loop' = "crashed" /\ UNCHANGED <<available, saves, results>>
           ELSE /\ available' = available \cup good
                /\ saves' = IF good = {} THEN saves ELSE Append(saves, available')
                /\ results' = <<>>
                /\ IF good = {} THEN loop' = loop ELSE Signal
        /\ UNCHANGED <<torrentVars, writes, reads, verifies, diskVars, stateFile, countVars, batch, stop, answer>>

\* The user changes the wanted files; CommandTask marks the pieces and makes
\* the directories.
ChangeMask(unmasked) ==
    /\ Running /\ ~stop /\ events < MaxEvents
    /\ events' = events + 1
    /\ wanted' = unmasked
    /\ housed' = housed \cup unmasked
    /\ fetchable' = fetchable \cup Wanted(unmasked)
    /\ UNCHANGED <<files, queueVars, diskVars, bundleVars, written, batch, loop, stop, answer>>

\* ~DiskIo: only while no torrent was ever started.
Destroy ==
    /\ Running /\ ~stop /\ events = 0 /\ written = 0
    /\ stop' = TRUE
    /\ Signal
    /\ UNCHANGED <<torrentVars, queueVars, diskVars, bundleVars, countVars, batch, answer>>

----------------------------------------------------------------------------
\* Where a request goes: the cells in the order in which they are touched.

\* How much of a run is used, and its cells after the first done ones of the block.
Amount(run, left) ==
    Lowest(left, IF run.file \in DOMAIN files THEN files[run.file] - run.offset ELSE 1)
CellsOfRun(b, run, done) ==
    [k \in 1..Amount(run, b.size - done) |->
        [file |-> run.file, offset |-> run.offset + k - 1, address |-> b.where + done + k - 1]]
CellsOf(b, runs) ==
    LET cells[n \in 0..Len(runs)] ==
            IF n = 0 THEN <<>>
            ELSE cells[n - 1] \o CellsOfRun(b, runs[n], Len(cells[n - 1]))
    IN  cells[Len(runs)]

CellsOfBlocks(blocks) ==
    LET at == Locations(files, blocks)
        cells[n \in 0..Len(blocks)] ==
            IF n = 0 THEN <<>> ELSE cells[n - 1] \o CellsOf(blocks[n], at[n].runs)
    IN  cells[Len(blocks)]

\* The offset of the piece is computed in 32 bits.
VerifyOffset(i) == (i * PieceSize) % OffsetMod
VerifyCells(i) ==
    LET b == [where |-> VerifyOffset(i), size |-> SizeOfPiece(files, i)]
    IN  CellsOf(b, Locate(files, b.where, b.size, NoHint).runs)

\* A file that could not be opened stays so in openFiles_, as no file is ever
\* closed.
Openable(f) == cache[f] = "open" \/ (cache[f] = "closed" /\ f \in housed)

\* The file ends before the cell.
Short(c) == c.offset >= Len(disk[c.file])

\* The calls that come before the first one that cannot succeed; reading needs data.
Passable(cells, reading) ==
    LET stuck == {n \in DOMAIN cells : \/ cells[n].file \notin DOMAIN files
                                       \/ cells[n].offset < 0
                                       \/ ~Openable(cells[n].file)
                                       \/ reading /\ Short(cells[n])}
    IN  IF stuck = {} THEN Len(cells) ELSE Smallest(stuck) - 1

\* The files after done cells and the try of the next one.
Opened(cells, done, refused) ==
    [f \in DOMAIN files |->
        LET touched == \E n \in 1..Lowest(done + 1, Len(cells)) : cells[n].file = f
        IN  IF cache[f] # "closed" \/ ~touched THEN cache[f]
            ELSE IF refused = f \/ f \notin housed THEN "failed" ELSE "open"]

\* The first done cells are dealt with: all; all before one that cannot be; or
\* fewer, as a call fails (writes a part, or cannot open the file).
Deals(cells, reading, done) ==
    LET able == Passable(cells, reading)
        next == cells[done + 1].file
    IN  /\ done <= able
        /\ IF done < able
           THEN /\ events < MaxEvents
                /\ events' = events + 1
                /\ \E refused \in {0, next} : cache' = Opened(cells, done, refused)
           ELSE /\ cache' = Opened(cells, done, 0)
                /\ UNCHANGED events

\* There is no such file: the program reads past the end of the list.
Lost(cells, done) == done < Len(cells) /\ cells[done + 1].file \notin DOMAIN files

Written(cells, done, good) ==
    [f \in DOMAIN files |->
        LET mine == {n \in 1..done : cells[n].file = f}
            ends == {cells[n].offset + 1 : n \in mine} \cup {Len(disk[f])}
            size == CHOOSE e \in ends : \A other \in ends : other <= e
            Here(k) == {n \in mine : cells[n].offset = k - 1}
        IN  [k \in 1..size |->
                IF Here(k) # {} THEN IF good THEN cells[CHOOSE n \in Here(k) : TRUE].address ELSE Bad
                ELSE IF k <= Len(disk[f]) THEN disk[f][k] ELSE Zero]]

Content(cells) == [n \in DOMAIN cells |-> disk[cells[n].file][cells[n].offset + 1]]

----------------------------------------------------------------------------
\* The thread: writes, reads, verifications and then data, each request as a
\* whole.

Serving == Running /\ loop = "serving"

\* The next request of the batch.
Take ==
    /\ Serving /\ batch # NoBatch
    /\ batch' = IF batch.writes # <<>> THEN [batch EXCEPT !.writes = Tail(@)]
                ELSE IF batch.reads # <<>> THEN [batch EXCEPT !.reads = Tail(@)]
                ELSE IF batch.verifies # <<>> THEN [batch EXCEPT !.verifies = Tail(@)]
                ELSE [batch EXCEPT !.saves = Tail(@)]

Steal ==
    /\ Running /\ loop = "looping" /\ ~stop
    /\ batch' = [writes |-> writes, reads |-> reads, verifies |-> verifies, saves |-> saves]
    /\ writes' = <<>> /\ reads' = <<>> /\ verifies' = <<>> /\ saves' = <<>>
    /\ loop' = "serving" /\ answer' = [kind |-> "none"]
    /\ UNCHANGED <<torrentVars, diskVars, bundleVars, countVars, stop>>

\* satisfyRequest(WriteBlocksRequest) and its callbacks.
ServeWrite(done) ==
    /\ Take /\ batch.writes # <<>>
    /\ LET w       == Head(batch.writes)
           cells   == CellsOfBlocks(Blocks(files, w.piece))
           success == done = Len(cells)
       IN  /\ Deals(cells, FALSE, done)
           /\ disk' = Written(cells, done, w.good)
           /\ loop' = IF Lost(cells, done) THEN "crashed" ELSE loop
           /\ IF success
              THEN verifies' = Append(verifies, w.piece) /\ UNCHANGED results
              ELSE /\ results' = Append(results, [piece |-> w.piece, result |-> "unwritten"])
                   /\ UNCHANGED verifies
           /\ answer' = [kind |-> "write", piece |-> w.piece, good |-> w.good, success |-> success,
                         broken |-> done < Passable(cells, FALSE)]
    /\ UNCHANGED <<torrentVars, writes, reads, saves, available, stateFile, written, stop>>

\* satisfyRequest(ReadRequest); one block.
ServeRead(done) ==
    /\ Take /\ batch.writes = <<>> /\ batch.reads # <<>>
    /\ LET b       == Head(batch.reads)
           cells   == CellsOfBlocks(<<b>>)
           success == done = Len(cells)
       IN  /\ Deals(cells, TRUE, done)
           /\ answer' = [kind |-> "read", block |-> b, success |-> success,
                         broken |-> done < Passable(cells, TRUE),
                         data |-> IF success THEN Content(cells) ELSE <<>>]
    /\ UNCHANGED <<torrentVars, queueVars, disk, bundleVars, written, loop, stop>>

\* satisfyRequest(VerifyRequest): the hash is that of the piece.
ServeVerify(done) ==
    /\ Take /\ batch.writes = <<>> /\ batch.reads = <<>> /\ batch.verifies # <<>>
    /\ LET i     == Head(batch.verifies)
           cells == VerifyCells(i)
           good  == /\ done = Len(cells)
                    /\ Content(cells) = [n \in DOMAIN cells |-> i * PieceSize + n - 1]
       IN  /\ Deals(cells, TRUE, done)
           /\ results' = Append(results, [piece |-> i, result |-> IF good THEN "good" ELSE "bad"])
           /\ answer' = [kind |-> "verify", piece |-> i, success |-> good,
                         broken |-> done < Passable(cells, TRUE)]
    /\ UNCHANGED <<torrentVars, queueVars, disk, available, stateFile, written, loop, stop>>

\* Mutant: the states are taken from the back.
ServeDataBackwards(success) ==
    /\ Serving /\ batch.saves # <<>>
    /\ stateFile' = Last(batch.saves)
    /\ answer' = [kind |-> "save"]
    /\ batch' = [batch EXCEPT !.saves = Front(@)]
    /\ UNCHANGED <<torrentVars, queueVars, diskVars, results, available, countVars, loop, stop>>

\* satisfyRequest(WriteDataRequest): a failure leaves the old state, or the first
\* bytes of the new one before the rest of the old; it is only logged.
ServeData(success) ==
    /\ Take /\ batch.writes = <<>> /\ batch.reads = <<>> /\ batch.verifies = <<>>
    /\ batch.saves # <<>>
    /\ success \/ events < MaxEvents
    /\ events' = IF success THEN events ELSE events + 1
    /\ IF success THEN stateFile' = Head(batch.saves)
       ELSE \E n \in 0..PieceCount(files) :
                stateFile' = {i \in Head(batch.saves) : i < n} \cup {i \in stateFile : i >= n}
    /\ answer' = [kind |-> "save"]
    /\ UNCHANGED <<torrentVars, queueVars, disk, cache, results, available, written, loop, stop>>

\* The queues are tested without the lock, and waited for after that.
TestQueues ==
    /\ Serving /\ batch = NoBatch
    /\ loop' = IF writes = <<>> /\ reads = <<>> /\ verifies = <<>> /\ saves = <<>>
               THEN "tested" ELSE "looping"
    /\ UNCHANGED <<torrentVars, queueVars, diskVars, bundleVars, countVars, batch, stop, answer>>

Wait ==
    /\ Running /\ loop = "tested"
    /\ loop' = "waiting"
    /\ UNCHANGED <<torrentVars, queueVars, diskVars, bundleVars, countVars, batch, stop, answer>>

\* Mutant: wait() without a deadline.
WaitForEver == FALSE /\ UNCHANGED vars

\* Ten seconds.
TimeOut ==
    /\ Running /\ loop = "waiting"
    /\ loop' = "looping"
    /\ UNCHANGED <<torrentVars, queueVars, diskVars, bundleVars, countVars, batch, stop, answer>>

End ==
    /\ Running /\ loop = "looping" /\ stop
    /\ loop' = "ended"
    /\ UNCHANGED <<torrentVars, queueVars, diskVars, bundleVars, countVars, batch, stop, answer>>

Serve ==
    \/ \E done \in 0..PieceSize : ServeWrite(done) \/ ServeRead(done) \/ ServeVerify(done)
    \/ \E success \in BOOLEAN : ServeData(success)

Turn == Steal \/ TestQueues \/ Wait \/ TimeOut \/ End

Next ==
    \/ \E i \in Pieces, good \in BOOLEAN : WriteBlocks(i, good)
    \/ \E b \in TorrentBlocks : ReadBlock(b)
    \/ ProcessIoResults
    \/ \E unmasked \in SUBSET DOMAIN files : ChangeMask(unmasked)
    \/ Destroy
    \/ Serve
    \/ Turn

\* The thread keeps running: it deals with what it stole, one request after the
\* other, and then turns round.
Spec == Init /\ [][Next]_vars /\ WF_batch(Take) /\ WF_vars(Turn)

----------------------------------------------------------------------------
Request == [piece : Pieces, good : BOOLEAN]

\* Types, and the bounds of the model.
TypeOK ==
    /\ files \in Layouts /\ wanted \subseteq DOMAIN files /\ wanted \subseteq housed
    /\ housed \subseteq DOMAIN files /\ fetchable \subseteq Pieces
    /\ DOMAIN disk = DOMAIN files
    /\ \A f \in DOMAIN files : ToSet(disk[f]) \subseteq {Zero, Bad} \cup 0..TorrentSize(files) - 1
    /\ cache \in [DOMAIN files -> {"closed", "open", "failed"}]
    /\ \A q \in {writes, batch.writes} : q \in Seq(Request)
    /\ \A q \in {reads, batch.reads} : ToSet(q) \subseteq TorrentBlocks
    /\ \A q \in {verifies, batch.verifies} : q \in Seq(Pieces)
    /\ \A q \in {saves, batch.saves} : ToSet(q) \subseteq SUBSET Pieces
    /\ loop \in {"looping", "serving", "tested", "waiting", "ended", "crashed"}
    /\ stop \in BOOLEAN
    /\ \A n \in DOMAIN results :
         results[n].piece \in Pieces /\ results[n].result \in {"unwritten", "bad", "good"}
    /\ available \subseteq Pieces /\ stateFile \subseteq Pieces
    /\ written \in 0..MaxWrites
    /\ events \in 0..MaxEvents

\* What is where an address ought to be.
FileAt(address) == CHOOSE f \in FilesTouched(files, address, 1) : TRUE
Stored(address) ==
    LET f == FileAt(address)
        k == address - Starts(files)[f] + 1
    IN  IF k <= Len(disk[f]) THEN disk[f][k] ELSE Zero
OnDisk(i) == \A address \in PieceAddresses(files, i) : Stored(address) = address

\* What the thread tells is so: after a successful write each datum of the piece is
\* in its file at its place, over empty files and file ends and whatever the
\* hints were; a block that was read is what is stored at its addresses; a piece
\* that was verified is there; and nothing is ever put where it does not belong.
AnswersTrue ==
    /\ \A f \in DOMAIN files : \A k \in DOMAIN disk[f] :
         disk[f][k] \in {Zero, Bad, Starts(files)[f] + k - 1} /\ k <= files[f]
    /\ answer.kind = "write" /\ answer.success =>
         \A address \in PieceAddresses(files, answer.piece) :
            Stored(address) = IF answer.good THEN address ELSE Bad
    /\ answer.kind = "read" /\ answer.success =>
         answer.data = [n \in 1..answer.block.size |-> Stored(answer.block.where + n - 1)]
    /\ answer.kind = "verify" /\ answer.success => OnDisk(answer.piece)

\* The files a request needs; one of them could not be opened, perhaps long ago.
Refused(where, size) ==
    \E f \in FilesTouched(files, where, size) : cache[f] = "failed"
HalfWritten(where, size) ==
    \E f \in FilesTouched(files, where, size) :
        Starts(files)[f] + Len(disk[f]) < where + size /\ Len(disk[f]) < files[f]

\* A request fails for a reason: a failed call, a file without a directory, data
\* not written, a bad hash; or for one of the two faults of the code, a block that
\* spans files and ends with one (the next block is looked for in the wrong
\* file) and a piece beyond the 32 bits.
FailuresExplained ==
    answer.kind \in {"write", "read", "verify"} /\ ~answer.success /\ ~answer.broken =>
        LET where == IF answer.kind = "read" THEN answer.block.where ELSE answer.piece * PieceSize
            size  == IF answer.kind = "read" THEN answer.block.size
                     ELSE SizeOfPiece(files, answer.piece)
        IN  \/ Refused(where, size)
            \/ answer.kind = "write" /\ \E b \in AllBlocks(answer.piece) :
                    Overshoots(files, b) /\ b.where + b.size < where + size
            \/ answer.kind = "read" /\ HalfWritten(where, size)
            \/ answer.kind = "verify" /\ (~OnDisk(answer.piece) \/ where >= OffsetMod)

\* The thread tells the truth, and never fails without one of these reasons.
AnswersExplained == AnswersTrue /\ FailuresExplained

\* The pieces of the state file, and those that peers are told of, are on the
\* disk: across the queues of the thread, the results that CommandTask has not
\* yet seen, retries of bad pieces and failed writes.
StateFileTrue == \A i \in available \cup stateFile : OnDisk(i)

\* A later state file never forgets what an earlier one had.
StateFileGrows == [][stateFile \subseteq stateFile']_vars

\* A piece that a wanted file reaches into is fetched, unless some file begins and
\* ends within a piece; a piece more than that only begins with a file.
MaskCovers ==
    Coarse(files) =>
        /\ \A i \in Pieces : Wants(files, wanted, i) => i \in fetchable
        /\ events = 0 => \A i \in fetchable :
             Wants(files, wanted, i) \/ \E f \in DOMAIN files : Starts(files)[f] = i * PieceSize

\* The start of a torrent readies its storage: the wanted files and the pieces to fetch
\* for them.
StorageReady ==
    /\ written = 0 /\ events = 0 => FilesMade(wanted \cap DOMAIN SomeFiles)
    /\ MaskCovers

\* What was asked for is answered although signals get lost, and the thread ends
\* when it is told to.
Pending ==
    batch # NoBatch \/ writes # <<>> \/ reads # <<>> \/ verifies # <<>> \/ saves # <<>>
Served ==
    /\ (Running /\ Pending) ~> (~Pending \/ ~Running)
    /\ stop ~> (loop = "ended" \/ files \notin Explored)
=============================================================================

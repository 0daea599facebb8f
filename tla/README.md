# hypergrace in TLA+

hypergrace is a BitTorrent client in C++ (`src/libhypergrace`, with a Qt front
end in `src/gui-qt4`).  This directory holds its specifications: TLA+ modules,
the TLC configurations that check them on small instances, and proofs, checked
by TLAPS, that hold for every instance.

    tlc -workers 2 -config MCDownload.cfg MCDownload
    tlapm Download_proofs.tla
    tlc -workers 2 -config MCPeerSession.cfg MCPeerSession
    tlapm PeerSession_proofs.tla
    tlc -workers 2 -config MCUpload.cfg MCUpload
    tlapm Upload_proofs.tla
    tlapm UploadStream_proofs.tla
    tlc -workers 2 -config MCDiskIo.cfg MCDiskIo
    tlapm FileLayout_proofs.tla
    tlapm DiskIo_proofs.tla
    tlc -workers 2 -config MCNetwork.cfg MCNetwork
    tlapm Network_proofs.tla
    tlc -workers 2 -config MCLifecycle.cfg MCLifecycle
    tlapm Lifecycle_proofs.tla
    tlc -workers 2 -config MCBundles.cfg MCBundles

## The system

Every running torrent has one **reactor thread** (`net/reactor_linux.cc`).  It
executes the tasks of the torrent when their timers fire (CommandTask and
DownloadTask every second, AnnounceScheduler and ConnectionInitiator every ten,
ChokeTask every minute, UploadTask every 150 ms) and pulses its sockets every
100 ms; message handlers run inside a pulse.  One **DiskIo thread** serves all
torrents.  One **acceptor thread** receives connections.  The **GUI thread**
calls the registry and the setters of the configuration.

| Component | State | Operations | Talks to |
|---|---|---|---|
| DownloadTask | requested blocks per peer, involved peers per block, pending blocks, prioritized pieces, penalties | handlers for piece, choke, unchoke, have, bitfield; register, unregister; execute (snub, pump, distribute, feed, end game) | PieceAdvisor, BlockCache, TorrentState, sockets |
| PieceAdvisor | availability of pieces, dirty pieces, a cache of recommendations | reference, unreference, markDirty, markClean, recommend | TorrentState |
| BlockCache | blocks of pieces being fetched, counters | reserve, store, flushComplete | |
| CommandTask | results of the disk, waiting peers, flags for changed limits and masks | flush, process results, save state, register peers (every second); callbacks of the DiskIo thread, the acceptor and the GUI | all of the above, DiskIo, registry |
| TorrentState | available, scheduled pieces; its file | mark..., toString, fromString | |
| DiskIo | four queues, open files | write blocks, verify, read, write data | callbacks |
| PeerDataCollector, EventHub | choke and interest flags, bitfield, rating | one handler per message; construction and destruction register and unregister the peer | the four tasks below |
| InterestTask | wanted pieces per peer | have, bitfield, good piece | sockets |
| ChokeTask | number of unchoked peers | interested, not interested, unregister; full round | sockets |
| UploadTask | reads in progress, assembled and sent messages per peer | request, cancel, unregister; execute; callbacks of DiskIo and of the socket | DiskIo, sockets |
| Socket, Packet, BandwidthAllocator | packet queue, partly sent packet, tokens | send, read, write, close | middleware |
| MessageAssembler, message codecs | bytes of an unfinished message | receive, put together | middleware |
| Reactor | observed and waiting sockets, task deadlines | start, stop, observe, pulse, tasks | everything of a torrent |
| ConnectionInitiator, BootstrapConnection, HandshakeNegotiator | known peers with retries, attempts in progress | enqueue, connect, success, failure | Reactor, CommandTask |
| AcceptorService | torrents that accept connections | accept, reject, demultiplex | CommandTask |
| AnnounceScheduler, Tracker, HTTP client | status, counters and deadline of each tracker; bytes of an unfinished answer | announce, answer, error, timeout, stop | ConnectionInitiator |
| GlobalTorrentRegistry, TorrentConfiguration | the torrents, settings, locks | create, start, stop, delete; setters with signals | everything |
| Bencode, TorrentModel, bundle builders | a parsed text; the three files of a bundle | read, write, validate, build | DiskIo, registry, window |
| Window, preview dialog, file tree | builders in progress, posted events, ticks, rates of the last seconds | open, tick, accept, restore, show | registry, bundle builders |

What is hard in it:

* **Bookkeeping in several places.**  A block is in a peer's request list, in
  the list of peers involved with it, in the pending list of its piece, or in
  the cache; a piece is scheduled, dirty, cached, in flight to the disk or
  available.  Chokes, snubs, disconnections, late answers, duplicate requests
  of the end game and feeding inside a delivery change these in any order, and
  a dozen `assert`s (active in the default build, which sets no `NDEBUG`)
  depend on their agreement.
* **Two threads.**  Results of the disk arrive under a lock while pieces are
  being flushed; the configuration and the registry have locks of their own.
* **Crashes.**  Pieces are written and verified in place; the state file
  trails behind.
* **Timers.**  Snubs, penalties, retries and announces compete with answers.
* **Boundaries.**  Messages, blocks and texts are cut at any byte, and pieces,
  blocks and files overlap in any way; many numbers change width or sign
  between where they are read and where they are used.

`PROJECT.json` lists every hazard at its line with the properties that would
catch it.

## Modules

| Module | What it is |
|---|---|
| `PieceLife` | The promise: a piece is missing, being fetched or available; the state file never names a piece that is not available and never forgets one; a restart goes back to the file. |
| `Download` | The download path in full: DownloadTask, PieceAdvisor, BlockCache, the flushing, settling and saving of CommandTask, the part of DiskIo, TorrentState and PeerDataCollector they use, connections that come and go, crash and restart. |
| `DownloadRefinement` | The refinement mapping from `Download` to `PieceLife`: a piece is being fetched while the advisor holds it dirty. |
| `MCDownload` | Model values and symmetry for TLC. |
| `Download_proofs` | The inductive invariant of `Download`, the theorems that follow from it, and the refinement. |
| `PeerSession` | Interest and choking for all peers: InterestTask, ChokeTask, and what PeerDataCollector, PeerData and EventHub do for them. |
| `MCPeerSession` | Symmetry for TLC. |
| `PeerSession_proofs` | The inductive invariant of `PeerSession` and what a full choke round guarantees. |
| `PeerWire` | The bytes of a peer: handshake, messages, how they are found again, which of them reach a task.  `MCPeerSession` extends it. |
| `MessageStream` | The promise of a connection: whole messages, in order, none twice; what is lost is lost between messages. |
| `Upload` | The sending side: UploadTask, the reads it starts, the packet queue of a socket, the tokens. |
| `Upload_proofs` | The inductive invariant of `Upload`: lists, queue and counters agree. |
| `UploadStream` | `Upload` with the receiving end, and its refinement of `MessageStream`. |
| `UploadStream_proofs` | What the assembler makes of data cut anywhere, and the refinement of `MessageStream`. |
| `FileLayout` | Pieces, blocks and files: where a block is, which pieces the wanted files need. |
| `FileLayout_proofs` | What `describeLocation` computes for any files: the search ends, runs are where they belong. |
| `StorageTree` | Directories and files: `Util::FileSystem` and the storage that CommandTask makes. |
| `DiskIo` | The DiskIo thread: queues, event, open files, verification, the state file. |
| `DiskIo_proofs` | The inductive invariant of `DiskIo`: answers are true, the state file is true and grows. |
| `Announce` | Trackers and AnnounceScheduler. |
| `Swarm` | ConnectionInitiator, connections, handshakes, the acceptor, the registration of peers. |
| `Network` | `Announce` and `Swarm` on the reactor of one torrent that is stopped and started. |
| `Network_proofs` | The inductive invariant of `Network`: no answer and no address is forgotten, who a peer is. |
| `Clock` | `Util::Time` and when the event loop runs its tasks. |
| `Sockets` | The life of a descriptor between BootstrapConnection, Reactor, Socket and CommandTask. |
| `Lifecycle` | The registry, the reactors, the acceptor and the configuration as threads that take locks. |
| `Lifecycle_proofs` | The inductive invariant of `Lifecycle`: which locks a thread has where, who can wait for whom; what `Clock` counts and a turn of a loop does. |
| `Bencode` | The text of torrent files and bundles, read and written. |
| `Metadata` | TorrentModel and TorrentConfiguration, from and to texts; validation. |
| `FileTree` | The tree in which the user ticks files. |
| `Display` | The numbers that the window shows. |
| `TrackerWire` | What is said to and by a tracker: URI, request, response, intervals, progress. |
| `Bundles` | From a torrent file to a running torrent, its bundle on disk and back after a restart. |
| `MCUpload`, `MCDiskIo`, `MCNetwork`, `MCLifecycle`, `MCBundles` | Model values, layouts and texts for TLC. |

How they compose (arrows are EXTENDS; `PieceLife` and `MessageStream` are
reached by INSTANCE):

    DownloadRefinement -> Download              INSTANCE PieceLife
    UploadStream -> Upload                      INSTANCE MessageStream
    DiskIo -> FileLayout, StorageTree
    Network -> Announce, Swarm
    Lifecycle -> Clock, Sockets
    Bundles -> TrackerWire -> Metadata -> Bencode,  Bundles -> FileTree, Display
    MCPeerSession -> PeerSession, PeerWire
    X_proofs -> X,  DiskIo_proofs -> FileLayout_proofs,  UploadStream_proofs -> Upload_proofs

`Download` and `PeerSession` are two views of one torrent and share no
variables but the peers' bitfields and the schedule.  They meet in one place:
`Download` uses "the peer has a scheduled piece" for the flag `weAreInterested`
(`WeAreInterested`), and `InterestExact` of `PeerSession` shows that the counter
behind the flag says exactly that.

### `Download` and the code

| Variables | Code |
|---|---|
| `conn`, `has`, `fresh`, `chokedUs` | the peers of the PeerRegistry, `PeerData`: bitfield, `dropBitfield_`, `peerChokedUs_` |
| `ignored`, `expired`, `requests` | `DownloadTask::Private::DownloadState`: `ignorePeer`, whether `ignorePeerUntil` or `lastUploadActivity` + 60 s has passed, `requestedBlocks` |
| `downloading`, `pending`, `prioritized` | `downloadingBlocks_`, `pendingPieces_`, `prioritizedPieces_` |
| `references`, `dirty` | `PieceAdvisor` |
| `reserved`, `have`, `stored` | the entries of `BlockCache::cache_`, their `blocksHave` and `blocks` |
| `available`, `scheduled`, `snapshots`, `saved` | `TorrentState`, its serialized copies queued for the DiskIo thread, its file |
| `io`, `disk` | where a flushed piece is: queued for writing, for verification, or a result in `ioResults_`; what the files hold |
| `phase`, `todo`, `work`, `arriving`, `feeder`, `successes` | where the reactor thread is inside a handler or task |

Handlers of one step are one action.  A handler that loops with choices
(`notifyDownloadedBlock`, the stages of `DownloadTask::execute`, and
`CommandTask::execute`) is a sequence of actions, and `phase` keeps every other
handler of the reactor thread out until it is over; the DiskIo thread
interleaves with all of them, except that its callbacks wait while
CommandTask::execute holds `anchor_` (`AnchorFree`).

Choices that the code makes by sorting, shuffling or walking hash tables are
left open: which downloadable piece the advisor recommends, how the blocks of a
piece are spread over its holders (with the result of the rounds: either every
block is requested or every holder is full), which pieces a peer's
`requestCache` names, which blocks the end game picks.  Two facts of the code
are kept exact because properties depend on them: `feedUploader` does not test
chokes and penalties when it is called from a delivery, and the number of free
slots of a peer is computed in `size_t` and wraps (`FreeSlots`).

### `PeerSession` and the code

| Variables | Code |
|---|---|
| `conn`, `has`, `fresh` | as in `Download` |
| `interested`, `unchoked`, `weInterested` | the peers with `peerIsInterested`, without `weChokedPeer`, with `weAreInterested` in `PeerData`; the last two change as the message is sent (`PeerDataCollector::send`) |
| `wanted` | `InterestTask::InterestState::piecesWanted` |
| `unchokedCount` | `ChokeTask::unchokedPeerCount_` |
| `scheduled` | `TorrentState::scheduledPieces_` |
| `failed` | the task in which an assert failed; nothing happens after that |

Each message handler is one action that runs down the chain of middleware
(collector, hub, task); `LeaveSlot` is what `unregisterPeer` and
`notifyPeerBecameNotInterested` have in common.  Messages that repeat what is
known, and bitfields that come too late or have the wrong size, only count as
heard (`OtherMessage`).  Sorting by rating is left open, so the peers that get a
slot are arbitrary; the overwritten slot of the full round is exact.  (Both
rounds sort by `l.rating() < r.rating()`, lowest rating first, where the comment
speaks of the highest; with the order left open nothing here depends on it.)

### `PeerWire` and the code

No variables: messages, handshakes and the assembler are operators over
sequences of bytes.  `Serialize`, `Match` and `Absorb` are SimplePacket with its
matchers; `Receive` and `Assembled` are what `MessageAssembler::receive` dispatches
as the socket delivers its chunks; `Negotiate` and `Reconfigured` are
HandshakeNegotiator with the handshake in parts; `Collect` is the order in which
PeerDataCollector and EventHub look at a message before a task hears of it;
`Bits`, `Assign` and their relatives are Bitfield with its bytes and its
counter.  A byte has `ByteBits` bits and an integer `IntBytes` bytes, so that
lengths wrap where they do in the code.

### `Upload`, `UploadStream` and the code

| Variables | Code |
|---|---|
| `ioRequests`, `reads`, `assembled`, `sent` | `UploadTask::Private::UploadState`: the unlocked counter and the lists under `anchor_` |
| `callback`, `seenByDisk` | a callback of the DiskIo thread between the load and the store of the counter |
| `queue`, `pending`, `offset`, `closed` | `Socket`: `packetQueue_`, `pendingData_`, `pendingOffset_`, `closed_` |
| `made`, `discarded`, `deleted` | the packets that exist, `discard()`, destruction |
| `tokens`, `maxTokens` | the local BandwidthAllocator |
| `phase`, `asked`, `seen` | where the reactor is inside a pulse; a request between its test and its increment |
| `wire`, `buffer`, `got` | bytes between the two ends, `MessageAssembler::buffer_`, the messages dispatched |

The counter is read and written by two threads without a common lock, so the
load and the store are steps of their own on both sides, and `raced` remembers
that two updates overlapped.  A message is a row of parts, as long as the
properties need: a piece of two parts, a choke of one.  `Transmit` writes as
many parts as tokens and socket allow, including none and an error.  `Assemble`
takes the data part by part, as the loop of `MessageAssembler::receive` takes message by
message: a message leaves the buffer when its last part is there (`TakePart`).  To
`MessageStream` the messages on the way are those that the other end would find in
what was written, and behind them what the socket has not written whole (`OnTheWay`).

### `FileLayout`, `StorageTree`, `DiskIo` and the code

`FileLayout` has `describeLocation` with its hint and `resetScheduledPiecesMask`
twice: as the code computes them, and as they ought to be.  `StorageTree` has
`createPath`, `fileExists`, `createFile`, `preallocateFile` over a file system
that is a function from places to sizes.

| Variables of `DiskIo` | Code |
|---|---|
| `files`, `wanted`, `housed` | `TorrentModel::fileList`, the unmasked files, those whose directory exists |
| `fetchable` | every piece `resetScheduledPiecesMask` has scheduled so far |
| `disk`, `cache` | what the files hold, `openFiles_` (a failed open is remembered too) |
| `writes`, `reads`, `verifies`, `saves`, `batch` | the four queues and what `ioLoop` stole from them |
| `loop`, `stop` | where `ioLoop` is (testing the queues, waiting with or without a signal, ended), `stop_` |
| `results`, `available`, `stateFile` | `ioResults_`, `availablePieces_`, the state file |

The test of the queues and the wait are two steps, as the code makes the test
without the lock; a signal (`Signal`) is lost on a thread that does not wait, and
the wait ends by its timeout (`TimeOut`).

### `Announce`, `Swarm`, `Network` and the code

| Variables | Code |
|---|---|
| `status`, `due`, `aged`, `succeeded`, `frozen`, `response` | `Tracker`: `announceStatus_`, whether `suggestedAnnounceTime_` is reached, whether the announce is older than 30 s, counters, `lastResponse_` |
| `announcing`, `exchanges` | `announcingTrackers_`; connections to trackers, also those of announces that were given up |
| `book` | `ConnectionInitiator::knownPeers_` with state, retry count and retry time |
| `attempts`, `callers` | outgoing and incoming connections until their handshake is over |
| `buffer`, `discovered` | the state of the one HandshakeNegotiator that all incoming connections share |
| `waiting`, `peers` | `CommandTask::waitingPeers_`, the PeerRegistry |
| `running`, `stops`, `abort` | the reactor; stops of the torrent; how the program ended |

The reactor is one thread: an event of a socket, with everything the handlers do
in the same pulse, is one step.  `Stop` is the stop of the reactor with the
destruction of sockets and tasks.  What a tracker is asked and how the words of
its answer are read is `TrackerWire`.

### `Clock`, `Sockets`, `Lifecycle` and the code

`Clock` and `Sockets` have no variables.  `Clock` runs the event loop of the
reactor over a row of delays and compares every run of a task with its interval.
`Sockets` has the reactor as a record (observed, waiting, dead sockets, the
registrations of epoll) and an operator for each thing that is done to it;
`DescriptorsKept` follows all sequences of `Deeds` such things.

| Variables of `Lifecycle` | Code |
|---|---|
| `torrents`, `prepared` | `torrents_`; those whose tasks exist |
| `thread` | for the GUI, the acceptor and each torrent's reactor: what it does, for which torrent, at which lock or join |
| `registry`, `map`, `command`, `configuration` | owners of the four kinds of locks |
| `bailout`, `registered`, `listening`, `refused` | reactors told to stop; `torrentMap_`; the acceptor's socket, or that it could not bind |
| `changed`, `failed`, `ended` | flags the signals set; a WriteFailure in `ioResults_`; the end of the program |

A step is what a thread does between two places where it may have to wait: the
taking of a lock, the join of a reactor.

### `Bencode`, `Metadata`, `FileTree`, `Display`, `TrackerWire`, `Bundles` and the code

`Bencode` parses and writes texts of symbols as `Bencode::Reader`, its workers and
`SerializationVisitor` do; a word the program never takes apart is one symbol.
`Metadata` has `tryValidateMetadata`, the file list, RelinkAzureusKeys, the info
hash, and the settings with their text.  `FileTree` has TorrentFilesystemModel:
ticks that travel down to the files and up to the folders, and the running sum
of sizes.  `Display` has PrettyPrint, TorrentStateWidget and the labels of the
preview dialog, with the widths of their integers.  `TrackerWire` has URIs,
requests, the response assembler, compact and list forms of the peers, intervals
and progress counters.

| Variables of `Bundles` | Code |
|---|---|
| `present`, `disk`, `queue` | the bundles' folders and files; writes queued for the DiskIo thread |
| `builders`, `events`, `dialogs` | builder threads, `BuildCompleteEvent`s that were posted, open previews with their tree |
| `torrents`, `started`, `ended` | `torrents_`, those with a command task, the end of the program |
| `drawn` | random folder names, drawn in order |
| `source`, `chosen`, `ondisk`, `broken` | history: what the properties compare with |


### Faults

What goes wrong in the environment of `Download` is the constant `Faults`: `"crash"` (the
process dies in any state and starts again from the file; a write that was
interrupted leaves the piece damaged), `"write"`, `"read"` (operations of the
DiskIo thread fail) and `"data"` (peers send wrong bytes).  Peers connect,
choke, announce and disconnect at will in every run.

Elsewhere faults are steps.  `Upload`: a read fails, a write takes a part or
meets an error, the peer closes.  `DiskIo`: opening, reading, writing and
preallocating fail, data is bad.  `Network`: connections are refused, fail, end or
err at any moment, an answer comes after its announce was given up, the torrent is
stopped.  `Lifecycle`: a write fails, the port is taken.  `Bundles`: a write
leaves a part of its text, the program is restarted at any time.

## Runs

| Run | Question | Instance | Result |
|---|---|---|---|
| `download_safety` | Do the books agree in every interleaving? | 2 peers, 2 pieces of 2 and 1 blocks, no faults; queue limits 2, one prioritized slot; symmetric in the peers and in the blocks of a piece | holds, 712 thousand states |
| `download_refine` | Does the download keep the promise of `PieceLife`, and the data on disk with its record, across crashes and failures? | 1 peer, the same pieces, all four faults | holds, 202 thousand states |
| `download_live` | Does a torrent finish, whatever one peer does, and is it saved? | 2 peers, 2 pieces of 1 block, no faults, queue limit 1, one prioritized slot; one peer tells both pieces, the other at most one | holds, 114 thousand states |
| `download_queue_limit` | Is a full request queue left alone? | 2 peers, 1 piece of 3 blocks, queue limit 1 | violated, see below |
| `session` | Do the counters of interest and choking agree with the peers, and are their messages understood? | 4 peers, 2 pieces, 2 slots, symmetric; bytes of 4 bits, integers of 2 bytes, payloads up to 9 | holds, 22 thousand states |
| `session_slot_assert` | Do the asserts of ChokeTask hold? | 3 peers, 2 slots | violated, see below |
| `session_optimistic_slot` | Does every slot serve an interested peer while another waits? | 3 peers, 1 slot | violated, see below |
| `upload` | Does the peer get a stream of whole messages, and are limits kept? | 2 blocks, messages of 2 parts, 2 requests, limits of 0 and 2 parts a second, 3 packets, 2 parts in the socket; symmetric in the blocks | holds, 347 thousand states |
| `storage` | Does the DiskIo thread answer everything, and truly? | pieces of 4, blocks of 2; 5 layouts explored, all layouts of up to 3 files of sizes 0, 1, 2, 5 for marks and first states; 2 pieces written, 1 other event; offsets modulo 8 | holds, 115 thousand states |
| `network` | Do peers get from trackers and the acceptor into the swarm? | 1 tracker, 1 address (our own), 2 incoming connections, one of another torrent; 1 slot, 2 retries, 2 announces, 1 stop | holds, 570 thousand states |
| `lifecycle` | Who can wait for whom for ever? | 2 torrents, GUI, acceptor; 3 descriptors, 7 deeds; a clock of 4 ms a second and 2 ns a ms | holds, 92 thousand states |
| `bundles` | Is a torrent the same after everything that is done to its files? | 5 torrent files of one piece and two files, 2 folders, 4 clicks, 1 failure, 1 restart | holds, 130 thousand states |

### What each run checks

Each run has one type invariant; the others follow.

`download_safety`: request lists and involved peers are two views of one relation,
and a peer under penalty is left alone (`RequestsOwed`, that is `RequestsAgree`
and `IgnoredOwesNothing`); a block of a cached piece is pending, requested or
stored and never two of these, and the counter that completes a piece counts
what is there (`BlocksAccounted`: `BlocksConserved` and `BlocksCounted`); the
advisor holds exactly the pieces that are in the cache or on their way through
the disk (`DirtyExact`); an empty schedule leaves nothing behind
(`DrainedWhenDone`); complete pieces hold no prioritized slot
(`PrioritizedIncomplete`); availability is the number of holders
(`ReferencesExact`).

`download_refine`: what is or will be on record is good on disk
(`AvailableOnDisk`), and every step is one of `PieceLife` (`ImplementsPieceLife`).

`download_live`: `CompletesAndSaves`, which has three parts.  One peer that has everything,
does not choke us and answers is enough to finish the torrent (`Completes`).  A wanted
piece that such a peer has is begun, whatever becomes of the other piece: one that was
demoted, or is requested from a peer that does not send it, or has no holder left, does
not keep it out (`BegunWhenServed`).  What became available is saved (`EventuallySaved`).

`session`: the counter of wanted pieces is the number of scheduled pieces the
peer has, and we are interested exactly when it is positive (`InterestExact`,
with the asserts of InterestTask); a slot that a peer leaves is handed on in the
same step, so with a peer waiting the count is at the slots
(`NoCountedSlotIdle`); a full round ends with at most as many interested peers
unchoked as there are slots, however many came back while they were still
unchoked (`RoundRestoresSlots`).  `MessagesUnderstood` is about bytes and is
evaluated in the first state: messages that were cut anywhere come out once and
in order, a cut handshake is understood and a stranger's refused, the counter of
a bitfield counts its bits whatever spare bits it got, tasks hear of changes only.

`upload`: `QueuesAgree` (the comment at uploadtask.cc:206-207), `LimitsKept` (the
counter is exact and the limits hold as long as no two updates of the counter
overlapped; tokens are neither lost nor made), and the refinement of
`MessageStream` (`ImplementsStream`).

`storage`: an answer of the thread is true, and a failure has one of the reasons
that are named, the two known faults of the code among them (`AnswersExplained`:
`AnswersTrue` and `FailuresExplained`); the state file names only what is on the
disk (`StateFileTrue`) and never forgets (`StateFileGrows`); wanted files are
made and the pieces they need are marked (`StorageReady`: `FilesMade` and
`MaskCovers`); everything asked for is answered and the thread ends when it is
told to (`Served`).

`network`: an answer that came in time reaches the initiator, unless an announce that
was given up ends after it or a stop comes before the round that would hand it on;
nothing is "in process" or "connecting" without a connection, unless a stop deleted it
or it was lost between connect and handshake (`NothingForgotten`).  The history variables
`fresh`, `overtaken` and `interrupted` name the trackers to which each of this happened;
a new announce clears them.  No two attempts have one address and each has an entry that
is connecting, and registered and waiting peers have the id that the handlers read, those
of the acceptor the one in the shared buffer (`PeersKnown`: `EntriesHold` and
`IdentityRight`); no announce stays in process (`AnnounceEnds`).

`lifecycle`: the ways in which threads stop for ever (`StallsExplained`), every
other call of the user returns (`CallsReturn`), a registered torrent has an
acceptor that listens or could not bind (`StartedListens`), and tasks come when
they are due while descriptors have one owner each (`ReactorsWork`:
`ReactorsOnTime` and `SocketsRight`).

`bundles`: what a builder makes has the hash of the file, and what comes back is
what was last written (`BundlesTrue`); what was written completely is never lost
(`NothingLost`); the ticks are the files that are fetched, and numbers shown are
near the true ones (`ShownRight`: `SelectionTrue` and `NumbersRight`); a
text is read as it was written, also with an older one behind it (`TextsRead`);
requests and answers of trackers are understood wherever they are cut
(`AnnouncesUnderstood`).

Several of these properties name an exception ("unless ...").  Each is a fault
of the code that the run would report otherwise; they are listed under "What the
models say of the code".

**Deadlock** is checked in `download_safety`, `download_refine` and `download_live`.  The
other systems really may stop: `session` where an assert fails, `upload` when the
connection is closed and all packets were used, `storage` and `network` when the thread or
the program ended, `lifecycle` when threads wait for each other, which is its
question, `bundles` when the clicks are used up.

**Bounds.**  *Download*: two peers are the smallest number with which a block can
be requested twice, cancelled by one and kept by the other; two pieces, one of two
blocks, are needed for a piece that is completed while another is pending,
demoted or fed; limits of 1 and 2 in place of 5, 8 and 10 make queues, slots
and the end game reach their limits with three blocks.  Faults are checked with
one peer, in `download_refine`; two peers and faults together are left to the
proofs.  `download_live` has one more bound, the constraint `BitfieldsFirst`: a peer tells
what it has before anything else, and the second one never tells more than `i2`.  It cuts
off steps of the peers only, for which no fairness is assumed.  Two pieces of one block
show there what a piece of two blocks would, a block that one peer keeps back while
the other one is sent, and leave a piece that can be begun or not.
*Session*: four peers and two slots let both loops of a full round
have something to do and leave one peer for the displaced slot and one for the
optimistic choice.  The theorems below remove the bounds from these safety
properties.  *Upload*: three packets are a piece that is being written, one
behind it that is withdrawn, and a choke; a counter modulo 3 wraps below zero as
the 32 bits do; a limit of as many parts as a message has is used up within one
(`FollowRaces` is off: after an overlap no further request is made, as the
counter is then any number).  *Storage*: blocks are half a piece, so that a block
can begin and end anywhere in a piece; the explored layouts have a file that ends
in a block, an empty file, blocks that end with a file with another and a second
one behind it, and a torrent beyond the width of an offset (8 stands for 2^32).
*Network*: one address suffices for an entry that is erased, tried again and told
again, two callers for one buffer that is shared; one slot is a limit that is
reached.  *Lifecycle*: two torrents, so that one stops while another starts;
seven deeds are enough to open a socket, clone it, close it and use its number
again; the clock is scaled so that every carry of `Util::Time` happens.  *Bundles*:
opening a file counts as two clicks, so that with four a file is opened and
ticked, or two are opened; one failure and one restart come at any time.  Sizes,
widths of integers and texts are scaled in the same way: each limit is
reached by the inputs.

**Fairness.**  *Download* (`FairSpec`): the reactor finishes a handler or task it has begun
(weak fairness of `ReactorNext`): its loops are finite and it waits for nothing
but `anchor_`.  Its timers fire for ever (strong fairness of `BeginExecute` and
`FlushPendingPieces`: the thread is idle again and again, but not
continuously).  The DiskIo thread serves its queues (its callbacks are strongly
fair as they compete for `anchor_`).  Time passes (`Expire`).  A `feedUploader` that sends
nothing fills the request cache anew (downloadtask.cc:440-443) with pieces that nobody
has begun, so that a peer that has such a piece is not fed in vain for ever (strong
fairness of `FeedClean`).  Nothing is asked of the peers.  What a client cannot do
without is a premise of the properties, for one peer: `Completes` assumes a peer that
stays, has every wanted piece, does not choke us (`Serves`) and, as long as blocks are
requested from it again and again, sends one again and again (`Sends`).  The other may
choke, stall, leave and return as it likes, with blocks requested from it: the snub timer,
its disconnection or the end game must free them.  `BegunWhenServed` assumes as much for
a peer that has one wanted piece.  That this piece is *finished* does not follow from the
code: a pending block goes to the holders in the order of a list, so that a peer that chokes
and unchokes can take it each time, and only the end game, which begins when at
most ten scheduled pieces have not been taken up, asks the others too.  *DiskIo*: the thread keeps running (weak fairness of what it does with a
batch and of its turn; a wait ends by its timeout).  *Network*: the scheduler runs
every ten seconds and an announce ages (weak fairness of `Announcing` and `Age`);
nothing is assumed of trackers.  *Lifecycle*: a thread that can go on does, and one
that waits for a lock that is free again and again gets it (strong fairness of
the steps of each thread): those that take it again and again come from
loops that sleep most of the time.  `PeerSession`, `Upload` and `Bundles` claim
safety only and state no fairness.

**The violated runs.**  `download_queue_limit`: the end game lets a peer's queue grow to 11 requests
(`<= 10`, downloadtask.cc:489), one more than `sendBlockRequests` reckons with
(`10 - size`, downloadtask.cc:546, in `size_t`).  The difference wraps around,
the peer has 2^64 - 1 free slots, and `distributeRequests` hands it every
pending block of a piece, while its comment (downloadtask.cc:531-533) takes it
for granted that a full queue stops the rounds.  `QueueBounded` fails after an
end game round has filled a queue and a choke has returned blocks of the piece.
Nothing else breaks: the invariants above hold with the wrap-around, in the
runs and in the proofs.

`session_slot_assert`: a peer that loses interest is counted out of its slot
(choketask.cc:79) but stays unchoked, and a full round never looks at it again
because it copies interested peers only.  When it disconnects it is counted out
a second time; with nobody else counted the assert at choketask.cc:55 ends the
program.  Interested, not interested and disconnect are enough.  The count also
errs the other way: if such a peer becomes interested again it holds a slot
nobody counts.

`session_optimistic_slot`: with more interested peers than slots, the last slot
is overwritten by the optimistic choice (choketask.cc:115), which stays where it
was in the rest of the list as well.  The first loop unchokes it and the second
chokes it again; the peer that stood in the last slot is in the list no more and
keeps its state.  With one slot, all peers may end up choked while the count is
1, and no partial round helps until the next full one, which does the same.

## Proofs

`Download_proofs` proves, from the assumptions `SetAssumption` (finite sets, no
piece without a block), `LimitAssumption` (the order of the limits) and
`FaultAssumption`, for any number of peers, pieces and blocks and for every
combination of faults:

* `Inductive`: `Spec => []IInv`, and with it a theorem for each invariant of
  `download_safety` (`TypeCorrect`, `RequestsAgreeAlways`, `NoBlockLost`,
  `BlockCountRight`, `NoPieceTwice`, `NothingLeftBehind`, `SlotsNotClogged`,
  `AvailabilityRight`, `SnubbedIsLeftAlone`, `AvailableIsOnDisk`);
* `Refinement`: `Spec => ImplementsPieceLife`.

No invariant is inductive alone.  `RequestsAgree` needs to know which block is
in delivery and that nothing else happens meanwhile; `BlocksConserved` needs
`DirtyExact` (a piece that is taken up is not in the cache, so its blocks are
nowhere); `DirtyExact` needs that a flushed piece was not in flight already;
`AvailableOnDisk` needs `DrainedWhenDone` (a piece that is dirty is still
scheduled, so it is not available and writing it harms nothing on record); the
counts need `BlocksConserved` (a block that arrives was not stored before).
`IInv` is the conjunction of all of them with `Control`, which says what the
variables of the reactor thread hold in each phase.  The proof has one lemma
per conjunct with one case per action.  The refinement needs one more
invariant, proved on top of `IInv`: the queued state files grow from the one on
disk to the pieces that are available.

`PeerSession_proofs` proves, from `PeersAssumption` (finite sets) and
`SlotsAssumption` (at least one slot), for any number of peers, pieces and slots:

* `SessionTypes`, `InterestAlwaysExact` and `SlotsHandedOn`, the three invariants
  of `session`.  The inductive invariant adds to them `Absent`: a peer that is
  not connected has left no bitfield and no count behind, without which a peer
  that returns would start with a wrong counter.
* `FullRoundCutsDown`: `Spec => RoundRestoresSlots`.

The rounds choose sets of peers by their size, so the proofs rest on one lemma
about each of them (`RoundEffect`, `LeaveEffect`, `FullRoundEffect`), which say
what the count and the set of unchoked peers can be afterwards.

`Upload_proofs` proves, from the named assumptions of `Upload` (parts, requests,
limits, blocks, bounds), for any number of blocks, packets, parts and requests and
any rates:

* `ListsAndCountsAgree`: `Spec => []IInv`, and from it `TypesHold`,
  `QueuesStayAgreed` and `LimitsAreKept`, the three invariants of `upload`.

`QueuesAgree` says nothing of what kind of packet was assembled and not yet sent, or
that it was not discarded before it is; when it gets into the queue both matter.
`IInv` adds them (`Queues`); that the part of the packet under way that was written is
less than all of it (`Control`); that the counter, the copies that the two threads have
of it and the reads that are under way agree while no updates overlapped (`Counted`);
and that what is left and what was charged make up the limit (`Charged`).  The prover does not know
`SelectSeq`, so the order of `sent` is stated by `InOrderOf`, which holds of
two positions at a time.

`UploadStream_proofs` proves, from the same assumptions, for messages of any length, and
for data that is cut anywhere when it is written and when it is read:

* `StreamRunsUpload`: the connection with its other end takes steps of `Upload` only, so
  that `IInv` holds of it;
* `DataStaysFramed`: `StreamSpec => []SInv`;
* `ConnectionIsStream`: `StreamSpec => ImplementsStream`.

It begins with the assembler alone.  Cutting the data makes no difference
(`AssembleSplit`: what is found in two chunks is what is found in both together), a row of
parts completes its message with its last one (`AssembleLast`) and with none before
(`AssembleSome`), and packets that are made later change nothing in what is found
(`AssembleSame`).  The refinement alone would not be inductive: that a write of the rest
completes a message, and that message, is known only because what the peer is left with
is what was sent of the packet in `pendingData_` (`Framed`); and that a message does not
come twice, because those that arrived, are on their way and wait for their turn are
different ones (`Apart`).  Each action of `Upload` is then one step of the stream or none:
packets that get into the queue are sent, a packet that is dropped or a socket that
closes loses messages, a read lets what it completes arrive.  A discarded packet in
whose place the data of the packet before it goes out loses the one behind it, if there is
one: the message that is on its way stays the same (`WriteDiscardedFlows`).

`FileLayout_proofs` and `DiskIo_proofs` prove, from `SizeAssumption`,
`LayoutAssumption` (every torrent has a byte), `ModAssumption` (a piece fits into the
width of an offset) and `BoundsAssumption`, for any files and any sizes of pieces,
blocks and files, empty ones among them:

* `BinarySearchFinds`: the loop of `describeLocation` ends with the file that has the
  place.  It keeps `left = middle`, which may stand still when the range has one
  file; the proof shows that this file is then the one.
* `LocationsFacts`: the runs of a block follow each other, each at the place of its
  file where the torrent goes on, whatever hint the block before has left: a hint
  may be ahead by a file and the block be lost, but it is never stored in
  a wrong place (`HintTrue`: no file from the hint on ends before its place).
* `LocationsExact`: up to the first block that spans files and ends with one, and that
  block too, `describeLocation` finds every place (`HintExact`: the file of the hint
  does not begin after the place that the hint is for).  The hint that this block
  leaves is the only one that can be wrong.
* `BlocksCover`: the blocks of a piece have all its bytes.
* `DiskAndQueuesAgree`: `Spec => []IInv`, and from it `TypesHold`,
  `AnswersAreExplained`, `StateFileIsTrue` and `StateFileOnlyGrows`.

`IInv` of `DiskIo` has, beside types: what a file holds at a place is a zero, bad
data or what belongs there (`DiskTrue`), without which a good hash would not say that
the piece is where it is looked for; a piece is queued to be written once, and not
after its write (`Sole`), without which a late write could damage a piece that
was found good; a piece with a good result or a place among the available ones is on
the disk (`Kept`); the state file, the states that wait in the two queues and the
available pieces each have all of the one before (`Grown`), without which an old
state could be written over a new one; the last answer is so (`Told`), and if it is a
failure there is a reason for it (`Explained`).  That a
write leaves the other pieces as they are (`WriteKeeps`) rests on `PiecesApart`, and
that a write stores all of its piece (`WriteStores`) on `BlocksCover`.  Why a request
fails is told by the first cell that could not be dealt with (`StuckCell`): its file
cannot be opened, or ends before it, or, behind a block that overshoots and nowhere
else (`Reachable`, from `LocationsExact` and `BlocksInOrder`), there is no such place.

`Network_proofs` proves, from `AnnounceAssumption`, `SwarmAssumption` and
`NetworkAssumption`, for any number of trackers, addresses, incoming connections,
retries and stops:

* `TrackersAndPeersAgree`: `Spec => []IInv`, and from it `TypesHold`,
  `NothingIsForgotten` and `AttemptsAndIdentities`.

An answer is handed on because its tracker stays in `announcingTrackers_`; before
the answer comes, that is so because a tracker whose announce is in process is among
them (`InProcessAnnounced` in `AnnounceInv`).  `PeersKnown` needs to know where each
attempt and each caller stands: a peer that came to the acceptor has the one id that is read
in the shared buffer as long as that is never emptied.

`Lifecycle_proofs` proves, from `LifecycleAssumption` (the threads are different),
for any number of torrents:

* `ThreadsAndLocksAgree`: `Spec => []IInv`, and from it `TypesHold`,
  `AcceptorListens` and `StallsAreExplained`.

`IInv` says where each thread may be and for whom (`Control`), who owns each lock
then (`Locks`), that a reactor told to stop is still waited for (`Stopping`) and
that the acceptor runs while a torrent needs it (`Listening`).  `StallsAreExplained`
then looks at a group of threads that wait for each other: each of the places
where a thread can wait names the thread it waits for, and no others close
a circle.

The same module proves, from `ClockAssumption` (the units are positive and the pulse's
interval has fewer bits than a time), what `ReactorsOnTime` looks at in a few runs:

* `TimeIsANumber`: times add, subtract and compare like numbers of nanoseconds;
* `LoopsBegin` and `TurnsGoOn`: a loop begins with its deadlines ahead (`LoopRight`) and
  each turn leaves them so, executes exactly the tasks with less than a millisecond left,
  counts their deadlines from now on, and sleeps, past no deadline.

They hold of intervals from a millisecond on that a `size_t` of milliseconds counts
(`Usable`; those of the code are from 150 ms to a minute), of turns that
begin in any order of delay but not before the turn before them (the clock is monotonic),
and while the next deadlines are before the last time that there is (`ClockGoesOn`).
`LoopRight` is needed because the loop looks at the nearest deadline alone: that no other
task is due when that one is not follows only if it is really the nearest, and that the
milliseconds left do not wrap to 0 only if no deadline is further away than its
interval.  Not proved is the list of the tasks a turn ran (`ran`), which is a
`SelectSeq`: the theorem tells them by their deadlines.

**How.**  What recursive functions compute is proved without the induction theorems of
the library, which take an operator: the set of the numbers for which the claim
holds has 0 and with each number the next one, so it is `Nat` (`NatSetInduction`,
from `WFMin`, which is about sets), and a recursive definition that is a function
has its value by `RecursionExists`.  That is why `BinarySearch`, `Fill`, `Locations`
and the cells of a request are functions of one number, with a turn of each loop as an
operator of its own.  Functions of two arguments and strings with blanks are
beyond the prover; the models have neither where there are proofs.

Only model-checked, at the bounds of the runs:

* `CompletesAndSaves`, `Served`, `AnnounceEnds` and `CallsReturn` (liveness under
  fairness is beyond the prover), and the violations;
* `StorageReady` of `storage`, which needs what a fold over the files computes with
  quotients and remainders;
* `ReactorsWork` of `lifecycle` as it stands and `MessagesUnderstood` of `session`: they
  evaluate runs of the event loop, sequences of deeds and cuts of texts in the first state
  (what a turn of the loop does is proved, see `TurnsGoOn`);
* everything of `bundles`, which rests on folds and recursive operators over texts.

## What the models say of the code

The exceptions that properties name, and what else came to light while the code
was translated; the models do what the code does in each case.

*Download, interest.*  Both rounds of ChokeTask sort by `l.rating() < r.rating()`,
lowest rating first, where the comment speaks of the highest.

*Upload.*  A packet that is discarded after its data was serialized is sent all
the same, in the place of the next one (socket.cc:238-245).  `TcpSocket::send`
returns -1 even when part was sent.  The global allocators are never limited; a
packet released after a renewal returns tokens of the second before.
`read()` still happens after a write has closed the socket.

*Storage.*  A block that spans files and ends with one leaves a hint that names the
file after the next (diskio.cc:260).  The offset of the piece to verify has 32 bits
(diskio.cc:388).  A file that failed to open is remembered as failed for good, as
`closeOld` never closes anything.  The pieces to fetch are marked wrongly
when a file begins and ends inside one piece (commandtask.cc:227).  The result of
`updateUnmaskedFilesStorage` is ignored and its first failure leaves out the files
that follow; `createPath` begins at "/" also for a relative path; `preallocateFile`
leaks its descriptor, fails for a file of 0 bytes and leaves a longer file as it is.
A failed save is only logged.

*Network.*  `ConnectionInitiator::execute` goes on with an iterator to an entry
that a failure has just erased.  A write that meets an error which its event did
not announce is reported twice, and an assert fails.  All incoming connections
are known by the id of the first whole handshake in the shared buffer.  A
connection that ends between connect and handshake tells nobody, and its address
stays "connecting" for ever; so do those a stop deletes.  When an announce that was
given up ends late, it takes the next one's place.  A stop makes every tracker that has
answered fail (announcescheduler.cc:117, tracker.cc:96-107): an answer that came in the
last ten seconds is not handed on any more, and its peers are lost.  The connection of an
announce in process is deleted with the reactor's sockets without a word: after the next
start the tracker stays in process until the 30 s are over.  When the reactor's thread has
not yet begun to run, `initiate()` takes it for stopped, and the tracker waits for
20 minutes.

*Tracker words.*  `no_peer_id=1` is asked for, but the list form is refused without
a "peer id"; an answer that only says why it failed is "malformed"; a body longer
than Content-Length is complete only at the end of the connection.  An invalid
announce URI without a list ends the program; a list of URIs that cannot be used
leaves no tracker at all.  `reset()` adds an interval of seconds as milliseconds
(tracker.cc:122), and an interval above 2^31 wraps.  The port of an absolute URI
loses its colon; a query in the announce URI leads to a second "?".  `left` can
fall below zero and wrap.  `escape()` looks for the byte with `strchr("-._~", c) != 0`
(uri.cc:176), which also finds the zero byte that ends the text: a zero byte of the info
hash (some 8 % of all torrents have one) or of the peer id gets into the request line as
it is.

*Peer messages.*  A piece message without data and an empty bitfield close the
connection, and so does a bitfield longer than 32767 bytes.  A size field that is
too small reads beyond its message.  The length of the protocol's name is not
looked at.  The loop over messages goes on after a handler closed the socket.
`offset + size` of a request wraps, but a later test of the size catches it.

*Reactor and descriptors.*  Tasks run up to a millisecond early.  The result of
`observe()` is not looked at: a socket that comes after the stop is never deleted
and keeps its descriptor (the orphans of `Sockets`).  When epoll refuses a
waiting socket it is deleted without its error handler.  A clone that fails ends
the program (socket.cc:55).  Two threads read and write `observedSockets_` without
a common lock.

*Lifecycle.*  `deleteTorrent` locks a lock it has (globaltorrentregistry.cc:131).
The setters of a configuration and a command round take two locks in opposite
orders.  After a failed write a torrent stops itself: its thread joins itself,
which ends the program, or waits for locks whose owners wait for it.  After a
failed bind the acceptor's reactor keeps running without a socket
(net/acceptorservice.cc:116).  `uploadRateLimit` and `downloadRateLimit` of
the registry are exchanged (globaltorrentregistry.cc:274-282).  A signal tests the
pointer to a liveness flag in the place of the flag (signal.hh:97).

*Bundles.*  A torrent whose directory is empty is written and can never be read
again.  Keys `x.utf-8` and keys out of order change the info hash.  A torrent
without a creation date ends the program when it is previewed
(previewtorrentdialog.cc:189), one with an empty list of files as well.  A state
file that was cut short is read to its missing end.  Settings are saved only when a
torrent starts; one that was accepted without starting can neither be
started later nor is it saved.  A bundle that fails to build a torrent is leaked.
The number of hashes is not compared with the size of the torrent.

*Numbers shown.*  Sums of rates are ints, so that an average of 30 seconds above 71
MB/s wraps.  `total / size() >= 0` compares without a sign, so that the branch for
a stalled download is never taken.  Sizes wrap at 4 GiB; the overall size counts
the last piece as a whole one.  A size label may be a hundredth too high, and shows
x.99 GB as x.00; the label of the download size shows bytes as KB; a file that is
ticked twice is counted twice.

## What is not modelled, and why

* `Download` keeps `Wanted`, the pieces of the unmasked files, fixed for a life of
  the torrent; `DiskIo` changes the mask, but without requests.  CommandTask
  is prepared for another mask at any time; the only caller of
  `setUnmaskedFiles` (previewtorrentdialog.cc:275) runs before the start.
* The write of the state file is atomic in `Download` and `DiskIo`; one that is
  cut short is in `Bundles`.
* Bytes that a peer sent together with its handshake are processed inside
  `CommandTask::execute`; in `Download` they arrive right after it.
* `PeerSession` keeps the number of slots and the mask fixed and takes
  `uploadSlots > 0`; `InterestTask::reconsiderInterest` has no caller.  A bitfield of the wrong size
  closes the socket; the disconnection follows, but not at once, as in the code.
* How evenly requests are spread, rarest-first order and the age of the request
  cache: no property depends on them.
* The rating of peers is a confidence bound in floating point; its only use is an
  order, which `PeerSession` leaves open.
* The limit on what is received: it delays reads and changes nothing in what they
  give.  Transfer totals in the state file, and `verifiedPieces_`, which nothing reads.
* Delegates, `bind` and the call of a signal's slots are templates with one
  overload for each number of arguments: in the modules they are the call.  Debug
  output, SHA-1 and hash functions, and the sources that are not built (`net/poll.cc`,
  `net/epoll.cc`, `net/address.cc`).
* The DiskIo thread is started before the mutex declared behind it is built
  (diskio.cc:634-636); the modules begin when both are there.  The read of
  `connectionCount` without a lock, and `availableSlots`, which counts registered
  peers only, let in a few connections more than a limit that is soft.
* Icons, layout, sorting and translation of the window; host names are resolved as
  a part of opening a connection.

## Plan

Done, in the order of how much of the program's behaviour depends on each:

1. `Download` with `PieceLife` and their proofs.
2. `PeerSession` with its proofs.
3. `Upload` and `UploadStream` with `MessageStream`; `PeerWire`.
4. `FileLayout`, `StorageTree` and `DiskIo`.
5. `Announce`, `Swarm` and `Network`; `TrackerWire`.
6. `Clock`, `Sockets` and `Lifecycle`.
7. `Bencode`, `Metadata`, `FileTree`, `Display` and `Bundles`.

8. Proofs for `Lifecycle`, `Network`, `Upload`, `FileLayout`, `DiskIo` and `UploadStream`.

Left, in this order:

1. The ticks of `FileTree` and the settings of `Bundles`, as far as no text has to be
   parsed for them.
2. `PeerSession` with a number of slots that changes while the torrent runs.

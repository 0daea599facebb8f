------------------------------ MODULE Download ------------------------------
(***************************************************************************)
(* The download path of one torrent: DownloadTask with its PieceAdvisor    *)
(* and BlockCache, the part of CommandTask that flushes complete pieces    *)
(* and applies the results, the peer state that PeerDataCollector and      *)
(* EventHub feed it with, and the piece bitmaps of TorrentState with their *)
(* file.  Two threads act: the torrent's reactor thread runs every handler *)
(* and task, the DiskIo thread writes, verifies and calls back under the   *)
(* command task's mutex anchor_.                                           *)
(*                                                                         *)
(* A handler or task of the reactor thread that loops over peers or pieces *)
(* is a sequence of steps; `phase' says where the thread is, and no other  *)
(* handler starts before it is "idle" again.                               *)
(***************************************************************************)
EXTENDS Integers, Sequences, FiniteSets

CONSTANTS
    Peers, Pieces, Blocks,
    PieceOf,            \* the piece a block belongs to
    Wanted,             \* the pieces that the unmasked files need
    NoPeer, NoBlock,
    PrioritizedLimit,   \* 5: pumpInPrioritizedPieces
    QueueLimit,         \* 10: sendBlockRequests, doEndGameRound
    FeedLimit,          \* 8: feedUploader
    StarvingLimit,      \* 5: feedStarvingUploaders, notifyDownloadedBlock
    BusyLimit,          \* 5: doEndGameRound
    EndGameMargin,      \* 10: execute
    SizeModulus,        \* 2^64: the width of size_t
    Faults              \* what may go wrong in the environment

ASSUME SetAssumption ==
    /\ IsFiniteSet(Peers) /\ IsFiniteSet(Pieces) /\ IsFiniteSet(Blocks)
    /\ PieceOf \in [Blocks -> Pieces]
    /\ \A i \in Pieces : \E b \in Blocks : PieceOf[b] = i
    /\ Wanted \subseteq Pieces
    /\ NoPeer \notin Peers
    /\ NoBlock \notin Blocks

ASSUME LimitAssumption ==
    /\ PrioritizedLimit \in Nat \ {0}
    /\ QueueLimit \in Nat /\ FeedLimit \in 1..QueueLimit
    /\ StarvingLimit \in 1..FeedLimit
    /\ BusyLimit \in 0..QueueLimit
    /\ EndGameMargin \in Nat
    /\ SizeModulus \in Nat /\ SizeModulus > QueueLimit + Cardinality(Blocks)

\* "crash": the process dies and is restarted; "write": a write fails;
\* "read": a read back for verification fails; "data": a peer sends wrong bytes.
ASSUME FaultAssumption == Faults \subseteq {"crash", "write", "read", "data"}

VARIABLES
    \* PeerData, one per registered peer, and DownloadTask's DownloadState in it
    conn,           \* the registered peers
    has,            \* bitfield: the pieces the peer announced
    fresh,          \* ~dropBitfield_: the next message may still be a bitfield
    chokedUs,       \* peerChokedUs
    ignored,        \* ignorePeer
    expired,        \* lastUploadActivity + 60 s, or ignorePeerUntil, has passed
    requests,       \* requestedBlocks
    \* DownloadTask, PieceAdvisor
    downloading,    \* downloadingBlocks_: a block's involvedPeers, {} for no entry
    pending,        \* pendingPieces_
    prioritized,    \* prioritizedPieces_
    references,     \* how many peers have the piece
    dirty,          \* dirtyPieces_
    \* BlockCache
    reserved,       \* pieces with an entry in cache_
    have,           \* blocksHave of the entry
    stored,         \* blocks of the entry
    \* TorrentState and its file
    available, scheduled,
    snapshots,      \* state files queued for the DiskIo thread
    saved,          \* available pieces according to the file on disk
    \* DiskIo and the results it handed back
    io,             \* where a flushed piece is
    disk,           \* what the files hold for a piece
    \* the reactor thread
    phase, todo, work, arriving, feeder, successes

peerVars     == <<conn, has, fresh, chokedUs, ignored, expired>>
requestVars  == <<requests, downloading, pending>>
advisorVars  == <<prioritized, references, dirty>>
cacheVars    == <<reserved, have, stored>>
stateVars    == <<available, scheduled, snapshots, saved>>
ioVars       == <<io, disk>>
controlVars  == <<phase, todo, work, arriving, feeder, successes>>
vars == <<peerVars, requestVars, advisorVars, cacheVars, stateVars, ioVars, controlVars>>

CommandPhases  == {"results"}
DownloadPhases == {"maintain", "pump", "defer", "feed", "endgame"}
Phases == {"idle", "deliver", "halted"} \cup CommandPhases \cup DownloadPhases

InFlight == {"writing", "verifying"}
Results  == {"verified", "corrupt", "unwritten"}
IoStages == {"none"} \cup InFlight \cup Results

\* CommandTask::execute holds anchor_; the DiskIo thread takes it to hand back a result.
AnchorFree == phase \notin CommandPhases \cup {"halted"}

BlocksOf(i)  == {b \in Blocks : PieceOf[b] = i}
PendingOf(i) == pending \cap BlocksOf(i)

\* A piece of the cache whose last block has been stored.
Complete(i) == i \in reserved /\ have[i] = Cardinality(BlocksOf(i))

\* enumPieceHolders
Holders(i) == {p \in conn : ~chokedUs[p] /\ i \in has[p] /\ ~ignored[p]}

\* InterestTask keeps this flag up to date while the scheduled pieces are those
\* of one file mask.
WeAreInterested(p) == has[p] \cap scheduled # {}

\* Mutant: the advisor forgets the schedule.
DownloadableAnyway == {i \in Pieces \ dirty : references[i] > 0}

\* The pieces PieceAdvisor::recommend may return.
Downloadable == {i \in scheduled \ dirty : references[i] > 0}

\* size_t freeSlots = 10 - requestedBlocks.size()
FreeSlots(p) == (QueueLimit - Cardinality(requests[p])) % SizeModulus

Smaller(m, n) == IF m <= n THEN m ELSE n

EndGame == Cardinality(scheduled) <= Cardinality(reserved) + EndGameMargin

----------------------------------------------------------------------------

\* PeerData and DownloadState of a peer that is not registered
InitPeers ==
    /\ conn = {}
    /\ has = [p \in Peers |-> {}]
    /\ fresh = [p \in Peers |-> TRUE]
    /\ chokedUs = [p \in Peers |-> TRUE]
    /\ ignored = [p \in Peers |-> FALSE]
    /\ expired = [p \in Peers |-> FALSE]
    /\ requests = [p \in Peers |-> {}]

\* The constructors of DownloadTask, PieceAdvisor, BlockCache and TorrentState
InitTask ==
    /\ downloading = [b \in Blocks |-> {}]
    /\ pending = {}
    /\ prioritized = {}

InitAdvisor ==
    /\ references = [i \in Pieces |-> 0]
    /\ dirty = {}

InitCache ==
    /\ reserved = {}
    /\ have = [i \in Pieces |-> 0]
    /\ stored = {}

InitState ==
    /\ available = {}
    /\ scheduled = Wanted
    /\ snapshots = <<>>
    /\ saved = {}

Init ==
    /\ InitPeers /\ InitTask /\ InitAdvisor /\ InitCache /\ InitState
    /\ io = [i \in Pieces |-> "none"]
    /\ disk = [i \in Pieces |-> "empty"]
    /\ phase = "idle"
    /\ todo = {}
    /\ work = {}
    /\ arriving = NoBlock
    /\ feeder = NoPeer
    /\ successes = FALSE

----------------------------------------------------------------------------
\* Parts shared by several actions.

\* PieceAdvisor counts the peers that have a piece, one piece or a bitfield at a
\* time, and keeps the pieces it must not recommend.
Reference(i) == references' = [references EXCEPT ![i] = @ + 1]

ReferenceMask(S) ==
    references' = [i \in Pieces |-> IF i \in S THEN references[i] + 1 ELSE references[i]]

UnreferenceMask(S) ==
    references' = [i \in Pieces |-> IF i \in S THEN references[i] - 1 ELSE references[i]]

MarkDirty(i) == dirty' = dirty \cup {i}

MarkClean(i) == dirty' = dirty \ {i}

\* BlockCache: an entry for a piece, a block for its entry, and the entries of
\* the complete pieces taken out.
Reserve(i) ==
    /\ reserved' = reserved \cup {i}
    /\ have' = [have EXCEPT ![i] = 0]

Store(b) ==
    /\ stored' = stored \cup {b}
    /\ have' = [have EXCEPT ![PieceOf[b]] = @ + 1]

FlushComplete(flushed) ==
    /\ reserved' = reserved \ flushed
    /\ stored' = {b \in stored : PieceOf[b] \notin flushed}

\* An available piece is not scheduled any more.
MarkPieceAsAvailable(i) ==
    /\ available' = available \cup {i}
    /\ scheduled' = scheduled \ {i}

\* sendBlockRequest, for every block of S
SendRequests(p, S) ==
    /\ requests' = [requests EXCEPT ![p] = @ \cup S]
    /\ downloading' = [b \in Blocks |->
                         IF b \in S THEN downloading[b] \cup {p} ELSE downloading[b]]

\* Mutants: the block stays involved with the peer while others have it too; it
\* becomes pending although others have it; it is forgotten.
CancelDownloadKeepingPeer(p) ==
    /\ requests' = [requests EXCEPT ![p] = {}]
    /\ downloading' = [b \in Blocks |-> IF downloading[b] = {p} THEN {} ELSE downloading[b]]
    /\ pending' = pending \cup {b \in requests[p] : downloading[b] \subseteq {p}}

CancelDownloadAlways(p) ==
    /\ requests' = [requests EXCEPT ![p] = {}]
    /\ downloading' = [b \in Blocks |-> downloading[b] \ {p}]
    /\ pending' = pending \cup requests[p]

CancelDownloadForgetting(p) ==
    /\ requests' = [requests EXCEPT ![p] = {}]
    /\ downloading' = [b \in Blocks |-> downloading[b] \ {p}]
    /\ UNCHANGED pending

\* cancelDownload: a block nobody else was asked for becomes pending again.
CancelDownload(p) ==
    /\ requests' = [requests EXCEPT ![p] = {}]
    /\ downloading' = [b \in Blocks |->
                         IF b \in requests[p] THEN downloading[b] \ {p} ELSE downloading[b]]
    /\ pending' = pending \cup {b \in requests[p] : downloading[b] \subseteq {p}}

\* registerPeer for each of S, unregisterPeer.  InitPeers and Disconnect leave a
\* peer outside conn with the state that registerPeer gives it.
RegisterPeers(S) == conn' = conn \cup S

UnregisterPeer(p) == CancelDownload(p) /\ UnreferenceMask(has[p])

\* Mutant: the piece is not marked.
ReservePieceClean(i) == Reserve(i) /\ UNCHANGED dirty

\* enqueueNewPiece, all but its effect on the pending blocks
ReservePiece(i) == Reserve(i) /\ MarkDirty(i)

\* A message other than a bitfield makes a later bitfield void.
Heard(p) == fresh' = [fresh EXCEPT ![p] = FALSE]

----------------------------------------------------------------------------
\* Messages from a peer and the end of its connection, on the reactor thread.

\* A message that changes nothing here: a repeated choke or unchoke, a have for
\* a piece the peer announced before, a late or unsolicited block, an interested
\* message, a request.
OtherMessage(p) ==
    /\ phase = "idle" /\ p \in conn
    /\ fresh[p]
    /\ Heard(p)
    /\ UNCHANGED <<conn, has, chokedUs, ignored, expired, requestVars, advisorVars,
                   cacheVars, stateVars, ioVars, controlVars>>

\* Mutant: a bitfield is taken at any time.
ReceiveBitfieldAgain(p, S) ==
    /\ phase = "idle" /\ p \in conn
    /\ Heard(p)
    /\ has' = [has EXCEPT ![p] = S]
    /\ ReferenceMask(S)
    /\ UNCHANGED <<conn, chokedUs, ignored, expired, requestVars, prioritized, dirty,
                   cacheVars, stateVars, ioVars, controlVars>>

ReceiveBitfield(p, S) ==
    /\ phase = "idle" /\ p \in conn
    /\ fresh[p]
    /\ Heard(p)
    /\ has' = [has EXCEPT ![p] = S]
    /\ ReferenceMask(S)
    /\ UNCHANGED <<conn, chokedUs, ignored, expired, requestVars, prioritized, dirty,
                   cacheVars, stateVars, ioVars, controlVars>>

\* Mutant: the advisor is not told.
ReceiveHaveUncounted(p, i) ==
    /\ phase = "idle" /\ p \in conn
    /\ i \notin has[p]
    /\ Heard(p)
    /\ has' = [has EXCEPT ![p] = @ \cup {i}]
    /\ UNCHANGED <<conn, chokedUs, ignored, expired, requestVars, advisorVars, cacheVars,
                   stateVars, ioVars, controlVars>>

ReceiveHave(p, i) ==
    /\ phase = "idle" /\ p \in conn
    /\ i \notin has[p]
    /\ Heard(p)
    /\ has' = [has EXCEPT ![p] = @ \cup {i}]
    /\ Reference(i)
    /\ UNCHANGED <<conn, chokedUs, ignored, expired, requestVars, prioritized, dirty,
                   cacheVars, stateVars, ioVars, controlVars>>

ReceiveChoke(p) ==
    /\ phase = "idle" /\ p \in conn
    /\ ~chokedUs[p]
    /\ Heard(p)
    /\ chokedUs' = [chokedUs EXCEPT ![p] = TRUE]
    /\ CancelDownload(p)
    /\ UNCHANGED <<conn, has, ignored, expired, advisorVars, cacheVars, stateVars, ioVars,
                   controlVars>>

ReceiveUnchoke(p) ==
    /\ phase = "idle" /\ p \in conn
    /\ chokedUs[p]
    /\ Heard(p)
    /\ chokedUs' = [chokedUs EXCEPT ![p] = FALSE]
    /\ ignored' = [ignored EXCEPT ![p] = FALSE]
    /\ expired' = [expired EXCEPT ![p] = FALSE]
    /\ UNCHANGED <<conn, has, requestVars, advisorVars, cacheVars, stateVars, ioVars,
                   controlVars>>

\* The reactor drops the socket: EventHub's destructor unregisters the peer and
\* its PeerData goes away with the connection.
Disconnect(p) ==
    /\ phase = "idle" /\ p \in conn
    /\ conn' = conn \ {p}
    /\ UnregisterPeer(p)
    /\ has' = [has EXCEPT ![p] = {}]
    /\ fresh' = [fresh EXCEPT ![p] = TRUE]
    /\ chokedUs' = [chokedUs EXCEPT ![p] = TRUE]
    /\ ignored' = [ignored EXCEPT ![p] = FALSE]
    /\ expired' = [expired EXCEPT ![p] = FALSE]
    /\ UNCHANGED <<prioritized, dirty, cacheVars, stateVars, ioVars, controlVars>>

\* notifyDownloadedBlock for a block that is being downloaded, whoever sends it.
\* Everybody it was requested from is rid of the request; those left with few
\* requests are fed next.
ReceiveBlock(p, b) ==
    /\ phase = "idle" /\ p \in conn
    /\ downloading[b] # {}
    /\ Heard(p)
    /\ requests' = [q \in Peers |->
                      IF q \in downloading[b] THEN requests[q] \ {b} ELSE requests[q]]
    /\ expired' = [q \in Peers |-> IF q \in downloading[b] THEN FALSE ELSE expired[q]]
    /\ phase' = "deliver"
    /\ arriving' = b
    /\ todo' = {q \in downloading[b] : Cardinality(requests[q] \ {b}) < StarvingLimit}
    /\ UNCHANGED <<conn, has, chokedUs, ignored, downloading, pending, advisorVars, cacheVars,
                   stateVars, ioVars, work, feeder, successes>>

\* Mutant: a complete piece keeps its slot.
StoreBlockKeepingSlot ==
    /\ phase = "deliver" /\ todo = {} /\ feeder = NoPeer
    /\ downloading' = [downloading EXCEPT ![arriving] = {}]
    /\ Store(arriving)
    /\ arriving' = NoBlock
    /\ phase' = "idle"
    /\ UNCHANGED <<peerVars, requests, pending, advisorVars, reserved, stateVars, ioVars, todo,
                   work, feeder, successes>>

\* The second half of notifyDownloadedBlock: the block enters the cache.
StoreBlock ==
    /\ phase = "deliver" /\ todo = {} /\ feeder = NoPeer
    /\ LET i == PieceOf[arriving]
       IN /\ downloading' = [downloading EXCEPT ![arriving] = {}]
          /\ Store(arriving)
          /\ prioritized' = IF have[i] + 1 = Cardinality(BlocksOf(i))
                            THEN prioritized \ {i} ELSE prioritized
    /\ arriving' = NoBlock
    /\ phase' = "idle"
    /\ UNCHANGED <<peerVars, requests, pending, references, dirty, reserved, stateVars, ioVars,
                   todo, work, feeder, successes>>

\* Time goes by: a minute without a block from the peer, or the 20 s of its penalty.
Expire(p) ==
    /\ p \in conn
    /\ ~expired[p]
    /\ expired' = [expired EXCEPT ![p] = TRUE]
    /\ UNCHANGED <<conn, has, fresh, chokedUs, ignored, requestVars, advisorVars, cacheVars,
                   stateVars, ioVars, controlVars>>

----------------------------------------------------------------------------
\* DownloadTask::execute, once a second.

BeginExecute ==
    /\ phase = "idle"
    /\ scheduled # {}
    /\ phase' = "maintain"
    /\ todo' = conn
    /\ UNCHANGED <<peerVars, requestVars, advisorVars, cacheVars, stateVars, ioVars, work,
                   arriving, feeder, successes>>

\* maintainUploadersState: an expired penalty is forgiven, a peer that owes us
\* blocks for a minute loses its requests and is ignored.
Forgives(p) == ~chokedUs[p] /\ ignored[p] /\ expired[p]
Snubs(p)    == ~chokedUs[p] /\ ~ignored[p] /\ requests[p] # {} /\ expired[p]

MaintainForgive(p) ==
    /\ phase = "maintain" /\ p \in todo
    /\ Forgives(p)
    /\ todo' = todo \ {p}
    /\ ignored' = [ignored EXCEPT ![p] = FALSE]
    /\ expired' = [expired EXCEPT ![p] = FALSE]
    /\ UNCHANGED <<conn, has, fresh, chokedUs, requestVars, advisorVars, cacheVars, stateVars,
                   ioVars, phase, work, arriving, feeder, successes>>

MaintainSnub(p) ==
    /\ phase = "maintain" /\ p \in todo
    /\ Snubs(p)
    /\ todo' = todo \ {p}
    /\ CancelDownload(p)
    /\ ignored' = [ignored EXCEPT ![p] = TRUE]
    /\ expired' = [expired EXCEPT ![p] = FALSE]
    /\ UNCHANGED <<conn, has, fresh, chokedUs, advisorVars, cacheVars, stateVars, ioVars, phase,
                   work, arriving, feeder, successes>>

MaintainSkip(p) ==
    /\ phase = "maintain" /\ p \in todo
    /\ ~Forgives(p) /\ ~Snubs(p)
    /\ todo' = todo \ {p}
    /\ UNCHANGED <<peerVars, requestVars, advisorVars, cacheVars, stateVars, ioVars, phase, work,
                   arriving, feeder, successes>>

MaintainDone ==
    /\ phase = "maintain" /\ todo = {}
    /\ phase' = "pump"
    /\ UNCHANGED <<peerVars, requestVars, advisorVars, cacheVars, stateVars, ioVars, todo, work,
                   arriving, feeder, successes>>

\* pumpInPrioritizedPieces; which of the downloadable pieces the advisor
\* recommends (the rarest ten, shuffled) is left open.
PumpPiece(i) ==
    /\ phase = "pump"
    /\ Cardinality(prioritized) < PrioritizedLimit
    /\ i \in Downloadable
    /\ ReservePiece(i)
    /\ pending' = pending \cup BlocksOf(i)
    /\ prioritized' = prioritized \cup {i}
    /\ UNCHANGED <<peerVars, requests, downloading, references, stored, stateVars, ioVars,
                   controlVars>>

PumpDone ==
    /\ phase = "pump"
    /\ Cardinality(prioritized) >= PrioritizedLimit \/ Downloadable = {}
    /\ phase' = "defer"
    /\ work' = {i \in Pieces : PendingOf(i) # {}}
    /\ UNCHANGED <<peerVars, requestVars, advisorVars, cacheVars, stateVars, ioVars, todo,
                   arriving, feeder, successes>>

\* sendDeferredRequests visits the prioritized pieces before the others.
NextDeferred(i) ==
    /\ i \in work
    /\ work \cap prioritized = {} \/ i \in prioritized

\* distributeRequests: rounds over the holders until every pending block of the
\* piece is requested or no holder has a free slot; how the blocks are spread
\* over the holders is left open.
DeferSend(i, f) ==
    /\ phase = "defer" /\ NextDeferred(i)
    /\ Holders(i) # {}
    /\ f \in [PendingOf(i) -> Holders(i) \cup {NoPeer}]
    /\ LET given(p) == {b \in PendingOf(i) : f[b] = p}
       IN /\ \A p \in Holders(i) : Cardinality(given(p)) <= FreeSlots(p)
          /\ given(NoPeer) # {} =>
                \A p \in Holders(i) : Cardinality(given(p)) = FreeSlots(p)
          /\ requests' = [p \in Peers |-> requests[p] \cup given(p)]
          /\ downloading' = [b \in Blocks |->
                IF b \in PendingOf(i) /\ f[b] # NoPeer THEN downloading[b] \cup {f[b]}
                ELSE downloading[b]]
          /\ pending' = pending \ {b \in PendingOf(i) : f[b] # NoPeer}
    /\ work' = work \ {i}
    /\ UNCHANGED <<peerVars, advisorVars, cacheVars, stateVars, ioVars, phase, todo, arriving,
                   feeder, successes>>

\* A piece nobody can serve now gives up its prioritized slot.
DeferDemote(i) ==
    /\ phase = "defer" /\ NextDeferred(i)
    /\ Holders(i) = {}
    /\ prioritized' = prioritized \ {i}
    /\ work' = work \ {i}
    /\ UNCHANGED <<peerVars, requestVars, references, dirty, cacheVars, stateVars, ioVars, phase,
                   todo, arriving, feeder, successes>>

DeferDone ==
    /\ phase = "defer" /\ work = {}
    /\ phase' = "feed"
    /\ todo' = conn
    /\ UNCHANGED <<peerVars, requestVars, advisorVars, cacheVars, stateVars, ioVars, work,
                   arriving, feeder, successes>>

\* Mutant: the penalty does not count.
StarvingAnyway(p) ==
    /\ Cardinality(requests[p]) < StarvingLimit
    /\ ~chokedUs[p] /\ WeAreInterested(p)

\* feedStarvingUploaders tests every peer; notifyDownloadedBlock feeds the
\* peers it put aside without a further test.
Starving(p) ==
    /\ Cardinality(requests[p]) < StarvingLimit
    /\ ~chokedUs[p] /\ ~ignored[p] /\ WeAreInterested(p)

FeedBegin(p) ==
    /\ phase \in {"feed", "deliver"} /\ feeder = NoPeer /\ p \in todo
    /\ phase = "feed" => Starving(p)
    /\ feeder' = p
    /\ todo' = todo \ {p}
    /\ UNCHANGED <<peerVars, requestVars, advisorVars, cacheVars, stateVars, ioVars, phase, work,
                   arriving, successes>>

FeedSkip(p) ==
    /\ phase = "feed" /\ feeder = NoPeer /\ p \in todo
    /\ ~Starving(p)
    /\ todo' = todo \ {p}
    /\ UNCHANGED <<peerVars, requestVars, advisorVars, cacheVars, stateVars, ioVars, phase, work,
                   arriving, feeder, successes>>

\* Mutant: a stale entry of the request cache is not held against the schedule.
FeedCleanStale(i, S) ==
    /\ feeder # NoPeer
    /\ i \in has[feeder] \ dirty
    /\ Cardinality(requests[feeder]) < FeedLimit
    /\ S \subseteq BlocksOf(i)
    /\ Cardinality(S) = Smaller(FreeSlots(feeder), Cardinality(BlocksOf(i)))
    /\ ReservePiece(i)
    /\ SendRequests(feeder, S)
    /\ pending' = (pending \cup BlocksOf(i)) \ S
    /\ UNCHANGED <<peerVars, prioritized, references, stored, stateVars, ioVars, controlVars>>

\* Mutant: a piece is begun for a peer only while a prioritized slot is free.
FeedCleanFreeSlot(i, S) ==
    /\ feeder # NoPeer
    /\ i \in (has[feeder] \cap scheduled) \ dirty
    /\ Cardinality(requests[feeder]) < FeedLimit
    /\ Cardinality(prioritized) < PrioritizedLimit
    /\ S \subseteq BlocksOf(i)
    /\ Cardinality(S) = Smaller(FreeSlots(feeder), Cardinality(BlocksOf(i)))
    /\ ReservePiece(i)
    /\ SendRequests(feeder, S)
    /\ pending' = (pending \cup BlocksOf(i)) \ S
    /\ UNCHANGED <<peerVars, prioritized, references, stored, stateVars, ioVars, controlVars>>

\* feedUploader, one piece of the peer's request cache: any scheduled piece the
\* peer has may be in there (the cache is refilled at random and may be stale).
FeedClean(i, S) ==
    /\ feeder # NoPeer
    /\ i \in (has[feeder] \cap scheduled) \ dirty
    /\ Cardinality(requests[feeder]) < FeedLimit
    /\ S \subseteq BlocksOf(i)
    /\ Cardinality(S) = Smaller(FreeSlots(feeder), Cardinality(BlocksOf(i)))
    /\ ReservePiece(i)
    /\ SendRequests(feeder, S)
    /\ pending' = (pending \cup BlocksOf(i)) \ S
    /\ UNCHANGED <<peerVars, prioritized, references, stored, stateVars, ioVars, controlVars>>

FeedDirty(i, S) ==
    /\ feeder # NoPeer
    /\ i \in has[feeder] \cap scheduled \cap dirty
    /\ Cardinality(requests[feeder]) < FeedLimit
    /\ PendingOf(i) # {} /\ S \subseteq PendingOf(i)
    /\ Cardinality(S) = Smaller(FreeSlots(feeder), Cardinality(PendingOf(i)))
    /\ SendRequests(feeder, S)
    /\ pending' = pending \ S
    /\ UNCHANGED <<peerVars, advisorVars, cacheVars, stateVars, ioVars, controlVars>>

FeedEnd ==
    /\ feeder # NoPeer
    /\ feeder' = NoPeer
    /\ UNCHANGED <<peerVars, requestVars, advisorVars, cacheVars, stateVars, ioVars, phase, todo,
                   work, arriving, successes>>

\* Near the end every block in flight is requested from everybody who has it.
FeedDone ==
    /\ phase = "feed" /\ todo = {} /\ feeder = NoPeer
    /\ phase' = IF EndGame THEN "endgame" ELSE "idle"
    /\ todo' = IF EndGame THEN conn ELSE {}
    /\ UNCHANGED <<peerVars, requestVars, advisorVars, cacheVars, stateVars, ioVars, work,
                   arriving, feeder, successes>>

\* doEndGameRound for one peer, which may well have choked us.
EndGameFill(p, S) ==
    /\ phase = "endgame" /\ p \in todo
    /\ Cardinality(requests[p]) <= BusyLimit /\ ~ignored[p]
    /\ LET candidates == {b \in Blocks : /\ downloading[b] # {}
                                         /\ PieceOf[b] \in has[p]
                                         /\ b \notin requests[p]}
       IN /\ S \subseteq candidates
          /\ Cardinality(S) = Smaller(QueueLimit + 1 - Cardinality(requests[p]),
                                      Cardinality(candidates))
    /\ SendRequests(p, S)
    /\ todo' = todo \ {p}
    /\ UNCHANGED <<peerVars, pending, advisorVars, cacheVars, stateVars, ioVars, phase, work,
                   arriving, feeder, successes>>

EndGameSkip(p) ==
    /\ phase = "endgame" /\ p \in todo
    /\ Cardinality(requests[p]) > BusyLimit \/ ignored[p]
    /\ todo' = todo \ {p}
    /\ UNCHANGED <<peerVars, requestVars, advisorVars, cacheVars, stateVars, ioVars, phase, work,
                   arriving, feeder, successes>>

EndGameDone ==
    /\ phase = "endgame" /\ todo = {}
    /\ phase' = "idle"
    /\ UNCHANGED <<peerVars, requestVars, advisorVars, cacheVars, stateVars, ioVars, todo, work,
                   arriving, feeder, successes>>

----------------------------------------------------------------------------
\* CommandTask::execute, once a second, under anchor_: flush, apply results,
\* welcome the peers that completed the handshake.

FlushPendingPieces ==
    /\ phase = "idle"
    /\ LET flushed == {i \in reserved : Complete(i)}
       IN /\ FlushComplete(flushed)
          /\ io' = [i \in Pieces |-> IF i \in flushed THEN "writing" ELSE io[i]]
    /\ phase' = "results"
    /\ UNCHANGED <<peerVars, requestVars, advisorVars, have, stateVars, disk, todo, work,
                   arriving, feeder, successes>>

\* markPieceAsAvailable, then the good piece is announced.
SettleGood(i) ==
    /\ phase = "results" /\ io[i] = "verified"
    /\ io' = [io EXCEPT ![i] = "none"]
    /\ MarkPieceAsAvailable(i)
    /\ MarkClean(i)
    /\ successes' = TRUE
    /\ UNCHANGED <<peerVars, requestVars, prioritized, references, cacheVars, snapshots, saved,
                   disk, phase, todo, work, arriving, feeder>>

SettleBad(i) ==
    /\ phase = "results" /\ io[i] = "corrupt"
    /\ io' = [io EXCEPT ![i] = "none"]
    /\ MarkClean(i)
    /\ UNCHANGED <<peerVars, requestVars, prioritized, references, cacheVars, stateVars, disk,
                   controlVars>>

\* GlobalTorrentRegistry::stopTorrent, called on the very thread it waits for:
\* the reactor thread of the torrent does nothing any more.
SettleFailed(i) ==
    /\ phase = "results" /\ io[i] = "unwritten"
    /\ phase' = "halted"
    /\ UNCHANGED <<peerVars, requestVars, advisorVars, cacheVars, stateVars, ioVars, todo, work,
                   arriving, feeder, successes>>

\* The rest of CommandTask::execute: the state is serialized if a piece became
\* available, and the waiting peers are registered.
FinishCommand(joining) ==
    /\ phase = "results"
    /\ \A i \in Pieces : io[i] \notin Results
    /\ snapshots' = IF successes THEN Append(snapshots, available) ELSE snapshots
    /\ successes' = FALSE
    /\ RegisterPeers(joining)
    /\ phase' = "idle"
    /\ UNCHANGED <<has, fresh, chokedUs, ignored, expired, requestVars, advisorVars, cacheVars,
                   available, scheduled, saved, ioVars, todo, work, arriving, feeder>>

----------------------------------------------------------------------------
\* The DiskIo thread.

\* The blocks of the piece are written; what they contain is up to the peers.
WritePiece(i) ==
    /\ io[i] = "writing"
    /\ \E content \in IF "data" \in Faults THEN {"good", "bad"} ELSE {"good"} :
          disk' = [disk EXCEPT ![i] = content]
    /\ io' = [io EXCEPT ![i] = "verifying"]
    /\ UNCHANGED <<peerVars, requestVars, advisorVars, cacheVars, stateVars, controlVars>>

\* notifyWriteFailure; some blocks of the piece may have been written.
WriteFails(i) ==
    /\ "write" \in Faults
    /\ io[i] = "writing" /\ AnchorFree
    /\ io' = [io EXCEPT ![i] = "unwritten"]
    /\ \E content \in {disk[i], "bad"} : disk' = [disk EXCEPT ![i] = content]
    /\ UNCHANGED <<peerVars, requestVars, advisorVars, cacheVars, stateVars, controlVars>>

\* notifyVerifySuccess, notifyVerifyFailure
VerifyPiece(i) ==
    /\ io[i] = "verifying" /\ AnchorFree
    /\ \E readable \in IF "read" \in Faults THEN BOOLEAN ELSE {TRUE} :
          io' = [io EXCEPT ![i] = IF readable /\ disk[i] = "good" THEN "verified" ELSE "corrupt"]
    /\ UNCHANGED <<peerVars, requestVars, advisorVars, cacheVars, stateVars, disk, controlVars>>

\* Mutant: the newest state is written first.
SaveStateBackwards ==
    /\ snapshots # <<>>
    /\ saved' = snapshots[Len(snapshots)]
    /\ snapshots' = SubSeq(snapshots, 1, Len(snapshots) - 1)
    /\ UNCHANGED <<peerVars, requestVars, advisorVars, cacheVars, available, scheduled, ioVars,
                   controlVars>>

SaveState ==
    /\ snapshots # <<>>
    /\ saved' = Head(snapshots)
    /\ snapshots' = Tail(snapshots)
    /\ UNCHANGED <<peerVars, requestVars, advisorVars, cacheVars, available, scheduled, ioVars,
                   controlVars>>

----------------------------------------------------------------------------
\* The process dies at any point and is started again: TorrentState::fromString
\* reads the file back, a write it interrupted leaves the piece in pieces.
Restart ==
    /\ "crash" \in Faults
    /\ conn' = {}
    /\ has' = [p \in Peers |-> {}]
    /\ fresh' = [p \in Peers |-> TRUE]
    /\ chokedUs' = [p \in Peers |-> TRUE]
    /\ ignored' = [p \in Peers |-> FALSE]
    /\ expired' = [p \in Peers |-> FALSE]
    /\ requests' = [p \in Peers |-> {}]
    /\ downloading' = [b \in Blocks |-> {}]
    /\ pending' = {}
    /\ prioritized' = {}
    /\ references' = [i \in Pieces |-> 0]
    /\ dirty' = {}
    /\ reserved' = {}
    /\ have' = [i \in Pieces |-> 0]
    /\ stored' = {}
    /\ available' = saved
    /\ scheduled' = Wanted \ saved
    /\ snapshots' = <<>>
    /\ saved' = saved
    /\ io' = [i \in Pieces |-> "none"]
    /\ \E torn \in SUBSET {i \in Pieces : io[i] = "writing"} :
          disk' = [i \in Pieces |-> IF i \in torn THEN "bad" ELSE disk[i]]
    /\ phase' = "idle"
    /\ todo' = {}
    /\ work' = {}
    /\ arriving' = NoBlock
    /\ feeder' = NoPeer
    /\ successes' = FALSE

----------------------------------------------------------------------------

PeerNext(p) ==
    \/ OtherMessage(p)
    \/ \E S \in SUBSET Pieces : ReceiveBitfield(p, S)
    \/ \E i \in Pieces : ReceiveHave(p, i)
    \/ ReceiveChoke(p) \/ ReceiveUnchoke(p)
    \/ Disconnect(p)
    \/ \E b \in Blocks : ReceiveBlock(p, b)
    \/ Expire(p)

FeedNext ==
    \/ \E p \in Peers : FeedBegin(p) \/ FeedSkip(p)
    \/ \E i \in Pieces : \E S \in SUBSET BlocksOf(i) : FeedClean(i, S) \/ FeedDirty(i, S)
    \/ FeedEnd \/ FeedDone

ExecuteNext ==
    \/ BeginExecute
    \/ \E p \in Peers : MaintainForgive(p) \/ MaintainSnub(p) \/ MaintainSkip(p)
    \/ MaintainDone
    \/ \E i \in Pieces : PumpPiece(i)
    \/ PumpDone
    \/ \E i \in Pieces : \E f \in [PendingOf(i) -> Holders(i) \cup {NoPeer}] : DeferSend(i, f)
    \/ \E i \in Pieces : DeferDemote(i)
    \/ DeferDone
    \/ FeedNext
    \/ \E p \in Peers : (\E S \in SUBSET Blocks : EndGameFill(p, S)) \/ EndGameSkip(p)
    \/ EndGameDone

CommandNext ==
    \/ FlushPendingPieces
    \/ \E i \in Pieces : SettleGood(i) \/ SettleBad(i) \/ SettleFailed(i)
    \/ \E joining \in SUBSET (Peers \ conn) : FinishCommand(joining)

DiskNext ==
    \/ \E i \in Pieces : WritePiece(i) \/ WriteFails(i) \/ VerifyPiece(i)
    \/ SaveState

Next ==
    \/ \E p \in Peers : PeerNext(p)
    \/ StoreBlock
    \/ ExecuteNext
    \/ CommandNext
    \/ DiskNext
    \/ Restart

Spec == Init /\ [][Next]_vars

\* The reactor finishes what it began, and its timers fire again and again; time
\* passes; the DiskIo thread does its part.  A feedUploader that sends nothing fills
\* the request cache anew (440-443) with pieces that nobody has begun, so that a peer
\* that has such a piece is not fed in vain for ever.  Nothing is asked of the peers.
ReactorNext ==
    \/ StoreBlock
    \/ (ExecuteNext /\ phase # "idle")
    \/ (CommandNext /\ phase # "idle")

Fairness ==
    /\ WF_vars(ReactorNext)
    /\ SF_vars(BeginExecute)
    /\ SF_vars(FlushPendingPieces)
    /\ SF_vars(\E i \in Pieces : \E S \in SUBSET BlocksOf(i) : FeedClean(i, S))
    /\ \A i \in Pieces : WF_vars(WritePiece(i)) /\ SF_vars(VerifyPiece(i))
    /\ WF_vars(SaveState)
    /\ \A p \in Peers : WF_vars(Expire(p))

FairSpec == Spec /\ Fairness
----------------------------------------------------------------------------
\* Properties.

TypeOK ==
    /\ conn \subseteq Peers
    /\ has \in [Peers -> SUBSET Pieces]
    /\ fresh \in [Peers -> BOOLEAN]
    /\ chokedUs \in [Peers -> BOOLEAN]
    /\ ignored \in [Peers -> BOOLEAN]
    /\ expired \in [Peers -> BOOLEAN]
    /\ requests \in [Peers -> SUBSET Blocks]
    /\ downloading \in [Blocks -> SUBSET Peers]
    /\ pending \subseteq Blocks
    /\ prioritized \subseteq Pieces
    /\ references \in [Pieces -> Nat]
    /\ dirty \subseteq Pieces
    /\ reserved \subseteq Pieces
    /\ have \in [Pieces -> Nat]
    /\ stored \subseteq Blocks
    /\ available \subseteq Pieces
    /\ scheduled \subseteq Pieces
    /\ snapshots \in Seq(SUBSET Pieces)
    /\ saved \subseteq Pieces
    /\ io \in [Pieces -> IoStages]
    /\ disk \in [Pieces -> {"empty", "good", "bad"}]
    /\ phase \in Phases
    /\ todo \subseteq Peers
    /\ work \subseteq Pieces
    /\ arriving \in Blocks \cup {NoBlock}
    /\ feeder \in Peers \cup {NoPeer}
    /\ successes \in BOOLEAN

\* A peer's requestedBlocks and a block's involvedPeers are two views of one
\* relation, however chokes, snubs, disconnections, deliveries and end game
\* rounds interleave.  The asserts of cancelDownload (180, 185) and
\* notifyDownloadedBlock (640) rest on it.
RequestsAgree ==
    /\ \A p \in Peers, b \in Blocks :
          b \in requests[p] <=> (p \in downloading[b] /\ b # arriving)
    /\ \A b \in Blocks : downloading[b] \subseteq conn

\* Each block of a piece in the cache is in exactly one place: waiting to be
\* requested, requested, or stored; blocks of other pieces are in none.  No
\* block is lost by a cancelled download, requested after it was stored, or
\* stored twice (the asserts of BlockCache::store).
BlocksConserved ==
    \A b \in Blocks :
        LET waiting   == b \in pending
            requested == downloading[b] # {}
            kept      == b \in stored
        IN IF PieceOf[b] \in reserved
           THEN \/ waiting /\ ~requested /\ ~kept
                \/ ~waiting /\ requested /\ ~kept
                \/ ~waiting /\ ~requested /\ kept
           ELSE ~waiting /\ ~requested /\ ~kept

\* The counter that decides when a piece is complete counts the blocks that are
\* really there: a piece is never flushed with a block missing.
BlocksCounted ==
    \A i \in reserved : have[i] = Cardinality(stored \cap BlocksOf(i))

\* Both: a piece is complete exactly when each of its blocks was stored once.
BlocksAccounted == BlocksConserved /\ BlocksCounted

\* The advisor withholds exactly the pieces that are in the cache or on their
\* way through the DiskIo thread, and no piece is in both: a piece is never
\* reserved twice (the asserts of reserve and enqueueNewPiece) and never
\* flushed while an older copy is being written or verified.
DirtyExact ==
    /\ dirty = reserved \cup {i \in Pieces : io[i] # "none"}
    /\ \A i \in reserved : io[i] = "none"
    /\ prioritized \subseteq reserved

\* An available piece is not fetched again, and when nothing is scheduled any
\* more no block is left behind (the asserts at downloadtask.cc:424, 671, 672).
DrainedWhenDone ==
    /\ dirty \subseteq scheduled
    /\ scheduled \cap available = {}
    /\ scheduled = {} => pending = {} /\ \A b \in Blocks : downloading[b] = {}

\* A prioritized slot is held by a piece that still misses a block: complete
\* pieces do not clog the slots while they wait for the disk.
PrioritizedIncomplete ==
    \A i \in prioritized : ~Complete(i)

\* The availability of a piece is the number of registered peers that have it,
\* so it never drops below zero when a peer leaves (pieceadvisor.cc:74).
ReferencesExact ==
    \A i \in Pieces : references[i] = Cardinality({p \in conn : i \in has[p]})

\* A peer that is ignored after a snub owes nothing and is asked for nothing,
\* not even by an end game round or by the feeding inside a delivery.
IgnoredOwesNothing ==
    \A p \in Peers : ignored[p] => p \in conn /\ requests[p] = {} /\ feeder # p

\* The requests are consistent for all peers, the ignored ones included.
RequestsOwed == RequestsAgree /\ IgnoredOwesNothing

\* What is announced as available, and what the state file says is available,
\* has been verified and was not written again, across crashes at any point.
AvailableOnDisk ==
    /\ \A i \in available : disk[i] = "good" /\ io[i] = "none"
    /\ saved \subseteq available
    /\ \A n \in DOMAIN snapshots : snapshots[n] \subseteq available
    /\ \A i \in Pieces : io[i] = "verified" => disk[i] = "good"

\* A request queue holds at most the QueueLimit + 1 blocks that an end game
\* round may leave in it.
QueueBounded ==
    \A p \in Peers : Cardinality(requests[p]) <= QueueLimit + 1

\* A torrent is finished if one peer that has every wanted piece stays connected,
\* does not choke us and, as long as blocks are requested from it again and again,
\* sends one again and again.  The others may choke, stall or leave: no block stays
\* parked with a peer that will not send it, with a piece that lost its prioritized
\* slot, or behind a penalty.
Serves(p, S) == p \in conn /\ ~chokedUs[p] /\ S \subseteq has[p]

Sends(p) == SF_vars(\E b \in requests[p] : ReceiveBlock(p, b))

Completes(p) == <>[]Serves(p, Wanted) /\ Sends(p) => <>(scheduled = {})

\* The wanted piece that such a peer has is begun, whatever becomes of the others:
\* pieces that nobody sends, demoted or without a holder, do not keep it out.
BegunWhenServed(p, i) ==
    <>[]Serves(p, {i}) /\ Sends(p) => <>(i \in dirty \cup available)

\* What became available reaches the state file: no result that sets the
\* `successes' flag of CommandTask::execute is lost between two snapshots.
EventuallySaved == \A i \in Pieces : i \in available ~> i \in saved
=============================================================================

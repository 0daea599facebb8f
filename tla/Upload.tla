------------------------------- MODULE Upload -------------------------------
(***************************************************************************)
(* The sending side of one connection: UploadTask with the reads it starts *)
(* on the DiskIo thread, the packet queue of Socket with the packet that   *)
(* is partly written, and the tokens of the local BandwidthAllocator.      *)
(*                                                                         *)
(* Two threads: the reactor (pulse, handlers, tasks) and DiskIo (the       *)
(* callbacks of a read).  The lists of UploadState are guarded by anchor;  *)
(* its counter ioRequests is not, although both threads change it.         *)
(*                                                                         *)
(* A packet is the number under which it was made, its data is a row of    *)
(* parts.  The global allocators are never limited and grant everything.   *)
(***************************************************************************)
EXTENDS Integers, Sequences, SequencesExt

CONSTANTS
    Blocks,
    PieceParts,     \* parts in a piece message; any other message has one
    MaxRequests,    \* 20
    Limits,         \* upload rates the user may set, in parts; -1: no limit
    CounterMod,     \* 2^64, the width of ioRequests
    Room,           \* bound: parts that fit on the wire
    MaxPackets,     \* bound: packets made in a run
    FollowRaces     \* bound: whether there are requests after an overlap

ASSUME PartsAssumption == PieceParts \in Nat \ {0} /\ Room \in Nat
ASSUME RequestAssumption ==
    MaxRequests \in Nat /\ CounterMod \in Nat /\ MaxRequests < CounterMod
ASSUME LimitAssumption == Limits \subseteq Int /\ \A n \in Limits : n >= -1
ASSUME BlockAssumption == "choke" \notin Blocks /\ "none" \notin Blocks
ASSUME BoundAssumption == MaxPackets \in Nat /\ FollowRaces \in BOOLEAN

VARIABLES
    \* UploadState, and where the DiskIo thread is in a callback
    ioRequests, reads, assembled, sent, callback, seenByDisk,
    \* Socket: packetQueue_, pendingData_ (0: empty), pendingOffset_, closed_
    queue, pending, offset, closed,
    \* packets: what each one is, the discarded and the deleted ones
    made, discarded, deleted,
    \* the bandwidth allocator
    tokens, maxTokens,
    \* the reactor, inside a pulse, and the request it is starting
    phase, asked, seen,
    choked,     \* weChokedPeer
    wire,       \* what was written and not yet read at the other end
    \* history: parts since the last renewal; two updates of ioRequests overlapped;
    \* an assert failed
    spent, raced, aborted

taskVars   == <<ioRequests, reads, assembled, sent, callback, seenByDisk>>
socketVars == <<queue, pending, offset, closed>>
packetVars == <<made, discarded, deleted>>
rateVars   == <<tokens, maxTokens, spent>>
vars == <<taskVars, socketVars, packetVars, rateVars, phase, asked, seen,
          choked, wire, raced, aborted>>

Packets == 1..Len(made)
Parts(k) == IF made[k] = "choke" THEN 1 ELSE PieceParts
Smaller(m, n) == IF m <= n THEN m ELSE n

\* From the first unchoke message on; until then no request is heard.
Init ==
    /\ ioRequests = 0 /\ reads = <<>> /\ assembled = <<>> /\ sent = <<>>
    /\ callback = "none" /\ seenByDisk = 0
    /\ queue = <<>> /\ pending = 0 /\ offset = 0 /\ closed = FALSE
    /\ made = <<>> /\ discarded = {} /\ deleted = {}
    /\ maxTokens \in Limits /\ tokens = maxTokens
    /\ phase = "idle" /\ asked = "none" /\ seen = 0
    /\ choked = FALSE
    /\ wire = <<>>
    /\ spent = 0 /\ raced = FALSE /\ aborted = FALSE

Idle    == phase = "idle" /\ ~aborted
Reading == phase = "reading" /\ ~aborted
Writing == phase = "writing" /\ ~aborted

\* anchor: taken by every handler below but the two that count requests.
AnchorFree == callback # "success"

\* Bound: each read in progress will make a packet.
RoomForPacket == Len(made) + Len(reads) + (IF phase = "asking" THEN 1 ELSE 0) < MaxPackets

----------------------------------------------------------------------------
\* Requests and the callbacks of DiskIo.

\* Mutant: reads in progress do not count.
RequestUncounted(b) ==
    /\ Reading /\ ~choked /\ RoomForPacket /\ (raced => FollowRaces)
    /\ Len(assembled) + Len(sent) < MaxRequests
    /\ phase' = "asking" /\ asked' = b /\ seen' = ioRequests
    /\ UNCHANGED <<taskVars, socketVars, packetVars, rateVars, choked, wire, raced, aborted>>

\* notifyRequestEvent counts without the lock; what it read may be old when it
\* writes.  A request beyond the limit is dropped.
Request(b) ==
    /\ Reading /\ ~choked /\ RoomForPacket /\ (raced => FollowRaces)
    /\ ioRequests + Len(assembled) + Len(sent) < MaxRequests
    /\ phase' = "asking" /\ asked' = b /\ seen' = ioRequests
    /\ UNCHANGED <<taskVars, socketVars, packetVars, rateVars, choked, wire, raced, aborted>>

CountRequest ==
    /\ phase = "asking" /\ ~aborted
    /\ ioRequests' = (seen + 1) % CounterMod
    /\ raced' = (raced \/ seen # ioRequests \/ callback # "none")
    /\ reads' = Append(reads, asked)
    /\ phase' = "reading" /\ asked' = "none" /\ seen' = 0
    /\ UNCHANGED <<assembled, sent, callback, seenByDisk, socketVars, packetVars, rateVars,
                   choked, wire, aborted>>

\* handleReadSuccess up to the decrement; anchor stays locked.
ReadSuccess ==
    /\ ~aborted /\ callback = "none" /\ reads # <<>>
    /\ made' = Append(made, Head(reads))
    /\ assembled' = Append(assembled, Len(made'))
    /\ reads' = Tail(reads)
    /\ callback' = "success" /\ seenByDisk' = ioRequests
    /\ UNCHANGED <<ioRequests, sent, socketVars, discarded, deleted, rateVars,
                   phase, asked, seen, choked, wire, raced, aborted>>

\* handleReadFailure, which takes no lock.
ReadFailure ==
    /\ ~aborted /\ callback = "none" /\ reads # <<>>
    /\ IF ioRequests > 0
       THEN callback' = "failure" /\ seenByDisk' = ioRequests /\ aborted' = aborted
       ELSE UNCHANGED <<callback, seenByDisk>> /\ aborted' = TRUE
    /\ reads' = Tail(reads)
    /\ UNCHANGED <<ioRequests, assembled, sent, socketVars, packetVars, rateVars,
                   phase, asked, seen, choked, wire, raced>>

\* Mutant: a signed counter.
CountReadSigned ==
    /\ ~aborted /\ callback # "none"
    /\ ioRequests' = seenByDisk - 1
    /\ raced' = (raced \/ seenByDisk # ioRequests \/ phase = "asking")
    /\ callback' = "none" /\ seenByDisk' = 0
    /\ UNCHANGED <<reads, assembled, sent, socketVars, packetVars, rateVars,
                   phase, asked, seen, choked, wire, aborted>>

CountRead ==
    /\ ~aborted /\ callback # "none"
    /\ ioRequests' = (seenByDisk + CounterMod - 1) % CounterMod
    /\ raced' = (raced \/ seenByDisk # ioRequests \/ phase = "asking")
    /\ callback' = "none" /\ seenByDisk' = 0
    /\ UNCHANGED <<reads, assembled, sent, socketVars, packetVars, rateVars,
                   phase, asked, seen, choked, wire, aborted>>

----------------------------------------------------------------------------
\* Messages in assembledMessages and sentMessages.

Matches(s, b) == {n \in DOMAIN s : made[s[n]] = b}
FirstMatch(s, b) == CHOOSE n \in Matches(s, b) : \A m \in Matches(s, b) : n <= m

\* notifyCancelEvent; a block that is still being read is not found.
CancelAssembled(b) ==
    /\ Reading /\ AnchorFree /\ Matches(assembled, b) # {}
    /\ LET n == FirstMatch(assembled, b)
       IN /\ assembled' = RemoveAt(assembled, n)
          /\ deleted' = deleted \cup {assembled[n]}
    /\ UNCHANGED <<ioRequests, reads, sent, callback, seenByDisk, socketVars, made, discarded,
                   rateVars, phase, asked, seen, choked, wire, raced, aborted>>

CancelSent(b) ==
    /\ Reading /\ AnchorFree /\ ~closed
    /\ Matches(assembled, b) = {} /\ Matches(sent, b) # {}
    /\ LET n == FirstMatch(sent, b)
       IN /\ sent' = RemoveAt(sent, n)
          /\ discarded' = discarded \cup {sent[n]}
    /\ UNCHANGED <<ioRequests, reads, assembled, callback, seenByDisk, socketVars, made, deleted,
                   rateVars, phase, asked, seen, choked, wire, raced, aborted>>

\* After close() the list names packets that were deleted: the comparison reads
\* freed memory, and any of them may be taken for the cancelled block.
CancelDeleted ==
    /\ Reading /\ AnchorFree /\ closed
    /\ \E n \in DOMAIN sent : sent' = RemoveAt(sent, n)
    /\ UNCHANGED <<ioRequests, reads, assembled, callback, seenByDisk, socketVars, packetVars,
                   rateVars, phase, asked, seen, choked, wire, raced, aborted>>

\* UploadTask::execute for an unchoked peer.
UploadBlocks ==
    /\ Idle /\ ~closed /\ AnchorFree /\ ~choked /\ assembled # <<>>
    /\ sent' = sent \o assembled
    /\ queue' = queue \o assembled
    /\ assembled' = <<>>
    /\ UNCHANGED <<ioRequests, reads, callback, seenByDisk, pending, offset, closed, packetVars,
                   rateVars, phase, asked, seen, choked, wire, raced, aborted>>

\* Mutant: the deleted messages stay in the list.
CancelUploadUncleared ==
    /\ Idle /\ ~closed /\ AnchorFree /\ choked /\ assembled \o sent # <<>>
    /\ deleted' = deleted \cup ToSet(assembled)
    /\ discarded' = discarded \cup ToSet(sent)
    /\ sent' = <<>>
    /\ UNCHANGED <<ioRequests, reads, callback, seenByDisk, assembled, socketVars, made,
                   rateVars, phase, asked, seen, choked, wire, raced, aborted>>

\* ... and for a choked one.
CancelUpload ==
    /\ Idle /\ ~closed /\ AnchorFree /\ choked /\ assembled \o sent # <<>>
    /\ deleted' = deleted \cup ToSet(assembled)
    /\ discarded' = discarded \cup ToSet(sent)
    /\ assembled' = <<>> /\ sent' = <<>>
    /\ UNCHANGED <<ioRequests, reads, callback, seenByDisk, socketVars, made, rateVars,
                   phase, asked, seen, choked, wire, raced, aborted>>

\* ChokeTask sends a choke or unchoke message, from a task or from a handler.
ToggleChoke ==
    /\ (Idle /\ ~closed) \/ Reading
    /\ RoomForPacket
    /\ choked' = ~choked
    /\ made' = Append(made, "choke")
    /\ queue' = Append(queue, Len(made'))
    /\ UNCHANGED <<taskVars, pending, offset, closed, discarded, deleted, rateVars,
                   phase, asked, seen, wire, raced, aborted>>

----------------------------------------------------------------------------
\* Socket::write, one action per turn of its loop.

\* BandwidthAllocator::allocate and release, of a limit and the tokens left.
Allocate(limit, left, n) == IF limit > 0 THEN Smaller(left, n) ELSE IF limit = 0 THEN 0 ELSE n
Release(limit, left, n)  == Smaller(left + n, limit)

\* Socket::allocateBandwidth: what the local allocator gives is asked of the global one
\* as well, which nothing limits.
AllocateBandwidth(n) == Allocate(-1, -1, Allocate(maxTokens, tokens, n))
ReleaseBandwidth(left, n) == IF n > 0 THEN Release(maxTokens, left, n) ELSE left

\* Of what was allocated, n parts are sent and the rest is released.
Spend(allocated, n) ==
    /\ tokens' = ReleaseBandwidth(IF maxTokens > 0 THEN tokens - allocated ELSE tokens, allocated - n)
    /\ spent' = IF maxTokens > 0 THEN spent + n ELSE spent

Data   == IF pending = 0 THEN Head(queue) ELSE pending
Remain == Parts(Data) - offset
Skips  == Head(queue) \in discarded /\ offset = 0
Notifies == Head(queue) \notin discarded /\ made[Head(queue)] # "choke"

\* n parts of the data leave.
Transmit(n) ==
    wire' = wire \o [j \in 1..n |-> <<Data, offset + j>>]

\* Nothing is written if the socket is not writable or the peer hung up.
BeginPulse ==
    /\ Idle /\ ~closed
    /\ phase' \in {"writing", "reading"}
    /\ UNCHANGED <<taskVars, socketVars, packetVars, rateVars, asked, seen, choked, wire, raced, aborted>>

\* A discarded packet is dropped; its data stays in pendingData_.
WriteDiscarded ==
    /\ Writing /\ queue # <<>> /\ Skips
    /\ pending' = Data
    /\ queue' = Tail(queue)
    /\ deleted' = deleted \cup {Head(queue)}
    /\ UNCHANGED <<taskVars, offset, closed, made, discarded, rateVars,
                   phase, asked, seen, choked, wire, raced, aborted>>

\* Mutant: a discarded packet is reported as sent.
WriteWholeAlways ==
    /\ Writing /\ queue # <<>> /\ ~Skips /\ (Notifies => AnchorFree)
    /\ AllocateBandwidth(Remain) = Remain /\ Len(wire) + Remain <= Room
    /\ Transmit(Remain) /\ Spend(Remain, Remain)
    /\ sent' = IF made[Head(queue)] # "choke" /\ sent # <<>> THEN Tail(sent) ELSE sent
    /\ queue' = Tail(queue)
    /\ deleted' = deleted \cup {Head(queue)}
    /\ pending' = 0 /\ offset' = 0
    /\ UNCHANGED <<ioRequests, reads, assembled, callback, seenByDisk, closed, made, discarded,
                   maxTokens, phase, asked, seen, choked, raced, aborted>>

\* The rest of the data fits.  handleMessageSentEvent takes the first of
\* sentMessages for the packet that was sent.
WriteWhole ==
    /\ Writing /\ queue # <<>> /\ ~Skips /\ (Notifies => AnchorFree)
    /\ AllocateBandwidth(Remain) = Remain /\ Len(wire) + Remain <= Room
    /\ Transmit(Remain) /\ Spend(Remain, Remain)
    /\ sent' = IF Notifies THEN Tail(sent) ELSE sent
    /\ queue' = Tail(queue)
    /\ deleted' = deleted \cup {Head(queue)}
    /\ pending' = 0 /\ offset' = 0
    /\ UNCHANGED <<ioRequests, reads, assembled, callback, seenByDisk, closed, made, discarded,
                   maxTokens, phase, asked, seen, choked, raced, aborted>>

\* Mutant: the tokens of what was not sent are not given back.
WritePartWithoutRelease(n) ==
    /\ Writing /\ queue # <<>> /\ ~Skips
    /\ n < Remain /\ n <= AllocateBandwidth(Remain) /\ Len(wire) + n <= Room
    /\ Transmit(n)
    /\ tokens' = IF maxTokens > 0 THEN tokens - AllocateBandwidth(Remain) ELSE tokens
    /\ spent' = IF maxTokens > 0 THEN spent + n ELSE spent
    /\ pending' = Data /\ offset' = offset + n
    /\ phase' = "reading"
    /\ UNCHANGED <<taskVars, queue, closed, packetVars, maxTokens, asked, seen, choked, raced, aborted>>

\* Only n parts are allowed, or accepted: what was allocated beyond is released.
WritePart(n) ==
    /\ Writing /\ queue # <<>> /\ ~Skips
    /\ n < Remain /\ n <= AllocateBandwidth(Remain) /\ Len(wire) + n <= Room
    /\ Transmit(n) /\ Spend(AllocateBandwidth(Remain), n)
    /\ pending' = Data /\ offset' = offset + n
    /\ phase' = "reading"
    /\ UNCHANGED <<taskVars, queue, closed, packetVars, maxTokens, asked, seen, choked, raced, aborted>>

\* close(): the packets are deleted, sentMessages and pendingData_ stay.
CloseSocket ==
    /\ closed' = TRUE
    /\ deleted' = deleted \cup ToSet(queue)
    /\ queue' = <<>>

\* send() fails, after n parts; all of the allocation is released.
WriteFails(n) ==
    /\ Writing /\ queue # <<>> /\ ~Skips
    /\ n < AllocateBandwidth(Remain) /\ Len(wire) + n <= Room
    /\ Transmit(n) /\ Spend(AllocateBandwidth(Remain), 0)
    /\ CloseSocket
    /\ pending' = Data
    /\ phase' = "reading"
    /\ UNCHANGED <<taskVars, offset, made, discarded, maxTokens, asked, seen,
                   choked, raced, aborted>>

WriteEnds ==
    /\ Writing /\ queue = <<>>
    /\ phase' = "reading"
    /\ UNCHANGED <<taskVars, socketVars, packetVars, rateVars, asked, seen, choked, wire, raced, aborted>>

----------------------------------------------------------------------------
\* The end of a pulse and of the connection; the timers.

\* Socket::read fails, or a handler closes the socket; the messages that are
\* in the buffer already are still dispatched.
ReadCloses ==
    /\ Reading /\ ~closed
    /\ CloseSocket
    /\ UNCHANGED <<taskVars, pending, offset, made, discarded, rateVars,
                   phase, asked, seen, choked, wire, raced, aborted>>

EndPulse ==
    /\ Reading /\ ~closed
    /\ phase' = "idle"
    /\ UNCHANGED <<taskVars, socketVars, packetVars, rateVars, asked, seen, choked, wire, raced, aborted>>

\* The socket is destroyed after the pulse in which it was closed or the peer
\* hung up; unregisterPeer deletes what was not sent, but leaves the lists to
\* callbacks that come late.
Disconnect ==
    /\ Reading /\ AnchorFree
    /\ phase' = "gone"
    /\ closed' = TRUE
    /\ queue' = <<>>
    /\ deleted' = deleted \cup ToSet(queue) \cup ToSet(assembled)
    /\ UNCHANGED <<taskVars, pending, offset, made, discarded, rateVars,
                   asked, seen, choked, wire, raced, aborted>>

\* CommandTask, every second, and after a change of the limit.
Renew ==
    /\ Idle /\ ~closed /\ spent > 0
    /\ tokens' = maxTokens /\ spent' = 0
    /\ UNCHANGED <<taskVars, socketVars, packetVars, maxTokens, phase, asked, seen, choked, wire,
                   raced, aborted>>

LimitRate(n) ==
    /\ Idle /\ ~closed /\ n # maxTokens
    /\ maxTokens' = n /\ tokens' = n /\ spent' = 0
    /\ UNCHANGED <<taskVars, socketVars, packetVars, phase, asked, seen, choked, wire, raced, aborted>>

\* The peer reads n parts.
Drain(n) ==
    /\ n <= Len(wire)
    /\ wire' = SubSeq(wire, n + 1, Len(wire))
    /\ UNCHANGED <<taskVars, socketVars, packetVars, rateVars, phase, asked, seen, choked,
                   raced, aborted>>
----------------------------------------------------------------------------

UploadNext ==
    \/ \E b \in Blocks : Request(b) \/ CancelAssembled(b) \/ CancelSent(b)
    \/ CountRequest \/ CancelDeleted
    \/ ReadSuccess \/ ReadFailure \/ CountRead
    \/ UploadBlocks \/ CancelUpload \/ ToggleChoke
    \/ BeginPulse \/ WriteDiscarded \/ WriteWhole \/ WriteEnds
    \/ \E n \in 0..PieceParts : WritePart(n) \/ WriteFails(n)
    \/ ReadCloses \/ EndPulse \/ Disconnect
    \/ Renew \/ \E n \in Limits : LimitRate(n)

Next == UploadNext \/ \E n \in 1..Room : Drain(n)

Spec == Init /\ [][Next]_vars

----------------------------------------------------------------------------
\* Properties.

Open == ~closed /\ phase # "gone"

\* What comes earlier in s comes earlier in q too.
InOrderOf(s, q) ==
    \A i, j \in DOMAIN s : i < j => \E m, n \in DOMAIN q : m < n /\ q[m] = s[i] /\ q[n] = s[j]

TypeOK ==
    /\ made \in Seq(Blocks \cup {"choke"})
    /\ ioRequests \in 0..CounterMod-1 /\ seen \in 0..CounterMod-1
    /\ seenByDisk \in 0..CounterMod-1
    /\ reads \in Seq(Blocks) /\ asked \in Blocks \cup {"none"}
    /\ assembled \in Seq(Packets) /\ sent \in Seq(Packets) /\ queue \in Seq(Packets)
    /\ callback \in {"none", "success", "failure"}
    /\ pending \in Packets \cup {0} /\ offset \in Nat
    /\ closed \in BOOLEAN /\ choked \in BOOLEAN
    /\ discarded \subseteq Packets /\ deleted \subseteq Packets
    /\ tokens \in Int /\ maxTokens \in Int /\ spent \in Nat
    /\ phase \in {"idle", "writing", "reading", "asking", "gone"}
    /\ wire \in Seq(Packets \X (1..PieceParts))
    /\ raced \in BOOLEAN /\ aborted \in BOOLEAN

\* "Sending order is never violated thus it's safe to assume that the sent
\* message would be in front of the list" (uploadtask.cc:206-207): while the
\* socket is open, sentMessages are the piece messages in the socket's queue that
\* were not discarded, in the order of the queue, although cancels, chokes and
\* transmissions take them out of the two lists one by one.  And a packet that waits
\* is not deleted and waits in one place: nothing is sent or deleted after it was
\* deleted.
QueuesAgree ==
    Open => /\ ToSet(sent) = {k \in ToSet(queue) : k \notin discarded /\ made[k] # "choke"}
            /\ InOrderOf(sent, queue)
            /\ IsInjective(assembled \o queue)
            /\ ToSet(assembled \o queue) \cap deleted = {}

\* Without overlapping updates of ioRequests, the unlocked count of requests is
\* exact, and a peer never has more than MaxRequests blocks read, waiting or on
\* their way, through all cancels, chokes and failures; then the assert of
\* handleReadFailure holds too.  What was charged since the last renewal and what is
\* left make up the limit: no partial or failed write loses tokens or sends without.
LimitsKept ==
    /\ raced \/ /\ ioRequests = Len(reads) + (IF callback = "none" THEN 0 ELSE 1)
                /\ Open => Len(reads) + Len(assembled) + Len(sent) <= MaxRequests
                /\ ~aborted
    /\ maxTokens >= 0 => spent + tokens = maxTokens
=============================================================================

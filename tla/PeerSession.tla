---------------------------- MODULE PeerSession ----------------------------
(***************************************************************************)
(* Interest and choking between one torrent and its peers: InterestTask    *)
(* and ChokeTask with the part of PeerDataCollector and EventHub that      *)
(* feeds them.  Everything here runs on the torrent's reactor thread, one  *)
(* handler or task after the other.                                        *)
(*                                                                         *)
(* Both tasks keep counters of facts that are recorded elsewhere: how many *)
(* scheduled pieces a peer has, and how many peers are unchoked.  Their    *)
(* asserts are compiled in; one that fails ends the program.               *)
(***************************************************************************)
EXTENDS Integers, FiniteSets

CONSTANTS
    Peers, Pieces,
    UploadSlots         \* uploadSlotCount: 6 unless configured otherwise

ASSUME PeersAssumption == IsFiniteSet(Peers) /\ IsFiniteSet(Pieces)
ASSUME SlotsAssumption == UploadSlots \in Nat \ {0}

VARIABLES
    conn,           \* the registered peers
    has,            \* bitfield: the pieces the peer announced
    fresh,          \* ~dropBitfield_: the next message may still be a bitfield
    interested,     \* the peers with peerIsInterested
    unchoked,       \* the peers without weChokedPeer
    weInterested,   \* the peers with weAreInterested
    wanted,         \* InterestState::piecesWanted
    unchokedCount,  \* unchokedPeerCount_
    scheduled,      \* scheduledPieces_, which shrinks as pieces are downloaded
    failed          \* the task whose assert failed

peerVars     == <<conn, has, fresh>>
interestVars == <<weInterested, wanted, scheduled>>
chokeVars    == <<interested, unchoked, unchokedCount>>
vars == <<peerVars, interestVars, chokeVars, failed>>

Smaller(m, n) == IF m <= n THEN m ELSE n

Holders(i) == {p \in conn : i \in has[p]}

Init ==
    /\ conn = {}
    /\ has = [p \in Peers |-> {}]
    /\ fresh = [p \in Peers |-> TRUE]
    /\ interested = {}
    /\ unchoked = {}
    /\ weInterested = {}
    /\ wanted = [p \in Peers |-> 0]
    /\ unchokedCount = 0
    /\ scheduled \in SUBSET Pieces
    /\ failed = "none"

Running == failed = "none"
Heard(p) == fresh' = [fresh EXCEPT ![p] = FALSE]

----------------------------------------------------------------------------
\* Choking.

\* doPartialChokeRound, with the peers that are interested, the peers that are
\* unchoked and the count as they are by now.  Which of the waiting peers get
\* the free slots is left open.
PartialRound(I, U, n) ==
    LET waiting == I \ U
        grants  == IF n >= UploadSlots THEN 0
                   ELSE Smaller(UploadSlots - n, Cardinality(waiting))
    IN \E G \in SUBSET waiting :
          /\ Cardinality(G) = grants
          /\ unchoked' = U \cup G
          /\ unchokedCount' = n + grants

\* Mutants: the freed slot is not given away; the count is taken down unseen.
LeaveSlotIdle(p, I, U) ==
    IF p \notin unchoked
    THEN UNCHANGED unchokedCount /\ unchoked' = U /\ failed' = failed
    ELSE IF unchokedCount > 0
    THEN unchokedCount' = unchokedCount - 1 /\ unchoked' = U /\ failed' = failed
    ELSE UNCHANGED unchokedCount /\ unchoked' = U /\ failed' = "choking"

LeaveSlotUnchecked(p, I, U) ==
    IF p \notin unchoked
    THEN UNCHANGED unchokedCount /\ unchoked' = U /\ failed' = failed
    ELSE PartialRound(I, U, unchokedCount - 1) /\ failed' = failed

\* A peer that is unchoked leaves its slot: the assert, the count and the round
\* of unregisterPeer and notifyPeerBecameNotInterested.
LeaveSlot(p, I, U) ==
    IF p \notin unchoked
    THEN UNCHANGED unchokedCount /\ unchoked' = U /\ failed' = failed
    ELSE IF unchokedCount > 0
    THEN PartialRound(I, U, unchokedCount - 1) /\ failed' = failed
    ELSE UNCHANGED unchokedCount /\ unchoked' = U /\ failed' = "choking"

ReceiveInterested(p) ==
    /\ Running /\ p \in conn \ interested
    /\ Heard(p)
    /\ interested' = interested \cup {p}
    /\ PartialRound(interested', unchoked, unchokedCount)
    /\ UNCHANGED <<conn, has, interestVars, failed>>

\* The peer stays unchoked although it is not counted any more.
ReceiveNotInterested(p) ==
    /\ Running /\ p \in conn \cap interested
    /\ Heard(p)
    /\ interested' = interested \ {p}
    /\ LeaveSlot(p, interested', unchoked)
    /\ UNCHANGED <<conn, has, interestVars>>

\* Mutant: only the optimistic choice is choked again.
FullRoundKeepingOthers ==
    /\ Running
    /\ unchokedCount' = Smaller(UploadSlots, Cardinality(interested))
    /\ IF Cardinality(interested) <= UploadSlots
       THEN unchoked' = unchoked \cup interested
       ELSE \E T \in SUBSET interested :
              /\ Cardinality(T) = UploadSlots - 1
              /\ unchoked' = unchoked \cup T
    /\ UNCHANGED <<peerVars, interestVars, interested, failed>>

\* ChokeTask::execute.  If there are more interested peers than slots, all slots
\* but one go to the first peers by rating, T.  At the last slot of the sorted
\* list, where d is, the optimistic choice c takes over; d is then nowhere in
\* the list, while c is in it twice: unless it is d itself, c is unchoked by the
\* first loop and choked by the second.  The order by rating is left open.
FullRound ==
    /\ Running
    /\ unchokedCount' = Smaller(UploadSlots, Cardinality(interested))
    /\ IF Cardinality(interested) <= UploadSlots
       THEN unchoked' = unchoked \cup interested
       ELSE \E T \in SUBSET interested :
              /\ Cardinality(T) = UploadSlots - 1
              /\ \E d \in interested \ T :
                 \E c \in IF interested \ T \subseteq unchoked THEN {d}
                          ELSE (interested \ T) \ unchoked :
                    unchoked' = (unchoked \ ((interested \ T) \ {d})) \cup T
                                   \cup {q \in {c} : q = d}
    /\ UNCHANGED <<peerVars, interestVars, interested, failed>>

----------------------------------------------------------------------------
\* Interest.

\* A connection that completed the handshake; we tell the peer what we have.
Join(p) ==
    /\ Running /\ p \notin conn
    /\ conn' = conn \cup {p}
    /\ UNCHANGED <<has, fresh, interestVars, chokeVars, failed>>

\* EventHub's destructor: the peer leaves the registry first, then the tasks.
Disconnect(p) ==
    /\ Running /\ p \in conn
    /\ conn' = conn \ {p}
    /\ has' = [has EXCEPT ![p] = {}]
    /\ fresh' = [fresh EXCEPT ![p] = TRUE]
    /\ wanted' = [wanted EXCEPT ![p] = 0]
    /\ weInterested' = weInterested \ {p}
    /\ interested' = interested \ {p}
    /\ LeaveSlot(p, interested', unchoked \ {p})
    /\ UNCHANGED scheduled

\* A message that only makes a later bitfield void.
OtherMessage(p) ==
    /\ Running /\ p \in conn /\ fresh[p]
    /\ Heard(p)
    /\ UNCHANGED <<conn, has, interestVars, chokeVars, failed>>

\* updateWantedPieceCount, for a peer that has these pieces.
PiecesWanted(S) == Cardinality(S \cap scheduled)

ReceiveBitfield(p, S) ==
    /\ Running /\ p \in conn /\ fresh[p]
    /\ Heard(p)
    /\ has' = [has EXCEPT ![p] = S]
    /\ wanted' = [wanted EXCEPT ![p] = PiecesWanted(S)]
    /\ weInterested' = IF PiecesWanted(S) > 0 THEN weInterested \cup {p}
                       ELSE weInterested \ {p}
    /\ UNCHANGED <<conn, scheduled, chokeVars, failed>>

\* Mutant: a piece counts whether we want it or not.
ReceiveHaveAlways(p, i) ==
    /\ Running /\ p \in conn /\ i \notin has[p]
    /\ Heard(p)
    /\ has' = [has EXCEPT ![p] = @ \cup {i}]
    /\ wanted' = [wanted EXCEPT ![p] = @ + 1]
    /\ weInterested' = weInterested \cup {p}
    /\ UNCHANGED <<conn, scheduled, chokeVars, failed>>

ReceiveHave(p, i) ==
    /\ Running /\ p \in conn /\ i \notin has[p]
    /\ Heard(p)
    /\ has' = [has EXCEPT ![p] = @ \cup {i}]
    /\ wanted' = IF i \in scheduled THEN [wanted EXCEPT ![p] = @ + 1] ELSE wanted
    /\ weInterested' = IF i \in scheduled THEN weInterested \cup {p} ELSE weInterested
    /\ UNCHANGED <<conn, scheduled, chokeVars, failed>>

\* CommandTask settles a piece that was downloaded and verified.
DownloadedGoodPiece(i) ==
    /\ Running /\ i \in scheduled
    /\ scheduled' = scheduled \ {i}
    /\ IF \A p \in Holders(i) : wanted[p] > 0 /\ p \in weInterested
       THEN /\ wanted' = [p \in Peers |-> IF p \in Holders(i) THEN wanted[p] - 1 ELSE wanted[p]]
            /\ weInterested' = weInterested \ {p \in Holders(i) : wanted[p] = 1}
            /\ failed' = failed
       ELSE UNCHANGED <<wanted, weInterested>> /\ failed' = "interest"
    /\ UNCHANGED <<peerVars, chokeVars>>

----------------------------------------------------------------------------

PeerNext(p) ==
    \/ Join(p) \/ Disconnect(p)
    \/ OtherMessage(p)
    \/ \E S \in SUBSET Pieces : ReceiveBitfield(p, S)
    \/ \E i \in Pieces : ReceiveHave(p, i)
    \/ ReceiveInterested(p) \/ ReceiveNotInterested(p)

Next ==
    \/ \E p \in Peers : PeerNext(p)
    \/ \E i \in Pieces : DownloadedGoodPiece(i)
    \/ FullRound

Spec == Init /\ [][Next]_vars

----------------------------------------------------------------------------
\* Properties.

TypeOK ==
    /\ conn \subseteq Peers
    /\ has \in [Peers -> SUBSET Pieces]
    /\ fresh \in [Peers -> BOOLEAN]
    /\ interested \subseteq conn
    /\ unchoked \subseteq conn
    /\ weInterested \subseteq conn
    /\ wanted \in [Peers -> Nat]
    /\ unchokedCount \in 0..UploadSlots
    /\ scheduled \subseteq Pieces
    /\ failed \in {"none", "interest", "choking"}

\* The counter that InterestTask keeps by increments and decrements is the
\* number of scheduled pieces the peer has, and we are interested exactly when
\* it is positive, whatever the order of have messages, bitfields and downloads:
\* its asserts (interesttask.cc:99-100) hold, and no peer is left that believes
\* us interested in nothing, or that we could ask and do not.  Module Download
\* uses this as its definition of WeAreInterested.
InterestExact ==
    /\ \A p \in conn :
          /\ wanted[p] = Cardinality(has[p] \cap scheduled)
          /\ p \in weInterested <=> has[p] \cap scheduled # {}
    /\ failed # "interest"

\* While an interested peer waits for a slot, all slots are accounted for:
\* a slot that a peer leaves by losing interest or by disconnecting is handed on
\* in the same step.
NoCountedSlotIdle ==
    interested \subseteq unchoked \/ unchokedCount = UploadSlots \/ failed # "none"

\* A full round ends every excess: peers that became interested again while they
\* were still unchoked are cut down to the slots, although the round chokes some
\* peers through stale positions of its list.
RoundRestoresSlots ==
    [][FullRound => Cardinality((unchoked \cap interested)') <= UploadSlots]_vars

\* "Unchoked peers with highest rating and one optimistically selected peer": as
\* long as an interested peer is choked, no slot is without an interested peer.
SlotsTaken ==
    interested \subseteq unchoked \/ Cardinality(unchoked \cap interested) >= UploadSlots

\* The asserts of unregisterPeer and notifyPeerBecameNotInterested: a peer that
\* leaves its slot had been counted.
SlotWasCounted == failed # "choking"
=============================================================================

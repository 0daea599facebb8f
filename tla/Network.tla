------------------------------ MODULE Network ------------------------------
(***************************************************************************)
(* Announce and Swarm on the reactor of one torrent: the peers that a      *)
(* tracker tells go to the ConnectionInitiator, and the user stops and     *)
(* starts the torrent.                                                     *)
(***************************************************************************)
EXTENDS Announce, Swarm

CONSTANT MaxStops   \* bound

ASSUME NetworkAssumption == Endpoints \subseteq Addresses /\ MaxStops \in Nat

VARIABLE stops

vars == <<running, announceVars, swarmVars, stops>>

Init == running = TRUE /\ stops = 0 /\ AnnounceInit /\ SwarmInit

\* The announce task, whose onPeersAvailable is enqueuePeers.
Announcing ==
    /\ Alive
    /\ \E refused \in SUBSET Starting : Schedule(refused)
    /\ EnqueuePeers(PeersReady)
    /\ UNCHANGED <<running, acceptVars, peerVars, stops>>

TrackerStep ==
    /\ Alive
    /\ \/ \E e \in exchanges : Exchange(e)
       \/ \E t \in Trackers : ReachTime(t) \/ Age(t)
    /\ UNCHANGED <<running, swarmVars, stops>>

PeerStep ==
    /\ running
    /\ \/ \E refused \in SUBSET Addresses : Initiate(refused)
       \/ \E c \in attempts : Attempt(c)
       \/ \E a \in Addresses : RetryTime(a)
       \/ \E i \in Incoming : Caller(i) \/ HangUp(i)
       \/ ReceivePeers
       \/ \E p \in peers : Leave(p)
    /\ UNCHANGED <<running, announceVars, stops>>

\* stopTorrent: the loop ends, the tasks are stopped, the connections deleted.
Stop ==
    /\ running /\ stops < MaxStops
    /\ running' = FALSE /\ stops' = stops + 1
    /\ \E kept \in SUBSET exchanges : StopAnnouncing(kept)
    /\ \E kept \in SUBSET attempts : StopSwarm(kept)

\* startTorrent: AnnounceScheduler::start is an execute().
Start ==
    /\ ~running /\ Alive
    /\ running' = TRUE
    /\ UNCHANGED <<announceVars, swarmVars, stops>>

Next == Announcing \/ TrackerStep \/ PeerStep \/ Stop \/ Start

\* The scheduler runs every ten seconds, in particular when there is an announce
\* to give up, and time passes.
Spec == Init /\ [][Next]_vars /\ WF_aged(Announcing) /\ \A t \in Trackers : WF_aged(Age(t))

----------------------------------------------------------------------------
\* Types, and the bounds of the model.
TypeOK == AnnounceTypeOK /\ SwarmTypeOK /\ stops \in 0..MaxStops

\* The peers of an answer that came in time reach the initiator: the tracker stays
\* among those whose answers are handed on, whatever the scheduler does in between,
\* unless an announce that was given up ends after it, or the torrent is stopped before
\* the round that would hand them on: announceStopped makes the tracker fail.  An
\* announce in process has its connection, unless a stop deleted it: the announce then
\* stays in process until it is given up.  An address that is said to be connecting has
\* its connection, unless it was lost between the connection and the end of the
\* handshake or deleted by a stop; such an address is never tried again.
NothingForgotten ==
    /\ \A t \in fresh \ (overtaken \cup interrupted) : t \in announcing /\ status[t] = "succeeded"
    /\ \A t \in InProcess \ interrupted : \E e \in exchanges : e.tracker = t /\ Current(e)
    /\ \A a \in Addresses : Alive /\ book[a].state = "connecting" =>
         a \in dropped \/ \E c \in attempts : c.address = a

\* The asserts of the two handlers hold: a connection of the initiator always has
\* its entry, and there is one for each address, in spite of peers that trackers
\* tell again, of retries and of stops.  They fail only when a write meets an error that
\* its event did not announce, and the failure is reported twice.
EntriesHold ==
    /\ \A c, d \in attempts : c.address = d.address => c = d
    /\ \A c \in attempts : book[c.address].state = "connecting"
    /\ abort = "assert" => surprised

\* A peer that the initiator found is known by its own id.  Those that come to the
\* acceptor are all known by one id, the one that the first whole handshake in the
\* common buffer had, whoever they are.
IdentityRight ==
    \A w \in peers \cup ToSet(waiting) :
        /\ w.who \in Addresses => w.id = IdOf[w.who]
        /\ w.who \in Incoming => Len(buffer) >= 2 /\ w.id = ReadId(buffer)

\* Of each attempt there is one entry, and the registered peers and those that wait
\* have the ids that the two handlers read.
PeersKnown == EntriesHold /\ IdentityRight

\* An announce does not stay in process for ever.
AnnounceEnds ==
    \A t \in Trackers : status[t] = "inProcess" ~> (status[t] # "inProcess" \/ ~running \/ ~Alive)
=============================================================================

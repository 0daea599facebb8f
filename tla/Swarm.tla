------------------------------- MODULE Swarm -------------------------------
(***************************************************************************)
(* How a torrent gets its peers: ConnectionInitiator and the connections   *)
(* that BootstrapConnection opens for it, the handshake on them, the       *)
(* acceptor with the handshake of incoming connections, and CommandTask,   *)
(* which registers the peers of both.                                      *)
(*                                                                         *)
(* A connection that the reactor has closed is deleted at the end of the   *)
(* same pulse, so that an event of a connection is one step.               *)
(***************************************************************************)
EXTENDS Integers, Sequences, FiniteSets, SequencesExt

CONSTANTS
    Addresses,      \* 1..n, in the order of knownPeers_
    Incoming,       \* connections that come to the acceptor
    Foreign,        \* those that may ask for a torrent which we do not have
    IdOf,           \* the peer id at the other end of a connection
    OwnId,          \* ours
    NoId,           \* what is read when it is not a peer id
    Limit,          \* connections, of the torrent and in all
    MaxRetries      \* 3

ASSUME SwarmAssumption ==
    /\ Limit \in Nat /\ MaxRetries \in Nat \ {0}
    /\ Foreign \subseteq Incoming
    /\ DOMAIN IdOf = Addresses \cup Incoming /\ Addresses \cap Incoming = {}
    /\ NoId \notin {IdOf[who] : who \in DOMAIN IdOf}

VARIABLES
    book,           \* knownPeers_: state, retryCount and whether retryTime is reached
    attempts,       \* connections of the initiator, until the handshake is over
    waiting,        \* waitingPeers_
    peers,          \* PeerRegistry
    callers,        \* what each incoming connection has sent
    buffer,         \* the buffer of the one negotiator of the acceptor
    discovered,     \* its hashAlreadyDiscovered_
    abort,          \* why the program ended
    \* history: addresses whose connection ended and nobody was told; whether a write
    \* met an error that its event did not announce
    dropped, surprised

callVars  == <<book, attempts, dropped, surprised, abort>>
acceptVars == <<callers, buffer, discovered>>
peerVars  == <<waiting, peers>>
swarmVars == <<callVars, acceptVars, peerVars>>

Unknown == [state |-> "unknown", retries |-> 0, due |-> TRUE]
New     == [state |-> "idle", retries |-> 0, due |-> TRUE]

SwarmInit ==
    /\ book = [a \in Addresses |-> Unknown]
    /\ attempts = {} /\ waiting = <<>> /\ peers = {}
    /\ callers = [i \in Incoming |-> "away"] /\ buffer = <<>> /\ discovered = FALSE
    /\ abort = "no" /\ dropped = {} /\ surprised = FALSE

Alive == abort = "no"

\* Mutant: a peer that a tracker tells again is entered again.
EnqueuePeersAgain(addresses) ==
    /\ book' = [a \in Addresses |-> IF a \in addresses THEN New ELSE book[a]]
    /\ UNCHANGED <<attempts, dropped, surprised, abort>>

\* enqueuePeers.
EnqueuePeers(addresses) ==
    /\ book' = [a \in Addresses |->
                  IF a \in addresses /\ book[a].state = "unknown" THEN New ELSE book[a]]
    /\ UNCHANGED <<attempts, dropped, surprised, abort>>

RetryTime(a) ==
    /\ Alive /\ ~book[a].due
    /\ book' = [book EXCEPT ![a].due = TRUE]
    /\ UNCHANGED <<attempts, dropped, surprised, abort, acceptVars, peerVars>>

\* Mutant: an address is tried once more.
FailureOnceMore(entry) ==
    IF entry.retries + 1 <= MaxRetries
    THEN [state |-> "idle", retries |-> entry.retries + 1, due |-> FALSE]
    ELSE Unknown

\* handleConnectFailure, for an entry that is there.
Failure(entry) ==
    IF entry.retries + 1 < MaxRetries
    THEN [state |-> "idle", retries |-> entry.retries + 1, due |-> FALSE]
    ELSE Unknown

\* AcceptorService::willAccept; the only torrent's peers are all there are.
WillAccept == Cardinality(peers) < Limit

\* availableSlots.
Slots == IF Cardinality(peers) >= Limit THEN 0 ELSE Limit - Cardinality(peers)

\* execute(): the first peers that wait to be tried, as many as there are slots;
\* refused are those whose connection cannot even be begun.  The failure that
\* erases an entry leaves the loop with an iterator to what is gone.
Initiate(refused) ==
    LET ready  == {a \in Addresses : book[a].state = "idle" /\ book[a].due}
        tried  == {a \in ready : Cardinality({b \in ready : b <= a}) <= Slots}
        erased == {a \in refused : Failure(book[a]) = Unknown}
    IN  /\ Alive /\ tried # {} /\ refused \subseteq tried
        /\ book' = [a \in Addresses |->
                      IF a \in refused THEN Failure(book[a])
                      ELSE IF a \in tried THEN [book[a] EXCEPT !.state = "connecting"] ELSE book[a]]
        /\ attempts' = attempts \cup {[address |-> a, stage |-> "opening"] : a \in tried \ refused}
        /\ dropped' = dropped \ tried
        /\ abort' = IF erased # {} THEN "iterator" ELSE abort
        /\ UNCHANGED <<surprised, acceptVars, peerVars>>

----------------------------------------------------------------------------
\* What becomes of a connection.

Gone(c) == attempts' = attempts \ {c}

\* BootstrapConnection::write for the first time: the handshake is sent.
Connect(c) ==
    /\ Alive /\ c.stage = "opening"
    /\ attempts' = (attempts \ {c}) \cup {[c EXCEPT !.stage = "open"]}
    /\ UNCHANGED <<book, dropped, surprised, abort, acceptVars, peerVars>>

\* onConnectFailure once: the connection is refused (shutdown()), or the peer has
\* another torrent (processInfoHash).
Fail(c) ==
    /\ Alive
    /\ Gone(c)
    /\ IF book[c.address].state = "unknown"
       THEN abort' = "assert" /\ UNCHANGED book
       ELSE book' = [book EXCEPT ![c.address] = Failure(@)] /\ UNCHANGED abort
    /\ UNCHANGED <<dropped, surprised, acceptVars, peerVars>>

\* An error came after the event was read: write() reports it and closes; before
\* the connection was ever open, shutdown() reports it again; after that, a
\* handshake may still be read.
FailSurprised(c, shaken) ==
    LET first == Failure(book[c.address])
    IN  /\ Alive /\ surprised' = TRUE
        /\ Gone(c)
        /\ IF book[c.address].state = "unknown" \/ (first = Unknown /\ (shaken \/ c.stage = "opening"))
           THEN abort' = "assert" /\ UNCHANGED <<book, waiting>>
           ELSE /\ abort' = abort
                /\ book' = [book EXCEPT ![c.address] =
                              IF shaken THEN Unknown
                              ELSE IF c.stage = "opening" THEN Failure(first) ELSE first]
                /\ waiting' = IF shaken THEN Append(waiting, [who |-> c.address, id |-> IdOf[c.address]])
                              ELSE waiting
        /\ shaken => c.stage = "open"
        /\ UNCHANGED <<dropped, acceptVars, peers>>

\* The handshake is complete: handleConnectSuccess, which hands the peer on.
Shake(c) ==
    /\ Alive /\ c.stage = "open"
    /\ Gone(c)
    /\ IF book[c.address].state = "unknown"
       THEN abort' = "assert" /\ UNCHANGED <<book, waiting>>
       ELSE /\ book' = [book EXCEPT ![c.address] = Unknown]
            /\ waiting' = Append(waiting, [who |-> c.address, id |-> IdOf[c.address]])
            /\ UNCHANGED abort
    /\ UNCHANGED <<dropped, surprised, acceptVars, peers>>

\* The connection is lost, or the peer does not speak the protocol, when it was
\* open and before the handshake was complete: nobody is told.
Lose(c) ==
    /\ Alive /\ c.stage = "open"
    /\ Gone(c)
    /\ dropped' = dropped \cup {c.address}
    /\ UNCHANGED <<book, surprised, abort, acceptVars, peerVars>>

Attempt(c) ==
    \/ Connect(c) \/ Fail(c) \/ Shake(c) \/ Lose(c)
    \/ \E shaken \in BOOLEAN : FailSurprised(c, shaken)

----------------------------------------------------------------------------
\* Incoming connections.  A handshake has a part up to the info hash, and the
\* peer id.

Accept(i) ==
    /\ Alive /\ callers[i] = "away" /\ WillAccept
    /\ callers' = [callers EXCEPT ![i] = "accepted"]
    /\ UNCHANGED <<buffer, discovered, callVars, peerVars>>

Hello(i, known) == [from |-> i, part |-> IF known THEN "hash" ELSE "otherHash"]
Rest(i) == [from |-> i, part |-> "id"]

\* What is read as the peer id of the handshake at the front of the buffer.
ReadId(parts) == IF parts[2].part = "id" THEN IdOf[parts[2].from] ELSE NoId

\* receive() of the acceptor's negotiator, which all incoming connections share:
\* the info hash is looked for once, the buffer is never emptied.  The torrent may
\* have as many peers as it can by now; a connection from ourselves is closed.
Hear(i, new) ==
    LET parts == buffer \o new
        found == discovered \/ (parts[1].part = "hash" /\ Cardinality(peers) < Limit)
        id    == ReadId(parts)
    IN  /\ Alive
        /\ buffer' = parts
        /\ discovered' = found
        /\ IF ~found
           THEN callers' = [callers EXCEPT ![i] = "closed"] /\ UNCHANGED waiting
           ELSE IF Len(parts) < 2
           THEN callers' = [callers EXCEPT ![i] = "half"] /\ UNCHANGED waiting
           ELSE /\ callers' = [callers EXCEPT ![i] = "closed"]
                /\ waiting' = IF id = OwnId THEN waiting ELSE Append(waiting, [who |-> i, id |-> id])
        /\ UNCHANGED <<callVars, peers>>

Caller(i) ==
    \/ Accept(i)
    \/ \E known \in {TRUE, i \notin Foreign} :
         /\ callers[i] = "accepted"
         /\ \/ Hear(i, <<Hello(i, known)>>)
            \/ Hear(i, <<Hello(i, known), Rest(i)>>)
    \/ callers[i] = "half" /\ Hear(i, <<Rest(i)>>)

HangUp(i) ==
    /\ Alive /\ callers[i] \in {"accepted", "half"}
    /\ callers' = [callers EXCEPT ![i] = "closed"]
    /\ UNCHANGED <<buffer, discovered, callVars, peerVars>>

----------------------------------------------------------------------------
\* Peers.

\* reconfigurePeer, in the order in which they came.
Register(registered, w) ==
    IF \E p \in registered : p.id = w.id THEN registered ELSE registered \cup {w}

ReceivePeers ==
    /\ Alive /\ waiting # <<>>
    /\ peers' = FoldLeft(Register, peers, waiting)
    /\ waiting' = <<>>
    /\ UNCHANGED <<callVars, acceptVars>>

Leave(p) ==
    /\ Alive
    /\ peers' = peers \ {p}
    /\ UNCHANGED <<waiting, callVars, acceptVars>>

\* Reactor::stop deletes the connections that it observes without a word; the
\* acceptor, that has no other torrent, stops too.  What waits stays.
StopSwarm(kept) ==
    /\ Alive
    /\ kept \subseteq {c \in attempts : c.stage = "opening"}
    /\ attempts' = kept
    /\ dropped' = dropped \cup {c.address : c \in attempts \ kept}
    /\ peers' = {}
    /\ callers' = [i \in Incoming |-> IF callers[i] = "away" THEN "away" ELSE "closed"]
    /\ UNCHANGED <<book, surprised, abort, waiting, buffer, discovered>>

----------------------------------------------------------------------------
Contact == [who : Addresses \cup Incoming, id : {IdOf[who] : who \in DOMAIN IdOf} \cup {NoId}]

\* Types.
SwarmTypeOK ==
    /\ book \in [Addresses -> [state : {"unknown", "idle", "connecting"},
                               retries : 0..MaxRetries-1, due : BOOLEAN]]
    /\ attempts \subseteq [address : Addresses, stage : {"opening", "open"}]
    /\ waiting \in Seq(Contact) /\ peers \subseteq Contact
    /\ callers \in [Incoming -> {"away", "accepted", "half", "closed"}]
    /\ buffer \in Seq([from : Incoming, part : {"hash", "otherHash", "id"}])
    /\ discovered \in BOOLEAN
    /\ abort \in {"no", "assert", "iterator"}
    /\ dropped \subseteq Addresses /\ surprised \in BOOLEAN
=============================================================================

------------------------------ MODULE Sockets ------------------------------
(***************************************************************************)
(* What becomes of a file descriptor: BootstrapConnection, the acceptor    *)
(* and CommandTask make sockets of them, Reactor keeps the sockets, and a  *)
(* handshake is handed on with a duplicate.  The reactor is a record, and  *)
(* what is done to it an operator from one such record to the next; one    *)
(* reactor has the connections of a torrent and of the acceptor here.      *)
(***************************************************************************)
EXTENDS Integers, Sequences, FiniteSets, SequencesExt, FiniteSetsExt, TLC

CONSTANTS
    Descriptors,    \* how many the process can have open
    Deeds           \* bound: how many things happen

ASSUME SocketsAssumption == {Descriptors, Deeds} \subseteq Nat \ {0}

Without(f, x) == [y \in DOMAIN f \ {x} |-> f[y]]
Lowest(used)  == Min((0..Cardinality(used)) \ used)

NewReactor ==
    [up       |-> "off",    \* on, told to stop or off: thread_ and bailout_
     files    |-> <<>>,     \* the open descriptors, and the connection behind each
     sockets  |-> <<>>,     \* those that exist
     waiting  |-> <<>>,     \* waitingSockets_
     observed |-> <<>>,     \* observedSockets_
     watched  |-> {},       \* what epoll knows
     clones   |-> <<>>,     \* descriptors in waitingPeers_; -1 when there was none left
     orphans  |-> {},       \* sockets that observe() would not have
     wrong    |-> {}]       \* history: what should not happen, and attempts nobody hears of

----------------------------------------------------------------------------
\* The kernel.  epoll forgets a connection with the last of its descriptors only.

Exhausted(r) == Cardinality(DOMAIN r.files) >= Descriptors
Opened(r, connection) == [r EXCEPT !.files = @ @@ (Lowest(DOMAIN @) :> connection)]
Connected(r)   == Opened(r, Lowest({r.files[fd] : fd \in DOMAIN r.files}))
Descriptor(r)  == Lowest(DOMAIN r.files)
CloseFile(r, fd) ==
    IF fd \notin DOMAIN r.files THEN [r EXCEPT !.wrong = @ \cup {"closed twice"}]
    ELSE LET files == Without(r.files, fd)
         IN  [r EXCEPT !.files = files,
                       !.watched = {w \in @ : w.connection \in {files[f] : f \in DOMAIN files}}]

----------------------------------------------------------------------------
\* Socket.

NewSocket(r, fd, kind) ==
    [r EXCEPT !.sockets = @ @@ (Lowest(DOMAIN @ \cup {w.socket : w \in r.watched}) :>
                                    [fd |-> fd, kind |-> kind, closed |-> FALSE, told |-> FALSE])]
Newest(r, before) == CHOOSE x \in DOMAIN r.sockets : x \notin DOMAIN before.sockets

\* The destructor closes the descriptor; an attempt to connect that ends so without the
\* error handler is remembered.
DeleteSocket(r, x, why) ==
    LET socket == r.sockets[x]
    IN  [CloseFile(r, socket.fd) EXCEPT
            !.sockets = Without(@, x),
            !.wrong = IF socket.kind = "opening" /\ ~socket.told THEN @ \cup {why} ELSE @]

Close(r, x) == [r EXCEPT !.sockets[x].closed = TRUE]

CloneFd(r, x) ==
    IF Exhausted(r) THEN [r EXCEPT !.clones = Append(@, -1)]
    ELSE [Opened(r, r.files[r.sockets[x].fd]) EXCEPT !.clones = Append(@, Descriptor(r))]

\* BootstrapConnection::Private::shutdown; the other middlewares do nothing.
Shutdown(r, x) ==
    IF r.sockets[x].kind = "opening" THEN [r EXCEPT !.sockets[x].told = TRUE] ELSE r

----------------------------------------------------------------------------
\* Reactor.

EnqueueSocket(r, x) ==
    IF r.sockets[x].fd \in DOMAIN r.observed
    THEN [r EXCEPT !.orphans = @ \cup {x}, !.wrong = @ \cup {"refused"}]
    ELSE [r EXCEPT !.waiting = Append(@, x)]

\* Nobody looks at what it returns.
Observe(r, x) ==
    IF r.up = "on" THEN EnqueueSocket(r, x)
    ELSE [r EXCEPT !.orphans = @ \cup {x},
                   !.wrong = IF r.sockets[x].kind = "opening" THEN @ \cup {"late"} ELSE @]

Watch(r, x) ==
    [r EXCEPT !.observed = @ @@ (r.sockets[x].fd :> x),
              !.watched = @ \cup {[fd |-> r.sockets[x].fd, socket |-> x,
                                   connection |-> r.files[r.sockets[x].fd]]}]

\* observe() of each; what epoll will not take is deleted.
ObserveNewSockets(r, taken) ==
    [FoldLeft(LAMBDA now, x :
                 IF taken /\ now.sockets[x].fd \notin DOMAIN now.observed THEN Watch(now, x)
                 ELSE DeleteSocket(now, x, "epoll"),
              r, r.waiting) EXCEPT !.waiting = <<>>]

Unobserve(r, x) ==
    [r EXCEPT !.watched = {w \in @ : w.fd # r.sockets[x].fd
                                        \/ w.connection # r.files[r.sockets[x].fd]}]

\* The end of pulse() for a socket that was closed or hung up.
Purge(r, x) ==
    LET gone == [Unobserve(r, x) EXCEPT !.observed = Without(@, r.sockets[x].fd)]
    IN  DeleteSocket(Shutdown(gone, x), x, "purge")

\* stop(), after the thread has ended: what waits stays.
StopReactor(r) ==
    [FoldSet(LAMBDA fd, now : DeleteSocket(now, r.observed[fd], "stop"), r, DOMAIN r.observed)
        EXCEPT !.up = "off", !.observed = <<>>]

----------------------------------------------------------------------------
\* BootstrapConnection: what its setters put together, and initiate(), which calls the
\* error handler whenever it makes no socket.  The reactor may be told to stop while the
\* name is looked up.

NewConnection == [host |-> "", service |-> "", reactor |-> FALSE]
WithEndpoint(c, host, service) == [c EXCEPT !.host = host, !.service = service]
WithReactor(c) == [c EXCEPT !.reactor = TRUE]

Initiate(r, c, fate) ==
    IF "" \in {c.host, c.service} \/ ~c.reactor \/ r.up # "on" THEN r
    ELSE IF fate = "unresolved" \/ Exhausted(r) THEN r
    ELSE IF fate \in {"blocking", "refused"} THEN CloseFile(Connected(r), Descriptor(r))
    ELSE LET made == NewSocket(Connected(r), Descriptor(r), "opening")
             then == IF fate = "stopped" THEN [made EXCEPT !.up = "stopping"] ELSE made
         IN  Observe(then, Newest(made, r))

\* write(), whenever the socket can be written: the input middleware takes over, this
\* output middleware stays, and an error is reported each time.
WriteBootstrap(r, x, error) ==
    IF error THEN Close([r EXCEPT !.sockets[x].told = TRUE], x)
    ELSE [r EXCEPT !.sockets[x].kind = "open"]

----------------------------------------------------------------------------
\* The acceptor.

\* start(): the reactor runs even if there is nothing to listen on.
StartAcceptor(r, fate) ==
    LET on == [r EXCEPT !.up = "on"]
    IN  IF Exhausted(r) THEN on
        ELSE IF fate # "listens" THEN CloseFile(Connected(on), Descriptor(on))
        ELSE LET made == NewSocket(Connected(on), Descriptor(on), "listening")
             IN  Observe(made, Newest(made, on))

Demultiplex(r, fd) == LET made == NewSocket(r, fd, "caller") IN Observe(made, Newest(made, r))

\* AcceptorMiddleware::receive for one that calls; willAccept() looks at the limits.
AcceptCaller(r, willAccept) ==
    IF Exhausted(r) THEN r
    ELSE IF willAccept THEN Demultiplex(Connected(r), Descriptor(r))
    ELSE CloseFile(Connected(r), Descriptor(r))

----------------------------------------------------------------------------
\* Handshakes.

\* HandshakeNegotiator::receive when the handshake is complete.
Shaken(r, x) == Close(CloneFd(r, x), x)

\* CommandTask::reconfigurePeer, and the acceptor's when it is not to hand it on.
ReconfigureClone(r, known) ==
    LET fd   == Head(r.clones)
        rest == [r EXCEPT !.clones = Tail(@)]
        made == NewSocket(rest, fd, "peer")
    IN  IF known THEN IF fd = -1 THEN rest ELSE CloseFile(rest, fd)
        ELSE IF fd = -1 THEN [rest EXCEPT !.up = "ended"]       \* the assert of Socket
        ELSE Observe(made, Newest(made, rest))

----------------------------------------------------------------------------
\* A socket in pulse(): written, read and perhaps purged.

ReadSocket(r, x, does) ==
    CASE does = "nothing" -> r
      [] does = "close"   -> Close(r, x)
      [] does = "shake"   -> Shaken(r, x)
      [] does = "accept"  -> AcceptCaller(r, TRUE)
      [] does = "decline" -> AcceptCaller(r, FALSE)

Readings(kind) ==
    CASE kind = "opening"   -> {"nothing"}
      [] kind = "listening" -> {"accept", "decline"}
      [] kind = "peer"      -> {"nothing", "close"}
      [] OTHER              -> {"nothing", "close", "shake"}

PulseSocket(r, w, hungUp, error, does) ==
    LET x       == w.socket
        bootstrap == ~hungUp /\ r.sockets[x].kind \in {"opening", "open"}
        written == IF bootstrap THEN WriteBootstrap(r, x, error) ELSE r
        read    == IF does \in Readings(written.sockets[x].kind) THEN ReadSocket(written, x, does)
                   ELSE written
    IN  IF x \notin DOMAIN r.sockets THEN [r EXCEPT !.wrong = @ \cup {"dangling"}]
        ELSE IF hungUp \/ read.sockets[x].closed THEN Purge(read, x) ELSE read

----------------------------------------------------------------------------
\* TcpSocket::send: the system takes some bytes, again and again, until it has all of
\* them or would block (0) or fails (-1); the answer is how many, or -1.
SendBytes(size, taken) ==
    LET Sum(n)  == FoldLeft(+, 0, SubSeq(taken, 1, n))
        refusal == {n \in DOMAIN taken : taken[n] <= 0}
    IN  IF refusal = {} THEN size
        ELSE IF taken[Min(refusal)] = 0 THEN Sum(Min(refusal) - 1) ELSE -1

\* receive: what came, and its length; an end of the stream is nothing.
ReceiveBytes(buffer, received) ==
    IF received.error THEN [buffer |-> buffer, result |-> -1]
    ELSE [buffer |-> buffer \o received.data, result |-> Len(received.data)]

\* HostAddress: the bytes of a sockaddr, the family first, and how many count.
Invalid == [bytes |-> <<0, 0, 0, 0>>, size |-> 0]
HostAddress(sockaddr) ==
    CASE sockaddr[1] = 2  -> [bytes |-> SubSeq(sockaddr, 1, 3) \o <<0>>, size |-> 3]
      [] sockaddr[1] = 10 -> [bytes |-> sockaddr, size |-> 4]
      [] OTHER            -> Invalid
ValidHost(a) == a.size # 0

\* memcmp: below zero, zero or above.
Compare(a, b) ==
    LET differ == {i \in 1..a.size : a.bytes[i] # b.bytes[i]}
    IN  IF differ = {} THEN 0 ELSE a.bytes[Min(differ)] - b.bytes[Min(differ)]
AddressLess(a, b)    == Compare(a, b) < 0
AddressGreater(a, b) == Compare(a, b) > 0
AddressEqual(a, b)   == Compare(a, b) = 0

----------------------------------------------------------------------------
\* Properties.

Fates == {"made", "stopped", "unresolved", "blocking", "refused"}
Doings == {"nothing", "close", "shake", "accept", "decline"}

\* What may happen to a reactor next.  The thread of one that was told to stop ends its
\* turn first.
After(r) ==
    (IF r.up \notin {"on", "stopping"} THEN {}
     ELSE {ReconfigureClone(r, known) : known \in IF r.clones = <<>> THEN {} ELSE BOOLEAN}
          \cup {ObserveNewSockets(r, taken) : taken \in IF r.waiting = <<>> THEN {} ELSE BOOLEAN}
          \cup {PulseSocket(r, w, hungUp, error, does) :
                  w \in r.watched, hungUp \in BOOLEAN, error \in BOOLEAN, does \in Doings})
    \cup (IF r.up = "on" THEN {[r EXCEPT !.up = "stopping"]} ELSE {})
    \cup (IF r.up = "on" THEN {Initiate(r, WithReactor(WithEndpoint(NewConnection, "peer", "80")), fate) :
                                 fate \in Fates} ELSE {})
    \cup (IF r.up = "stopping" THEN {StopReactor(r)} ELSE {})
    \cup (IF r.up = "off" THEN {StartAcceptor(r, fate) : fate \in {"listens", "bind"}} ELSE {})

Reached[n \in 0..Deeds] ==
    IF n = 0 THEN {NewReactor}
    ELSE Reached[n - 1] \cup UNION {After(r) : r \in Reached[n - 1]}

\* Each open descriptor has one owner, that will close it; nothing is closed twice; epoll
\* names sockets that exist; an attempt to connect that fails is reported unless the
\* reactor stops or epoll refuses it; only a stop makes orphans.
Kept(r) ==
    LET used   == {r.sockets[x].fd : x \in DOMAIN r.sockets}
        cloned == ToSet(r.clones) \ {-1}
    IN  /\ DOMAIN r.files = used \cup cloned /\ used \cap cloned = {}
        /\ Cardinality(used) = Cardinality(DOMAIN r.sockets)
        /\ DOMAIN r.sockets = {r.observed[fd] : fd \in DOMAIN r.observed} \cup
                              ToSet(r.waiting) \cup r.orphans
        /\ \A fd \in DOMAIN r.observed : r.sockets[r.observed[fd]].fd = fd
        /\ r.up # "off" => {w.socket : w \in r.watched} = {r.observed[fd] : fd \in DOMAIN r.observed}
        /\ r.up = "off" => r.watched = {}
        /\ r.wrong \subseteq {"stop", "epoll", "late"}

DescriptorsKept == \A r \in Reached[Deeds] : Kept(r)

\* Addresses of both families are in one order, in which an address is found where it was
\* put (knownPeers_), as long as none of them is invalid.
Sockaddrs == {<<2, m, n, 0>> : m, n \in 0..2} \cup {<<10, m, 0, n>> : m, n \in 0..2} \cup {<<1, 1, 1, 1>>}
AddressesOrdered ==
    LET hosts == {h \in {HostAddress(a) : a \in Sockaddrs} : ValidHost(h)}
    IN  /\ \A a, b \in hosts :
              /\ AddressEqual(a, b) = (a = b) /\ AddressLess(a, b) = AddressGreater(b, a)
              /\ a # b => AddressLess(a, b) # AddressLess(b, a)
        /\ \A a, b, c \in hosts : AddressLess(a, b) /\ AddressLess(b, c) => AddressLess(a, c)

\* TcpSocket never says that more was sent or received than was.
BytesCounted ==
    /\ \A taken \in [1..3 -> -1..2], last \in 1..2 :
          LET size == FoldLeft(LAMBDA sum, n : sum + IF n > 0 THEN n ELSE 0, last, taken)
              sent == SendBytes(size, Append(taken, last))
          IN  sent <= size /\ (sent = size) = (\A n \in DOMAIN taken : taken[n] > 0)
    /\ \A data \in {<<>>, <<1>>, <<1, 2>>}, error \in BOOLEAN :
          LET got == ReceiveBytes(<<9>>, [data |-> data, error |-> error])
          IN  Len(got.buffer) = 1 + (IF got.result > 0 THEN got.result ELSE 0)

SocketsRight == DescriptorsKept /\ AddressesOrdered /\ BytesCounted
=============================================================================

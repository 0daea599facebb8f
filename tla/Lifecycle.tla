----------------------------- MODULE Lifecycle -----------------------------
(***************************************************************************)
(* Starting, stopping and configuring torrents: GlobalTorrentRegistry, the *)
(* reactor of each torrent and that of the acceptor, CommandTask and       *)
(* TorrentConfiguration, as threads that take each other's locks.  A step  *)
(* is what a thread does between two places where it may have to wait.     *)
(***************************************************************************)
EXTENDS Clock, Sockets

CONSTANTS
    Torrents,       \* a torrent stands for its reactor's thread too
    Gui, Acceptor,  \* the two other threads
    Nobody

Threads == Torrents \cup {Gui, Acceptor}

ASSUME LifecycleAssumption ==
    /\ Gui # Acceptor /\ {Gui, Acceptor} \cap Torrents = {}
    /\ Nobody \notin Threads

VARIABLES
    torrents,       \* torrents_
    prepared,       \* torrents whose tasks were created
    thread,         \* what each thread does, for which torrent and where it waits
    registry,       \* owners of the locks: anchor_ of GlobalTorrentRegistry,
    map,            \* mapLock_ of the acceptor's NegotiatorMiddleware,
    command,        \* anchor_ of each CommandTask
    configuration,  \* and anchor_ of each TorrentConfiguration
    bailout,        \* reactors that are told to stop
    registered,     \* torrentMap_
    listening,      \* the acceptor has its socket
    changed,        \* resetRateLimits_, resetScheduledPiecesMask_
    failed,         \* torrents with a WriteFailure in ioResults_
    ended,          \* the program ended
    refused         \* history: the acceptor could not bind since it was last stopped

registryVars == <<torrents, prepared, listening, refused>>
lockVars     == <<registry, map, command, configuration>>
reactorVars  == <<bailout, registered>>
commandVars  == <<changed, failed>>
steps == <<thread, ended>>
vars == <<registryVars, thread, lockVars, reactorVars, commandVars, ended>>

Off(x)  == [does |-> "nothing", for |-> x, at |-> "off"]
Idle(x) == [does |-> "nothing", for |-> x, at |-> "loop"]

Init ==
    /\ torrents = {} /\ prepared = {}
    /\ thread = [x \in Threads |-> IF x = Gui THEN Idle(x) ELSE Off(x)]
    /\ registry = Nobody /\ map = Nobody
    /\ command = [t \in Torrents |-> Nobody]
    /\ configuration = [t \in Torrents |-> Nobody]
    /\ bailout = Torrents \cup {Acceptor}
    /\ registered = {} /\ listening = FALSE
    /\ changed = Torrents /\ failed = {}
    /\ ended = FALSE /\ refused = FALSE

\* Reactor::running(): a thread that was not told to stop.
Running(x) == thread[x].at # "off" /\ x \notin bailout

IsAt(x, does, at) == ~ended /\ thread[x].does = does /\ thread[x].at = at
Goes(x, at)  == thread' = [thread EXCEPT ![x].at = at]
Rests(x)     == thread' = [thread EXCEPT ![x] = Idle(x)]
Does(x, does, t, at) == thread' = [thread EXCEPT ![x] = [does |-> does, for |-> t, at |-> at]]

----------------------------------------------------------------------------
\* The user.

CreateTorrent(t) ==
    /\ ~ended /\ thread[Gui] = Idle(Gui) /\ registry = Nobody
    /\ torrents' = torrents \cup {t}
    /\ UNCHANGED <<prepared, listening, refused, thread, lockVars, reactorVars, commandVars, ended>>

Call(does, t) ==
    /\ ~ended /\ thread[Gui] = Idle(Gui)
    /\ Does(Gui, does, t, IF does = "configure" THEN "configuration" ELSE "registry")
    /\ UNCHANGED <<registryVars, lockVars, reactorVars, commandVars, ended>>

\* startTorrent up to the acceptor's lock.  AcceptorService::start starts its reactor
\* first and leaves it running when it cannot bind.
StartTorrent(t, binds) ==
    LET starts == ~Running(Acceptor)
    IN  /\ IsAt(Gui, "start", "registry") /\ thread[Gui].for = t /\ registry = Nobody
        /\ IF t \notin torrents
           THEN Rests(Gui) /\ UNCHANGED <<prepared, listening, refused, registry, bailout>>
           ELSE /\ bailout' = bailout \ ({Acceptor} \cup IF starts /\ ~binds THEN {} ELSE {t})
                /\ listening' = IF starts THEN binds ELSE listening
                /\ refused' = (refused \/ (starts /\ ~binds))
                /\ IF (starts /\ ~binds) \/ Running(t)
                   THEN /\ thread' = [thread EXCEPT ![Gui] = Idle(Gui),
                                        ![Acceptor] = IF starts THEN Idle(Acceptor) ELSE @]
                        /\ UNCHANGED <<prepared, registry>>
                   ELSE /\ thread' = [thread EXCEPT ![Gui].at = "map", ![t] = Idle(t),
                                        ![Acceptor] = IF starts THEN Idle(Acceptor) ELSE @]
                        /\ prepared' = prepared \cup {t}
                        /\ registry' = Gui
        /\ UNCHANGED <<torrents, map, command, configuration, registered, commandVars, ended>>

\* acceptTorrentConnections, the end of startTorrent.
AcceptTorrentConnections ==
    /\ IsAt(Gui, "start", "map") /\ map = Nobody
    /\ registered' = registered \cup {thread[Gui].for}
    /\ registry' = Nobody
    /\ Rests(Gui)
    /\ UNCHANGED <<registryVars, map, command, configuration, bailout, commandVars, ended>>

\* stopTorrent, called by the user or by the torrent's own command task.
StopTorrent(x) ==
    LET t == thread[x].for
    IN  /\ IsAt(x, "stop", "registry") /\ registry = Nobody
        /\ IF t \in torrents /\ Running(t)
           THEN registry' = x /\ Goes(x, "map")
           ELSE /\ IF x = Gui THEN Rests(x) ELSE Goes(x, "results")
                /\ UNCHANGED registry
        /\ UNCHANGED <<registryVars, map, command, configuration, reactorVars, commandVars, ended>>

\* Mutant: the thread is not told to stop.
RejectAndWait(x) ==
    /\ IsAt(x, "stop", "map") /\ map = Nobody
    /\ registered' = registered \ {thread[x].for}
    /\ Goes(x, "thread")
    /\ UNCHANGED <<registryVars, lockVars, bailout, commandVars, ended>>

\* rejectTorrentConnections, and Reactor::stop up to the join.
RejectTorrentConnections(x) ==
    /\ IsAt(x, "stop", "map") /\ map = Nobody
    /\ registered' = registered \ {thread[x].for}
    /\ bailout' = bailout \cup {thread[x].for}
    /\ Goes(x, "thread")
    /\ UNCHANGED <<registryVars, lockVars, commandVars, ended>>

\* Mutant: the acceptor is stopped with any torrent.
JoinAndStopAcceptor ==
    /\ IsAt(Gui, "stop", "thread") /\ thread[thread[Gui].for].at = "ended"
    /\ thread' = [thread EXCEPT ![thread[Gui].for] = Off(thread[Gui].for), ![Gui].at = "acceptor"]
    /\ bailout' = bailout \cup {Acceptor}
    /\ UNCHANGED <<registryVars, lockVars, registered, commandVars, ended>>

\* Reactor::stop after the thread has ended; the acceptor stops with the last torrent.
Join ==
    LET t == thread[Gui].for
    IN  /\ IsAt(Gui, "stop", "thread") /\ thread[t].at = "ended"
        /\ IF registered = {} /\ Running(Acceptor)
           THEN /\ thread' = [thread EXCEPT ![t] = Off(t), ![Gui].at = "acceptor"]
                /\ bailout' = bailout \cup {Acceptor}
                /\ UNCHANGED registry
           ELSE /\ thread' = [thread EXCEPT ![t] = Off(t), ![Gui] = Idle(Gui)]
                /\ registry' = Nobody
                /\ UNCHANGED bailout
        /\ UNCHANGED <<registryVars, map, command, configuration, registered, commandVars, ended>>

\* The listening socket is deleted with the sockets of the acceptor's reactor.
JoinAcceptor ==
    /\ IsAt(Gui, "stop", "acceptor") /\ thread[Acceptor].at = "ended"
    /\ thread' = [thread EXCEPT ![Acceptor] = Off(Acceptor), ![Gui] = Idle(Gui)]
    /\ registry' = Nobody
    /\ listening' = FALSE /\ refused' = FALSE
    /\ UNCHANGED <<torrents, prepared, map, command, configuration, reactorVars, commandVars, ended>>

\* The thread would wait for itself: join() throws, nobody catches it.
JoinItself(t) ==
    /\ IsAt(t, "stop", "thread")
    /\ ended' = TRUE
    /\ UNCHANGED <<registryVars, thread, lockVars, reactorVars, commandVars>>

\* deleteTorrent up to stopTorrent, which takes the lock again.
DeleteTorrent ==
    /\ IsAt(Gui, "delete", "registry") /\ registry = Nobody
    /\ IF thread[Gui].for \in torrents
       THEN registry' = Gui /\ thread' = [thread EXCEPT ![Gui].does = "stop"]
       ELSE Rests(Gui) /\ UNCHANGED registry
    /\ UNCHANGED <<registryVars, map, command, configuration, reactorVars, commandVars, ended>>

\* A setter of TorrentConfiguration, and the signal that it sends under its lock to
\* the command task, which exists once the torrent was started.
Configure ==
    LET t == thread[Gui].for
    IN  /\ IsAt(Gui, "configure", "configuration") /\ configuration[t] = Nobody
        /\ IF t \in prepared
           THEN configuration' = [configuration EXCEPT ![t] = Gui] /\ Goes(Gui, "command")
           ELSE Rests(Gui) /\ UNCHANGED configuration
        /\ UNCHANGED <<registryVars, registry, map, command, reactorVars, commandVars, ended>>

\* Mutant: the setter keeps its lock.
NotifyChangedLocked ==
    LET t == thread[Gui].for
    IN  /\ IsAt(Gui, "configure", "command") /\ command[t] = Nobody
        /\ changed' = changed \cup {t}
        /\ Rests(Gui)
        /\ UNCHANGED <<registryVars, lockVars, reactorVars, failed, ended>>

NotifyChanged ==
    LET t == thread[Gui].for
    IN  /\ IsAt(Gui, "configure", "command") /\ command[t] = Nobody
        /\ changed' = changed \cup {t}
        /\ configuration' = [configuration EXCEPT ![t] = Nobody]
        /\ Rests(Gui)
        /\ UNCHANGED <<registryVars, registry, map, command, reactorVars, failed, ended>>

----------------------------------------------------------------------------
\* The reactor of a torrent.

\* A round of the command task begins, or the initiator has shaken hands.
Turn(t, does) ==
    /\ ~ended /\ Running(t) /\ thread[t] = Idle(t)
    /\ Does(t, does, t, "command")
    /\ UNCHANGED <<registryVars, lockVars, reactorVars, commandVars, ended>>

\* CommandTask::execute, up to the first thing that it reads of the configuration.
Execute(t) ==
    /\ IsAt(t, "round", "command") /\ command[t] = Nobody
    /\ command' = [command EXCEPT ![t] = t]
    /\ Goes(t, IF t \in changed THEN "configuration" ELSE "results")
    /\ UNCHANGED <<registryVars, registry, map, configuration, reactorVars, commandVars, ended>>

ReadConfiguration(t) ==
    /\ IsAt(t, "round", "configuration") /\ configuration[t] = Nobody
    /\ changed' = changed \ {t}
    /\ Goes(t, "results")
    /\ UNCHANGED <<registryVars, lockVars, reactorVars, failed, ended>>

\* Mutant: a peer is handed on from inside the round.
FinishRoundHandingOn(t) ==
    /\ ~ended /\ thread[t].at = "results"
    /\ Does(t, "peer", t, "command")
    /\ UNCHANGED <<registryVars, lockVars, reactorVars, commandVars, ended>>

\* processIoResults and the waiting peers; the torrent with a failed write stops.
FinishRound(t) ==
    /\ ~ended /\ thread[t].at = "results"
    /\ IF t \in failed /\ thread[t].does = "round"
       THEN Does(t, "stop", t, "registry") /\ UNCHANGED <<command, failed>>
       ELSE /\ command' = [command EXCEPT ![t] = Nobody]
            /\ failed' = failed \ {t}
            /\ Rests(t)
    /\ UNCHANGED <<registryVars, registry, map, configuration, reactorVars, changed, ended>>

\* notifyPeerConnected of the torrent's own thread.
HandOn(t) ==
    /\ IsAt(t, "peer", "command") /\ command[t] = Nobody
    /\ Rests(t)
    /\ UNCHANGED <<registryVars, lockVars, reactorVars, commandVars, ended>>

\* The loop of a reactor sees bailout_ and its thread ends.
End(x) ==
    /\ ~ended /\ x \in bailout /\ thread[x] = Idle(x)
    /\ Goes(x, "ended")
    /\ UNCHANGED <<registryVars, lockVars, reactorVars, commandVars, ended>>

\* The DiskIo thread reports a failed write (notifyWriteFailure).
WriteFailure(t) ==
    /\ ~ended /\ t \in prepared \ failed /\ command[t] = Nobody
    /\ failed' = failed \cup {t}
    /\ UNCHANGED <<registryVars, thread, lockVars, reactorVars, changed, ended>>

----------------------------------------------------------------------------
\* The acceptor: processInfoHash and reconfigurePeer for a torrent.

Incoming(does, t) ==
    /\ ~ended /\ Running(Acceptor) /\ listening /\ thread[Acceptor] = Idle(Acceptor)
    /\ Does(Acceptor, does, t, "map")
    /\ UNCHANGED <<registryVars, lockVars, reactorVars, commandVars, ended>>

FindTorrent ==
    LET t == thread[Acceptor].for
    IN  /\ ~ended /\ thread[Acceptor].at = "map" /\ map = Nobody
        /\ IF t \in registered
           THEN /\ map' = Acceptor
                /\ Goes(Acceptor, IF thread[Acceptor].does = "hash" THEN "configuration" ELSE "command")
           ELSE Rests(Acceptor) /\ UNCHANGED map
        /\ UNCHANGED <<registryVars, registry, command, configuration, reactorVars, commandVars, ended>>

\* The limit of connections is read, or the peer is handed on (notifyPeerConnected).
LeaveMap ==
    LET t == thread[Acceptor].for
    IN  /\ \/ IsAt(Acceptor, "hash", "configuration") /\ configuration[t] = Nobody
           \/ IsAt(Acceptor, "peer", "command") /\ command[t] = Nobody
        /\ map' = Nobody
        /\ Rests(Acceptor)
        /\ UNCHANGED <<registryVars, registry, command, configuration, reactorVars, commandVars, ended>>

----------------------------------------------------------------------------
GuiStep ==
    \/ \E t \in Torrents, binds \in BOOLEAN : StartTorrent(t, binds)
    \/ AcceptTorrentConnections
    \/ StopTorrent(Gui) \/ RejectTorrentConnections(Gui) \/ Join \/ JoinAcceptor
    \/ DeleteTorrent
    \/ Configure \/ NotifyChanged

ReactorStep(t) ==
    \/ Execute(t) \/ ReadConfiguration(t) \/ FinishRound(t) \/ HandOn(t)
    \/ StopTorrent(t) \/ RejectTorrentConnections(t) \/ JoinItself(t)
    \/ End(t)

AcceptorStep == FindTorrent \/ LeaveMap \/ End(Acceptor)

Environment ==
    \/ \E t \in Torrents :
         \/ CreateTorrent(t)
         \/ \E does \in {"start", "stop", "delete", "configure"} : Call(does, t)
         \/ \E does \in {"round", "peer"} : Turn(t, does)
         \/ WriteFailure(t)
         \/ \E does \in {"hash", "peer"} : Incoming(does, t)

Next == GuiStep \/ (\E t \in Torrents : ReactorStep(t)) \/ AcceptorStep \/ Environment

\* A thread that can go on does.  A lock that is free again and again is got in the
\* end: those that take it again and again, the rounds and the incoming connections,
\* come from loops that sleep for most of their time.
Spec ==
    /\ Init /\ [][Next]_vars
    /\ SF_steps(GuiStep) /\ SF_steps(AcceptorStep)
    /\ \A t \in Torrents : SF_steps(ReactorStep(t))

----------------------------------------------------------------------------
\* The thread that x waits for; waiting for itself ends the program at once.
WaitsFor(x) ==
    LET t == thread[x].for
    IN  CASE thread[x].at = "registry"      -> registry
          [] thread[x].at = "map"           -> map
          [] thread[x].at = "command"       -> command[t]
          [] thread[x].at = "configuration" -> configuration[t]
          [] thread[x].at = "thread"        -> IF x = t THEN Nobody ELSE t
          [] thread[x].at = "acceptor"      -> Acceptor
          [] OTHER -> Nobody

\* Threads that wait for each other.
Stalled(group) == group # {} /\ \A x \in group : WaitsFor(x) \in group
Stall == \E group \in SUBSET Threads : Stalled(group)

Owners == Threads \cup {Nobody}

\* Types; and a lock is held by a thread that is in the middle of something.
TypeOK ==
    /\ torrents \subseteq Torrents /\ prepared \subseteq torrents
    /\ thread \in [Threads ->
         [does : {"nothing", "start", "stop", "delete", "configure", "round", "peer", "hash"},
          for : Threads,
          at : {"off", "loop", "ended", "results", "registry", "map", "command", "configuration",
                "thread", "acceptor"}]]
    /\ registry \in Owners /\ map \in Owners
    /\ command \in [Torrents -> Owners] /\ configuration \in [Torrents -> Owners]
    /\ bailout \subseteq Threads \ {Gui} /\ registered \subseteq prepared
    /\ changed \subseteq Torrents /\ failed \subseteq prepared
    /\ {listening, ended, refused} \subseteq BOOLEAN
    /\ \A x \in Threads : thread[x].does = "nothing" =>
         x \notin {registry, map} /\ \A t \in Torrents : x \notin {command[t], configuration[t]}

\* The threads stop for ever only in the ways named here: the user deletes a torrent;
\* the user changes the configuration of a torrent whose round reads it; or a torrent
\* that stops itself after a failed write waits for a lock of the user's call or of the
\* acceptor, which waits for the torrent.
StallsExplained ==
    \A group \in SUBSET Threads : Stalled(group) =>
        \/ WaitsFor(Gui) = Gui /\ Gui \in group
        \/ \E t \in group \cap Torrents :
             \/ thread[t].at = "configuration" /\ thread[Gui].at = "command" /\ Gui \in group
             \/ thread[t].does = "stop" /\ group \cap {Gui, Acceptor} # {}

\* While a torrent accepts connections the acceptor runs and listens, unless it could
\* not bind: then it runs without a socket until the last torrent stops.
StartedListens == registered # {} => Running(Acceptor) /\ (listening \/ refused)

\* While the reactors run, their tasks come when they are due and time counts right
\* (Reactor::eventLoop, Util::Time); and a reactor's descriptors each have one owner that
\* will close them, whatever happens to its sockets (Reactor::pulse, Socket).
ReactorsWork == (\E t \in Torrents : Running(t)) => ReactorsOnTime /\ SocketsRight

\* Every call of the user returns, unless the program ends or the threads stop for ever.
CallsReturn == thread[Gui] # Idle(Gui) ~> (thread[Gui] = Idle(Gui) \/ ended \/ Stall)
=============================================================================

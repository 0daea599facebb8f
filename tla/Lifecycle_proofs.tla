-------------------------- MODULE Lifecycle_proofs --------------------------
(***************************************************************************)
(* Who may wait for whom, for any number of torrents: the threads stop for *)
(* ever only in the ways that Lifecycle names, and a torrent that accepts  *)
(* connections has an acceptor.  Then what Clock counts and what a turn of *)
(* a reactor's loop does, for any tasks and any delays.                    *)
(***************************************************************************)
EXTENDS Lifecycle, WellFoundedInduction, TLAPS

Doing(x, does, places) == thread[x].does = does /\ thread[x].at \in places

\* Where each thread may be.
GuiControl ==
    \/ thread[Gui] = Idle(Gui)
    \/ /\ thread[Gui].for \in Torrents
       /\ \/ Doing(Gui, "start", {"registry"})
          \/ Doing(Gui, "start", {"map"}) /\ thread[Gui].for \in prepared
          \/ Doing(Gui, "stop", {"registry", "map", "thread", "acceptor"})
          \/ Doing(Gui, "delete", {"registry"})
          \/ Doing(Gui, "configure", {"configuration", "command"})

TorrentControl ==
    \A t \in Torrents :
        /\ thread[t].for = t
        /\ \/ Doing(t, "nothing", {"off", "loop", "ended"})
           \/ Doing(t, "round", {"command", "configuration", "results"})
           \/ Doing(t, "peer", {"command"})
           \/ Doing(t, "stop", {"registry", "map", "thread", "results"})

AcceptorControl ==
    \/ thread[Acceptor].for = Acceptor /\ Doing(Acceptor, "nothing", {"off", "loop", "ended"})
    \/ /\ thread[Acceptor].for \in Torrents
       /\ Doing(Acceptor, "hash", {"map", "configuration"}) \/ Doing(Acceptor, "peer", {"map", "command"})

\* Which of them holds which lock.
RegistryLock ==
    /\ thread[Gui].at \in {"map", "thread", "acceptor"} => registry = Gui
    /\ registry = Gui => thread[Gui].at \in {"map", "thread", "acceptor"} \/ Doing(Gui, "stop", {"registry"})
    /\ \A t \in Torrents : registry = t <=> Doing(t, "stop", {"map", "thread"})
    /\ registry # Acceptor

MapLock ==
    /\ map \in {Nobody, Acceptor}
    /\ map = Acceptor <=> thread[Acceptor].at \in {"configuration", "command"}

CommandLock ==
    \A t \in Torrents :
        /\ command[t] \in {Nobody, t}
        /\ command[t] = t <=> Doing(t, "round", {"configuration", "results"}) \/ thread[t].does = "stop"

ConfigurationLock ==
    \A t \in Torrents :
        /\ configuration[t] \in {Nobody, Gui}
        /\ configuration[t] = Gui <=> Doing(Gui, "configure", {"command"}) /\ thread[Gui].for = t

\* A reactor that was told to stop is gone, or somebody waits for its end.
Stopping ==
    /\ Acceptor \in bailout => thread[Acceptor].at = "off" \/ Doing(Gui, "stop", {"acceptor"})
    /\ \A t \in Torrents \cap bailout :
          \/ thread[t].at = "off"
          \/ Doing(Gui, "stop", {"thread"}) /\ thread[Gui].for = t
          \/ Doing(t, "stop", {"thread"})

\* The acceptor runs for the torrents that accept, and for the one that is about to.
Listening ==
    /\ Running(Acceptor) => listening \/ refused
    /\ registered # {} \/ Doing(Gui, "start", {"map"}) => Running(Acceptor)
    /\ Doing(Gui, "stop", {"acceptor"}) => registered = {}

Control == GuiControl /\ TorrentControl /\ AcceptorControl
Locks   == RegistryLock /\ MapLock /\ CommandLock /\ ConfigurationLock
IInv    == TypeOK /\ Control /\ Locks /\ Stopping /\ Listening

----------------------------------------------------------------------------
USE LifecycleAssumption DEF Threads, Owners, Idle, Off, Running, IsAt, Doing, Goes, Rests, Does,
    registryVars, lockVars, reactorVars, commandVars, vars

\* Every step of the user's thread keeps the invariant.
LEMMA GuiStepHolds == ASSUME IInv, GuiStep PROVE IInv'
<1> USE DEF IInv
<1>1. ASSUME NEW t \in Torrents, NEW binds \in BOOLEAN, StartTorrent(t, binds) PROVE IInv'
  <2> DEFINE starts == ~Running(Acceptor)
  <2>a. CASE thread[Gui].for \notin torrents
    <3>1. thread' = [thread EXCEPT ![Gui] = Idle(Gui)] /\ UNCHANGED <<registryVars, lockVars, reactorVars, commandVars, ended>>
       BY <1>1, <2>a DEF StartTorrent
    <3>2. TypeOK'
        BY <1>1, <3>1 DEF StartTorrent, TypeOK, GuiControl, TorrentControl, AcceptorControl,
           Control, Locks, RegistryLock, MapLock, CommandLock, ConfigurationLock
    <3>3. Control'
        BY <1>1, <3>1
           DEF StartTorrent, TypeOK, GuiControl, TorrentControl, AcceptorControl, Control
    <3>4. Locks'
        BY <1>1, <3>1 DEF StartTorrent, TypeOK, GuiControl, TorrentControl, AcceptorControl,
           RegistryLock, MapLock, CommandLock, ConfigurationLock, Control, Locks
    <3>5. Stopping'
        BY <1>1, <3>1 DEF StartTorrent, TypeOK, GuiControl, TorrentControl, AcceptorControl,
           RegistryLock, Stopping, Control, Locks
    <3>6. Listening'
        BY <1>1, <3>1 DEF StartTorrent, TypeOK, GuiControl, TorrentControl, AcceptorControl,
           RegistryLock, Stopping, Listening, Control, Locks
    <3> QED  BY <3>2, <3>3, <3>4, <3>5, <3>6
  <2>b. CASE t \in torrents /\ ((starts /\ ~binds) \/ Running(t))
    <3>1. /\ thread'[Gui] = Idle(Gui)
          /\ thread'[Acceptor] = IF starts THEN Idle(Acceptor) ELSE thread[Acceptor]
          /\ \A x \in Torrents : thread'[x] = thread[x]
      BY <1>1, <2>b DEF StartTorrent, TypeOK
    <3>2. thread' \in [Threads ->
            [does : {"nothing", "start", "stop", "delete", "configure", "round", "peer", "hash"},
             for : Threads,
             at : {"off", "loop", "ended", "results", "registry", "map", "command", "configuration",
                   "thread", "acceptor"}]]
      BY <1>1, <2>b DEF StartTorrent, TypeOK
    <3>3. /\ UNCHANGED <<torrents, prepared, lockVars, registered, commandVars, ended>>
          /\ bailout' = bailout \ ({Acceptor} \cup IF starts /\ ~binds THEN {} ELSE {t})
          /\ thread[Gui].at = "registry" /\ thread[Gui].does = "start" /\ registry = Nobody
      BY <1>1, <2>b DEF StartTorrent
    <3>4. {listening, ended, refused}' \subseteq BOOLEAN
      <4>1. listening' \in BOOLEAN  BY <1>1, <2>b DEF StartTorrent, TypeOK
      <4>2. refused' \in BOOLEAN  BY <1>1, <2>b DEF StartTorrent, TypeOK
      <4> QED  BY <3>3, <4>1, <4>2 DEF TypeOK
    <3>5. TypeOK'
        BY <3>1, <3>2, <3>3, <3>4 DEF TypeOK, GuiControl, TorrentControl, AcceptorControl,
           Control, Locks, RegistryLock, MapLock, CommandLock, ConfigurationLock, Stopping
    <3>6. Control'
        BY <3>1, <3>2, <3>3, <3>4 DEF TypeOK, GuiControl, TorrentControl, AcceptorControl, Control
    <3>7. Locks'
        BY <3>1, <3>2, <3>3, <3>4 DEF TypeOK, GuiControl, TorrentControl, AcceptorControl,
           RegistryLock, MapLock, CommandLock, ConfigurationLock, Control, Locks, Stopping
    <3>8. Stopping'
        BY <1>1, <2>b, <3>1, <3>2, <3>3, <3>4 DEF StartTorrent, TypeOK, GuiControl,
           TorrentControl, AcceptorControl, RegistryLock, Stopping, Control, Locks
    <3>9. Listening'
      <4>1. listening' \/ refused'
        <5>1. CASE starts /\ binds   BY <1>1, <2>b, <5>1 DEF StartTorrent
        <5>2. CASE starts /\ ~binds  BY <1>1, <2>b, <5>2 DEF StartTorrent
        <5>3. CASE ~starts           BY <1>1, <2>b, <5>3 DEF StartTorrent, Listening
        <5> QED  BY <5>1, <5>2, <5>3
      <4>2. Running(Acceptor)'  BY <3>1, <3>3
      <4> QED  BY <3>1, <4>1, <4>2 DEF Listening
    <3> QED  BY <3>5, <3>6, <3>7, <3>8, <3>9
  <2>c. CASE t \in torrents /\ ~((starts /\ ~binds) \/ Running(t))
    <3>1. /\ thread'[Gui] = [thread[Gui] EXCEPT !.at = "map"] /\ thread'[t] = Idle(t)
          /\ thread'[Acceptor] = IF starts THEN Idle(Acceptor) ELSE thread[Acceptor]
          /\ \A x \in Torrents \ {t} : thread'[x] = thread[x]
      BY <1>1, <2>c DEF StartTorrent, TypeOK
    <3>2. thread' \in [Threads ->
            [does : {"nothing", "start", "stop", "delete", "configure", "round", "peer", "hash"},
             for : Threads,
             at : {"off", "loop", "ended", "results", "registry", "map", "command", "configuration",
                   "thread", "acceptor"}]]
      BY <1>1, <2>c DEF StartTorrent, TypeOK
    <3>3. /\ UNCHANGED <<torrents, map, command, configuration, registered, commandVars, ended>>
          /\ bailout' = bailout \ {Acceptor, t} /\ registry' = Gui /\ prepared' = prepared \cup {t}
          /\ thread[Gui].at = "registry" /\ thread[Gui].does = "start" /\ registry = Nobody
          /\ thread[Gui].for = t /\ t \in torrents
      BY <1>1, <2>c DEF StartTorrent
    <3>4. {listening, ended, refused}' \subseteq BOOLEAN
      <4>1. listening' \in BOOLEAN  BY <1>1, <2>c DEF StartTorrent, TypeOK
      <4>2. refused' \in BOOLEAN  BY <1>1, <2>c DEF StartTorrent, TypeOK
      <4> QED  BY <3>3, <4>1, <4>2 DEF TypeOK
    <3>5. TypeOK'
        BY <2>c, <3>1, <3>2, <3>3, <3>4 DEF TypeOK, GuiControl, TorrentControl, AcceptorControl,
           Control, Locks, RegistryLock, MapLock, CommandLock, ConfigurationLock, Stopping
    <3>6. Control'
        BY <2>c, <3>1, <3>2, <3>3, <3>4
           DEF TypeOK, GuiControl, TorrentControl, AcceptorControl, Control
    <3>7. Locks'
        BY <2>c, <3>1, <3>2, <3>3, <3>4 DEF TypeOK, GuiControl, TorrentControl, AcceptorControl,
           RegistryLock, MapLock, CommandLock, ConfigurationLock, Control, Locks, Stopping
    <3>8. Stopping'
        BY <2>c, <1>1, <3>1, <3>2, <3>3, <3>4 DEF StartTorrent, TypeOK, GuiControl,
           TorrentControl, AcceptorControl, RegistryLock, Stopping, Control, Locks
    <3>9. Listening'
        BY <2>c, <1>1, <3>1, <3>2, <3>3, <3>4 DEF StartTorrent, TypeOK, GuiControl,
           TorrentControl, AcceptorControl, RegistryLock, Stopping, Listening, Control, Locks
    <3> QED  BY <3>5, <3>6, <3>7, <3>8, <3>9
  <2> QED  BY <1>1, <2>a, <2>b, <2>c DEF StartTorrent
<1>2. CASE AcceptTorrentConnections
  <2>1. TypeOK'
      BY <1>2 DEF AcceptTorrentConnections, TypeOK, GuiControl, TorrentControl, AcceptorControl,
         Control, Locks, RegistryLock, MapLock, CommandLock, ConfigurationLock
  <2>2. Control'
      BY <1>2 DEF AcceptTorrentConnections, TypeOK, GuiControl, TorrentControl, AcceptorControl,
         Control
  <2>3. Locks'
      BY <1>2 DEF AcceptTorrentConnections, TypeOK, GuiControl, TorrentControl, AcceptorControl,
         RegistryLock, MapLock, CommandLock, ConfigurationLock, Control, Locks
  <2>4. Stopping'
      BY <1>2 DEF AcceptTorrentConnections, TypeOK, GuiControl, TorrentControl, AcceptorControl,
         RegistryLock, Stopping, Control, Locks
  <2>5. Listening'
      BY <1>2 DEF AcceptTorrentConnections, TypeOK, GuiControl, TorrentControl, AcceptorControl,
         RegistryLock, Stopping, Listening, Control, Locks
  <2> QED  BY <2>1, <2>2, <2>3, <2>4, <2>5
<1>3. CASE StopTorrent(Gui)
  <2>1. TypeOK'
      BY <1>3 DEF StopTorrent, TypeOK, GuiControl, TorrentControl, AcceptorControl, Control,
         Locks, RegistryLock, MapLock, CommandLock, ConfigurationLock
  <2>2. Control'
      BY <1>3 DEF StopTorrent, TypeOK, GuiControl, TorrentControl, AcceptorControl, Control
  <2>3. Locks'
      BY <1>3 DEF StopTorrent, TypeOK, GuiControl, TorrentControl, AcceptorControl, RegistryLock,
         MapLock, CommandLock, ConfigurationLock, Control, Locks
  <2>4. Stopping'
      BY <1>3 DEF StopTorrent, TypeOK, GuiControl, TorrentControl, AcceptorControl, RegistryLock,
         Stopping, Control, Locks
  <2>5. Listening'
      BY <1>3 DEF StopTorrent, TypeOK, GuiControl, TorrentControl, AcceptorControl, RegistryLock,
         Stopping, Listening, Control, Locks
  <2> QED  BY <2>1, <2>2, <2>3, <2>4, <2>5
<1>4. CASE RejectTorrentConnections(Gui)
  <2>1. TypeOK'
      BY <1>4 DEF RejectTorrentConnections, TypeOK, GuiControl, TorrentControl, AcceptorControl,
         Control, Locks, RegistryLock, MapLock, CommandLock, ConfigurationLock
  <2>2. Control'
      BY <1>4 DEF RejectTorrentConnections, TypeOK, GuiControl, TorrentControl, AcceptorControl,
         Control
  <2>3. Locks'
      BY <1>4 DEF RejectTorrentConnections, TypeOK, GuiControl, TorrentControl, AcceptorControl,
         RegistryLock, MapLock, CommandLock, ConfigurationLock, Control, Locks
  <2>4. Stopping'
      BY <1>4 DEF RejectTorrentConnections, TypeOK, GuiControl, TorrentControl, AcceptorControl,
         RegistryLock, Stopping, Control, Locks
  <2>5. Listening'
      BY <1>4 DEF RejectTorrentConnections, TypeOK, GuiControl, TorrentControl, AcceptorControl,
         RegistryLock, Stopping, Listening, Control, Locks
  <2> QED  BY <2>1, <2>2, <2>3, <2>4, <2>5
<1>5. CASE Join
  <2>1. TypeOK'
      BY <1>5 DEF Join, TypeOK, GuiControl, TorrentControl, AcceptorControl, Control, Locks,
         RegistryLock, MapLock, CommandLock, ConfigurationLock
  <2>2. Control'  BY <1>5 DEF Join, TypeOK, GuiControl, TorrentControl, AcceptorControl, Control
  <2>3. Locks'
      BY <1>5 DEF Join, TypeOK, GuiControl, TorrentControl, AcceptorControl, RegistryLock,
         MapLock, CommandLock, ConfigurationLock, Control, Locks
  <2>4. Stopping'
      BY <1>5 DEF Join, TypeOK, GuiControl, TorrentControl, AcceptorControl, RegistryLock,
         Stopping, Control, Locks
  <2>5. Listening'
      BY <1>5 DEF Join, TypeOK, GuiControl, TorrentControl, AcceptorControl, RegistryLock,
         Stopping, Listening, Control, Locks
  <2> QED  BY <2>1, <2>2, <2>3, <2>4, <2>5
<1>6. CASE JoinAcceptor
  <2>1. TypeOK'
    <3>1. {listening, ended, refused}' \subseteq BOOLEAN  BY <1>6, Zenon DEF JoinAcceptor, TypeOK
    <3>2. thread' \in [Threads ->
            [does : {"nothing", "start", "stop", "delete", "configure", "round", "peer", "hash"},
             for : Threads,
             at : {"off", "loop", "ended", "results", "registry", "map", "command", "configuration",
                   "thread", "acceptor"}]]
      BY <1>6 DEF JoinAcceptor, TypeOK
    <3> QED
        BY <1>6, <3>1, <3>2 DEF JoinAcceptor, TypeOK, Control, AcceptorControl, Locks, MapLock,
           CommandLock, ConfigurationLock
  <2>2. Control'
      BY <1>6 DEF JoinAcceptor, TypeOK, GuiControl, TorrentControl, AcceptorControl, Control
  <2>3. Locks'
      BY <1>6 DEF JoinAcceptor, TypeOK, GuiControl, TorrentControl, AcceptorControl,
         RegistryLock, MapLock, CommandLock, ConfigurationLock, Control, Locks
  <2>4. Stopping'
      BY <1>6 DEF JoinAcceptor, TypeOK, GuiControl, TorrentControl, AcceptorControl,
         RegistryLock, Stopping, Control, Locks
  <2>5. Listening'
      BY <1>6 DEF JoinAcceptor, TypeOK, GuiControl, TorrentControl, AcceptorControl,
         RegistryLock, Stopping, Listening, Control, Locks
  <2> QED  BY <2>1, <2>2, <2>3, <2>4, <2>5
<1>7. CASE DeleteTorrent
  <2>1. TypeOK'
      BY <1>7 DEF DeleteTorrent, TypeOK, GuiControl, TorrentControl, AcceptorControl, Control,
         Locks, RegistryLock, MapLock, CommandLock, ConfigurationLock
  <2>2. Control'
      BY <1>7 DEF DeleteTorrent, TypeOK, GuiControl, TorrentControl, AcceptorControl, Control
  <2>3. Locks'
      BY <1>7 DEF DeleteTorrent, TypeOK, GuiControl, TorrentControl, AcceptorControl,
         RegistryLock, MapLock, CommandLock, ConfigurationLock, Control, Locks
  <2>4. Stopping'
      BY <1>7 DEF DeleteTorrent, TypeOK, GuiControl, TorrentControl, AcceptorControl,
         RegistryLock, Stopping, Control, Locks
  <2>5. Listening'
      BY <1>7 DEF DeleteTorrent, TypeOK, GuiControl, TorrentControl, AcceptorControl,
         RegistryLock, Stopping, Listening, Control, Locks
  <2> QED  BY <2>1, <2>2, <2>3, <2>4, <2>5
<1>8. CASE Configure
  <2>1. TypeOK'
      BY <1>8 DEF Configure, TypeOK, GuiControl, TorrentControl, AcceptorControl, Control, Locks,
         RegistryLock, MapLock, CommandLock, ConfigurationLock
  <2>2. Control'
      BY <1>8 DEF Configure, TypeOK, GuiControl, TorrentControl, AcceptorControl, Control
  <2>3. Locks'
      BY <1>8 DEF Configure, TypeOK, GuiControl, TorrentControl, AcceptorControl, RegistryLock,
         MapLock, CommandLock, ConfigurationLock, Control, Locks
  <2>4. Stopping'
      BY <1>8 DEF Configure, TypeOK, GuiControl, TorrentControl, AcceptorControl, RegistryLock,
         Stopping, Control, Locks
  <2>5. Listening'
      BY <1>8 DEF Configure, TypeOK, GuiControl, TorrentControl, AcceptorControl, RegistryLock,
         Stopping, Listening, Control, Locks
  <2> QED  BY <2>1, <2>2, <2>3, <2>4, <2>5
<1>9. CASE NotifyChanged
  <2>1. TypeOK'
      BY <1>9 DEF NotifyChanged, TypeOK, GuiControl, TorrentControl, AcceptorControl, Control,
         Locks, RegistryLock, MapLock, CommandLock, ConfigurationLock
  <2>2. Control'
      BY <1>9 DEF NotifyChanged, TypeOK, GuiControl, TorrentControl, AcceptorControl, Control
  <2>3. Locks'
      BY <1>9 DEF NotifyChanged, TypeOK, GuiControl, TorrentControl, AcceptorControl,
         RegistryLock, MapLock, CommandLock, ConfigurationLock, Control, Locks
  <2>4. Stopping'
      BY <1>9 DEF NotifyChanged, TypeOK, GuiControl, TorrentControl, AcceptorControl,
         RegistryLock, Stopping, Control, Locks
  <2>5. Listening'
      BY <1>9 DEF NotifyChanged, TypeOK, GuiControl, TorrentControl, AcceptorControl,
         RegistryLock, Stopping, Listening, Control, Locks
  <2> QED  BY <2>1, <2>2, <2>3, <2>4, <2>5
<1> QED  BY <1>1, <1>2, <1>3, <1>4, <1>5, <1>6, <1>7, <1>8, <1>9 DEF GuiStep

\* So does every step of a torrent's reactor,
LEMMA ReactorStepHolds == ASSUME IInv, NEW t \in Torrents, ReactorStep(t) PROVE IInv'
<1> USE DEF IInv
<1>1. CASE Execute(t)
  <2>1. TypeOK'
      BY <1>1 DEF Execute, TypeOK, GuiControl, TorrentControl, AcceptorControl, Control, Locks,
         RegistryLock, MapLock, CommandLock, ConfigurationLock
  <2>2. Control'
      BY <1>1 DEF Execute, TypeOK, GuiControl, TorrentControl, AcceptorControl, Control
  <2>3. Locks'
      BY <1>1 DEF Execute, TypeOK, GuiControl, TorrentControl, AcceptorControl, RegistryLock,
         MapLock, CommandLock, ConfigurationLock, Control, Locks
  <2>4. Stopping'
      BY <1>1 DEF Execute, TypeOK, GuiControl, TorrentControl, AcceptorControl, RegistryLock,
         Stopping, Control, Locks
  <2>5. Listening'
      BY <1>1 DEF Execute, TypeOK, GuiControl, TorrentControl, AcceptorControl, RegistryLock,
         Stopping, Listening, Control, Locks
  <2> QED  BY <2>1, <2>2, <2>3, <2>4, <2>5
<1>2. CASE ReadConfiguration(t)
  <2>1. TypeOK'
      BY <1>2 DEF ReadConfiguration, TypeOK, GuiControl, TorrentControl, AcceptorControl,
         Control, Locks, RegistryLock, MapLock, CommandLock, ConfigurationLock
  <2>2. Control'
      BY <1>2 DEF ReadConfiguration, TypeOK, GuiControl, TorrentControl, AcceptorControl, Control
  <2>3. Locks'
      BY <1>2 DEF ReadConfiguration, TypeOK, GuiControl, TorrentControl, AcceptorControl,
         RegistryLock, MapLock, CommandLock, ConfigurationLock, Control, Locks
  <2>4. Stopping'
      BY <1>2 DEF ReadConfiguration, TypeOK, GuiControl, TorrentControl, AcceptorControl,
         RegistryLock, Stopping, Control, Locks
  <2>5. Listening'
      BY <1>2 DEF ReadConfiguration, TypeOK, GuiControl, TorrentControl, AcceptorControl,
         RegistryLock, Stopping, Listening, Control, Locks
  <2> QED  BY <2>1, <2>2, <2>3, <2>4, <2>5
<1>3. CASE FinishRound(t)
  <2>1. TypeOK'
      BY <1>3 DEF FinishRound, TypeOK, GuiControl, TorrentControl, AcceptorControl, Control,
         Locks, RegistryLock, MapLock, CommandLock, ConfigurationLock
  <2>2. Control'
      BY <1>3 DEF FinishRound, TypeOK, GuiControl, TorrentControl, AcceptorControl, Control
  <2>3. Locks'
      BY <1>3 DEF FinishRound, TypeOK, GuiControl, TorrentControl, AcceptorControl, RegistryLock,
         MapLock, CommandLock, ConfigurationLock, Control, Locks
  <2>4. Stopping'
      BY <1>3 DEF FinishRound, TypeOK, GuiControl, TorrentControl, AcceptorControl, RegistryLock,
         Stopping, Control, Locks
  <2>5. Listening'
      BY <1>3 DEF FinishRound, TypeOK, GuiControl, TorrentControl, AcceptorControl, RegistryLock,
         Stopping, Listening, Control, Locks
  <2> QED  BY <2>1, <2>2, <2>3, <2>4, <2>5
<1>4. CASE HandOn(t)
  <2>1. TypeOK'
      BY <1>4 DEF HandOn, TypeOK, GuiControl, TorrentControl, AcceptorControl, Control, Locks,
         RegistryLock, MapLock, CommandLock, ConfigurationLock
  <2>2. Control'  BY <1>4 DEF HandOn, TypeOK, GuiControl, TorrentControl, AcceptorControl, Control
  <2>3. Locks'
      BY <1>4 DEF HandOn, TypeOK, GuiControl, TorrentControl, AcceptorControl, RegistryLock,
         MapLock, CommandLock, ConfigurationLock, Control, Locks
  <2>4. Stopping'
      BY <1>4 DEF HandOn, TypeOK, GuiControl, TorrentControl, AcceptorControl, RegistryLock,
         Stopping, Control, Locks
  <2>5. Listening'
      BY <1>4 DEF HandOn, TypeOK, GuiControl, TorrentControl, AcceptorControl, RegistryLock,
         Stopping, Listening, Control, Locks
  <2> QED  BY <2>1, <2>2, <2>3, <2>4, <2>5
<1>5. CASE StopTorrent(t)
  <2>1. TypeOK'
      BY <1>5 DEF StopTorrent, TypeOK, GuiControl, TorrentControl, AcceptorControl, Control,
         Locks, RegistryLock, MapLock, CommandLock, ConfigurationLock
  <2>2. Control'
      BY <1>5 DEF StopTorrent, TypeOK, GuiControl, TorrentControl, AcceptorControl, Control
  <2>3. Locks'
      BY <1>5 DEF StopTorrent, TypeOK, GuiControl, TorrentControl, AcceptorControl, RegistryLock,
         MapLock, CommandLock, ConfigurationLock, Control, Locks
  <2>4. Stopping'
      BY <1>5 DEF StopTorrent, TypeOK, GuiControl, TorrentControl, AcceptorControl, RegistryLock,
         Stopping, Control, Locks
  <2>5. Listening'
      BY <1>5 DEF StopTorrent, TypeOK, GuiControl, TorrentControl, AcceptorControl, RegistryLock,
         Stopping, Listening, Control, Locks
  <2> QED  BY <2>1, <2>2, <2>3, <2>4, <2>5
<1>6. CASE RejectTorrentConnections(t)
  <2>1. TypeOK'
      BY <1>6 DEF RejectTorrentConnections, TypeOK, GuiControl, TorrentControl, AcceptorControl,
         Control, Locks, RegistryLock, MapLock, CommandLock, ConfigurationLock
  <2>2. Control'
      BY <1>6 DEF RejectTorrentConnections, TypeOK, GuiControl, TorrentControl, AcceptorControl,
         Control
  <2>3. Locks'
      BY <1>6 DEF RejectTorrentConnections, TypeOK, GuiControl, TorrentControl, AcceptorControl,
         RegistryLock, MapLock, CommandLock, ConfigurationLock, Control, Locks
  <2>4. Stopping'
      BY <1>6 DEF RejectTorrentConnections, TypeOK, GuiControl, TorrentControl, AcceptorControl,
         RegistryLock, Stopping, Control, Locks
  <2>5. Listening'
      BY <1>6 DEF RejectTorrentConnections, TypeOK, GuiControl, TorrentControl, AcceptorControl,
         RegistryLock, Stopping, Listening, Control, Locks
  <2> QED  BY <2>1, <2>2, <2>3, <2>4, <2>5
<1>7. CASE JoinItself(t)
  <2>1. TypeOK'
      BY <1>7 DEF JoinItself, TypeOK, GuiControl, TorrentControl, AcceptorControl, Control,
         Locks, RegistryLock, MapLock, CommandLock, ConfigurationLock
  <2>2. Control'
      BY <1>7 DEF JoinItself, TypeOK, GuiControl, TorrentControl, AcceptorControl, Control
  <2>3. Locks'
      BY <1>7 DEF JoinItself, TypeOK, GuiControl, TorrentControl, AcceptorControl, RegistryLock,
         MapLock, CommandLock, ConfigurationLock, Control, Locks
  <2>4. Stopping'
      BY <1>7 DEF JoinItself, TypeOK, GuiControl, TorrentControl, AcceptorControl, RegistryLock,
         Stopping, Control, Locks
  <2>5. Listening'
      BY <1>7 DEF JoinItself, TypeOK, GuiControl, TorrentControl, AcceptorControl, RegistryLock,
         Stopping, Listening, Control, Locks
  <2> QED  BY <2>1, <2>2, <2>3, <2>4, <2>5
<1>8. CASE End(t)
  <2>1. TypeOK'
      BY <1>8 DEF End, TypeOK, GuiControl, TorrentControl, AcceptorControl, Control, Locks,
         RegistryLock, MapLock, CommandLock, ConfigurationLock
  <2>2. Control'  BY <1>8 DEF End, TypeOK, GuiControl, TorrentControl, AcceptorControl, Control
  <2>3. Locks'
      BY <1>8 DEF End, TypeOK, GuiControl, TorrentControl, AcceptorControl, RegistryLock,
         MapLock, CommandLock, ConfigurationLock, Control, Locks
  <2>4. Stopping'
      BY <1>8 DEF End, TypeOK, GuiControl, TorrentControl, AcceptorControl, RegistryLock,
         Stopping, Control, Locks
  <2>5. Listening'
      BY <1>8 DEF End, TypeOK, GuiControl, TorrentControl, AcceptorControl, RegistryLock,
         Stopping, Listening, Control, Locks
  <2> QED  BY <2>1, <2>2, <2>3, <2>4, <2>5
<1> QED  BY <1>1, <1>2, <1>3, <1>4, <1>5, <1>6, <1>7, <1>8 DEF ReactorStep

\* of the acceptor,
LEMMA AcceptorStepHolds == ASSUME IInv, AcceptorStep PROVE IInv'
<1> USE DEF IInv
<1>1. CASE FindTorrent
  <2>1. TypeOK'
      BY <1>1 DEF FindTorrent, TypeOK, GuiControl, TorrentControl, AcceptorControl, Control,
         Locks, RegistryLock, MapLock, CommandLock, ConfigurationLock
  <2>2. Control'
      BY <1>1 DEF FindTorrent, TypeOK, GuiControl, TorrentControl, AcceptorControl, Control
  <2>3. Locks'
      BY <1>1 DEF FindTorrent, TypeOK, GuiControl, TorrentControl, AcceptorControl, RegistryLock,
         MapLock, CommandLock, ConfigurationLock, Control, Locks
  <2>4. Stopping'
      BY <1>1 DEF FindTorrent, TypeOK, GuiControl, TorrentControl, AcceptorControl, RegistryLock,
         Stopping, Control, Locks
  <2>5. Listening'
      BY <1>1 DEF FindTorrent, TypeOK, GuiControl, TorrentControl, AcceptorControl, RegistryLock,
         Stopping, Listening, Control, Locks
  <2> QED  BY <2>1, <2>2, <2>3, <2>4, <2>5
<1>2. CASE LeaveMap
  <2>1. TypeOK'
      BY <1>2 DEF LeaveMap, TypeOK, GuiControl, TorrentControl, AcceptorControl, Control, Locks,
         RegistryLock, MapLock, CommandLock, ConfigurationLock
  <2>2. Control'
      BY <1>2 DEF LeaveMap, TypeOK, GuiControl, TorrentControl, AcceptorControl, Control
  <2>3. Locks'
      BY <1>2 DEF LeaveMap, TypeOK, GuiControl, TorrentControl, AcceptorControl, RegistryLock,
         MapLock, CommandLock, ConfigurationLock, Control, Locks
  <2>4. Stopping'
      BY <1>2 DEF LeaveMap, TypeOK, GuiControl, TorrentControl, AcceptorControl, RegistryLock,
         Stopping, Control, Locks
  <2>5. Listening'
      BY <1>2 DEF LeaveMap, TypeOK, GuiControl, TorrentControl, AcceptorControl, RegistryLock,
         Stopping, Listening, Control, Locks
  <2> QED  BY <2>1, <2>2, <2>3, <2>4, <2>5
<1>3. CASE End(Acceptor)
  <2>1. TypeOK'
      BY <1>3 DEF End, TypeOK, GuiControl, TorrentControl, AcceptorControl, Control, Locks,
         RegistryLock, MapLock, CommandLock, ConfigurationLock
  <2>2. Control'  BY <1>3 DEF End, TypeOK, GuiControl, TorrentControl, AcceptorControl, Control
  <2>3. Locks'
      BY <1>3 DEF End, TypeOK, GuiControl, TorrentControl, AcceptorControl, RegistryLock,
         MapLock, CommandLock, ConfigurationLock, Control, Locks
  <2>4. Stopping'
      BY <1>3 DEF End, TypeOK, GuiControl, TorrentControl, AcceptorControl, RegistryLock,
         Stopping, Control, Locks
  <2>5. Listening'
      BY <1>3 DEF End, TypeOK, GuiControl, TorrentControl, AcceptorControl, RegistryLock,
         Stopping, Listening, Control, Locks
  <2> QED  BY <2>1, <2>2, <2>3, <2>4, <2>5
<1> QED  BY <1>1, <1>2, <1>3 DEF AcceptorStep

\* and what begins without one of them.
LEMMA EnvironmentHolds == ASSUME IInv, Environment PROVE IInv'
<1> USE DEF IInv
<1>1. ASSUME NEW t \in Torrents, CreateTorrent(t) PROVE IInv'
  <2>1. TypeOK'
      BY <1>1 DEF CreateTorrent, TypeOK, GuiControl, TorrentControl, AcceptorControl, Control,
         Locks, RegistryLock, MapLock, CommandLock, ConfigurationLock
  <2>2. Control'
      BY <1>1 DEF CreateTorrent, TypeOK, GuiControl, TorrentControl, AcceptorControl, Control
  <2>3. Locks'
      BY <1>1 DEF CreateTorrent, TypeOK, GuiControl, TorrentControl, AcceptorControl,
         RegistryLock, MapLock, CommandLock, ConfigurationLock, Control, Locks
  <2>4. Stopping'
      BY <1>1 DEF CreateTorrent, TypeOK, GuiControl, TorrentControl, AcceptorControl,
         RegistryLock, Stopping, Control, Locks
  <2>5. Listening'
      BY <1>1 DEF CreateTorrent, TypeOK, GuiControl, TorrentControl, AcceptorControl,
         RegistryLock, Stopping, Listening, Control, Locks
  <2> QED  BY <2>1, <2>2, <2>3, <2>4, <2>5
<1>2. ASSUME NEW t \in Torrents, NEW does \in {"start", "stop", "delete", "configure"}, Call(does, t) PROVE IInv'
  <2>1. TypeOK'
      BY <1>2 DEF Call, TypeOK, GuiControl, TorrentControl, AcceptorControl, Control, Locks,
         RegistryLock, MapLock, CommandLock, ConfigurationLock
  <2>2. Control'  BY <1>2 DEF Call, TypeOK, GuiControl, TorrentControl, AcceptorControl, Control
  <2>3. Locks'
      BY <1>2 DEF Call, TypeOK, GuiControl, TorrentControl, AcceptorControl, RegistryLock,
         MapLock, CommandLock, ConfigurationLock, Control, Locks
  <2>4. Stopping'
      BY <1>2 DEF Call, TypeOK, GuiControl, TorrentControl, AcceptorControl, RegistryLock,
         Stopping, Control, Locks
  <2>5. Listening'
      BY <1>2 DEF Call, TypeOK, GuiControl, TorrentControl, AcceptorControl, RegistryLock,
         Stopping, Listening, Control, Locks
  <2> QED  BY <2>1, <2>2, <2>3, <2>4, <2>5
<1>3. ASSUME NEW t \in Torrents, NEW does \in {"round", "peer"}, Turn(t, does) PROVE IInv'
  <2>1. TypeOK'
      BY <1>3 DEF Turn, TypeOK, GuiControl, TorrentControl, AcceptorControl, Control, Locks,
         RegistryLock, MapLock, CommandLock, ConfigurationLock
  <2>2. Control'  BY <1>3 DEF Turn, TypeOK, GuiControl, TorrentControl, AcceptorControl, Control
  <2>3. Locks'
      BY <1>3 DEF Turn, TypeOK, GuiControl, TorrentControl, AcceptorControl, RegistryLock,
         MapLock, CommandLock, ConfigurationLock, Control, Locks
  <2>4. Stopping'
      BY <1>3 DEF Turn, TypeOK, GuiControl, TorrentControl, AcceptorControl, RegistryLock,
         Stopping, Control, Locks
  <2>5. Listening'
      BY <1>3 DEF Turn, TypeOK, GuiControl, TorrentControl, AcceptorControl, RegistryLock,
         Stopping, Listening, Control, Locks
  <2> QED  BY <2>1, <2>2, <2>3, <2>4, <2>5
<1>4. ASSUME NEW t \in Torrents, WriteFailure(t) PROVE IInv'
  <2>1. TypeOK'
      BY <1>4 DEF WriteFailure, TypeOK, GuiControl, TorrentControl, AcceptorControl, Control,
         Locks, RegistryLock, MapLock, CommandLock, ConfigurationLock
  <2>2. Control'
      BY <1>4 DEF WriteFailure, TypeOK, GuiControl, TorrentControl, AcceptorControl, Control
  <2>3. Locks'
      BY <1>4 DEF WriteFailure, TypeOK, GuiControl, TorrentControl, AcceptorControl,
         RegistryLock, MapLock, CommandLock, ConfigurationLock, Control, Locks
  <2>4. Stopping'
      BY <1>4 DEF WriteFailure, TypeOK, GuiControl, TorrentControl, AcceptorControl,
         RegistryLock, Stopping, Control, Locks
  <2>5. Listening'
      BY <1>4 DEF WriteFailure, TypeOK, GuiControl, TorrentControl, AcceptorControl,
         RegistryLock, Stopping, Listening, Control, Locks
  <2> QED  BY <2>1, <2>2, <2>3, <2>4, <2>5
<1>5. ASSUME NEW t \in Torrents, NEW does \in {"hash", "peer"}, Incoming(does, t) PROVE IInv'
  <2>1. TypeOK'
      BY <1>5 DEF Incoming, TypeOK, GuiControl, TorrentControl, AcceptorControl, Control, Locks,
         RegistryLock, MapLock, CommandLock, ConfigurationLock
  <2>2. Control'
      BY <1>5 DEF Incoming, TypeOK, GuiControl, TorrentControl, AcceptorControl, Control
  <2>3. Locks'
      BY <1>5 DEF Incoming, TypeOK, GuiControl, TorrentControl, AcceptorControl, RegistryLock,
         MapLock, CommandLock, ConfigurationLock, Control, Locks
  <2>4. Stopping'
      BY <1>5 DEF Incoming, TypeOK, GuiControl, TorrentControl, AcceptorControl, RegistryLock,
         Stopping, Control, Locks
  <2>5. Listening'
      BY <1>5 DEF Incoming, TypeOK, GuiControl, TorrentControl, AcceptorControl, RegistryLock,
         Stopping, Listening, Control, Locks
  <2> QED  BY <2>1, <2>2, <2>3, <2>4, <2>5
<1> QED  BY <1>1, <1>2, <1>3, <1>4, <1>5 DEF Environment

\* No thread does anything at first.
LEMMA InitHolds == Init => IInv
<1> SUFFICES ASSUME Init PROVE IInv
  OBVIOUS
<1>1. TypeOK
  <2>1. {listening, ended, refused} \subseteq BOOLEAN  BY DEF Init
  <2> QED  BY <2>1 DEF Init, TypeOK
<1>2. Control
  BY DEF Init, Control, GuiControl, TorrentControl, AcceptorControl
<1>3. Locks
  BY DEF Init, Locks, RegistryLock, MapLock, CommandLock, ConfigurationLock
<1>4. Stopping /\ Listening
  BY DEF Init, Stopping, Listening
<1> QED  BY <1>1, <1>2, <1>3, <1>4 DEF IInv

\* Nor does a step without effect disturb it.
LEMMA StutterHolds == ASSUME IInv, UNCHANGED vars PROVE IInv'
<1> USE DEF IInv
<1>1. TypeOK'  BY DEF TypeOK
<1>2. Control'  BY DEF Control, GuiControl, TorrentControl, AcceptorControl
<1>3. Locks'  BY DEF Locks, RegistryLock, MapLock, CommandLock, ConfigurationLock
<1>4. Stopping' /\ Listening'  BY DEF Stopping, Listening
<1> QED  BY <1>1, <1>2, <1>3, <1>4

LEMMA NextHolds == IInv /\ [Next]_vars => IInv'
<1> SUFFICES ASSUME IInv, [Next]_vars PROVE IInv'
  OBVIOUS
<1>1. CASE GuiStep  BY <1>1, GuiStepHolds
<1>2. ASSUME NEW t \in Torrents, ReactorStep(t) PROVE IInv'  BY <1>2, ReactorStepHolds
<1>3. CASE AcceptorStep  BY <1>3, AcceptorStepHolds
<1>4. CASE Environment  BY <1>4, EnvironmentHolds
<1>5. CASE UNCHANGED vars  BY <1>5, StutterHolds
<1> QED  BY <1>1, <1>2, <1>3, <1>4, <1>5 DEF Next

\* Where the threads are and which locks they hold agree in every reachable state
\* (GlobalTorrentRegistry, Reactor, CommandTask, TorrentConfiguration, AcceptorService).
THEOREM ThreadsAndLocksAgree == Spec => []IInv
<1>1. Init => IInv  BY InitHolds
<1>2. IInv /\ [Next]_vars => IInv'  BY NextHolds
<1> QED  BY <1>1, <1>2, PTL DEF Spec

----------------------------------------------------------------------------
\* The locks are held by threads, a torrent accepts connections only when its tasks
\* exist, and an idle thread holds no lock (TypeOK of the run).
THEOREM TypesHold == Spec => []TypeOK
<1>1. IInv => TypeOK  BY DEF IInv
<1> QED  BY <1>1, ThreadsAndLocksAgree, PTL

\* With any number of torrents that start and stop in any order, the acceptor runs as long
\* as one of them accepts connections (startTorrent, stopTorrent, AcceptorService).
THEOREM AcceptorListens == Spec => []StartedListens
<1>1. IInv => StartedListens  BY DEF IInv, Listening, StartedListens
<1> QED  BY <1>1, ThreadsAndLocksAgree, PTL

\* A torrent's thread waits for another thread only with its round before the setter of a
\* configuration, or while it stops: for the acceptor or for whoever has the registry.
LEMMA TorrentWaits ==
  ASSUME IInv, NEW t \in Torrents, WaitsFor(t) \in Threads
  PROVE  \/ thread[t].at = "configuration" /\ WaitsFor(t) = Gui /\ thread[Gui].at = "command"
         \/ thread[t].does = "stop" /\ thread[t].at = "map" /\ WaitsFor(t) = Acceptor
         \/ thread[t].does = "stop" /\ thread[t].at = "registry" /\ WaitsFor(t) = registry
<1> USE DEF IInv, Control, TorrentControl, Locks
<1>1. thread[t].for = t  OBVIOUS
<1>2. CASE thread[t].at = "registry"  BY <1>2 DEF WaitsFor
<1>3. CASE thread[t].at = "map"  BY <1>3 DEF WaitsFor, MapLock
<1>4. CASE thread[t].at = "command"  BY <1>1, <1>4 DEF WaitsFor, CommandLock
<1>5. CASE thread[t].at = "configuration"  BY <1>1, <1>5 DEF WaitsFor, ConfigurationLock
<1>6. CASE thread[t].at = "thread"  BY <1>1, <1>6 DEF WaitsFor
<1>7. CASE thread[t].at \in {"off", "loop", "ended", "results"}  BY <1>7 DEF WaitsFor
<1> QED  BY <1>2, <1>3, <1>4, <1>5, <1>6, <1>7

\* The acceptor waits for a torrent that it hands a peer to, or for the setter of a
\* configuration, which waits for that torrent if it waits at all.
LEMMA AcceptorWaits ==
  ASSUME IInv, WaitsFor(Acceptor) \in Threads
  PROVE  \/ WaitsFor(Acceptor) \in Torrents
         \/ WaitsFor(Acceptor) = Gui /\ WaitsFor(Gui) \in Torrents \cup {Nobody}
<1> USE DEF IInv, Control, AcceptorControl, Locks
<1> DEFINE t == thread[Acceptor].for
<1>1. CASE thread[Acceptor].at = "map"  BY <1>1 DEF WaitsFor, MapLock
<1>2. CASE thread[Acceptor].at = "command"  BY <1>2 DEF WaitsFor, CommandLock
<1>3. CASE thread[Acceptor].at = "configuration"
  <2>1. t \in Torrents /\ WaitsFor(Acceptor) = configuration[t]  BY <1>3 DEF WaitsFor
  <2>2. configuration[t] = Gui /\ thread[Gui].at = "command" /\ thread[Gui].for = t
    BY <2>1 DEF ConfigurationLock
  <2>3. WaitsFor(Gui) = command[t]  BY <2>2 DEF WaitsFor
  <2> QED  BY <2>1, <2>2, <2>3 DEF CommandLock
<1>4. CASE thread[Acceptor].at \in {"off", "loop", "ended"}  BY <1>4 DEF WaitsFor
<1> QED  BY <1>1, <1>2, <1>3, <1>4

\* So a group of threads that wait for each other has the user's thread or the acceptor in
\* it with a torrent that stops, or it is one of the two others that StallsExplained names.
LEMMA StallsFollow == IInv => StallsExplained
<1> SUFFICES ASSUME IInv, NEW group \in SUBSET Threads, Stalled(group),
                    ~ \E t \in group \cap Torrents :
                        \/ thread[t].at = "configuration" /\ thread[Gui].at = "command" /\ Gui \in group
                        \/ thread[t].does = "stop" /\ group \cap {Gui, Acceptor} # {}
             PROVE  WaitsFor(Gui) = Gui /\ Gui \in group
  BY DEF StallsExplained
<1>1. group # {} /\ \A x \in group : WaitsFor(x) \in group /\ WaitsFor(x) \in Threads
  BY DEF Stalled
<1>2. group \cap Torrents = {}
  <2> SUFFICES ASSUME NEW t \in group \cap Torrents PROVE FALSE
    OBVIOUS
  <2>1. \A x \in group \cap Torrents : thread[x].at = "registry" /\ WaitsFor(x) = registry
    BY <1>1, TorrentWaits
  <2>2. thread[t].does = "stop"  BY <1>1, <2>1, TorrentWaits
  <2>3. registry \in group \cap Torrents  BY <1>1, <2>1, <2>2
  <2> QED  BY <2>1, <2>3 DEF IInv, Locks, RegistryLock
<1>3. Acceptor \notin group  BY <1>1, <1>2, AcceptorWaits
<1> QED  BY <1>1, <1>2, <1>3

\* Whatever the user, the torrents and the acceptor do, with any number of torrents: the
\* threads stop for ever only in the ways that StallsExplained names (the locks of
\* GlobalTorrentRegistry, NegotiatorMiddleware, CommandTask and TorrentConfiguration).
THEOREM StallsAreExplained == Spec => []StallsExplained
<1>1. IInv => StallsExplained  BY StallsFollow
<1> QED  BY <1>1, ThreadsAndLocksAgree, PTL

----------------------------------------------------------------------------
\* Time and the loops of the reactors.

LEMMA SecondIsNat == NsecPerSec \in Nat \ {0}
<1>1. \A a, b \in Nat \ {0} : a * b \in Nat \ {0}  BY SMT
<1> QED BY <1>1, ClockAssumption DEF NsecPerSec

\* Numbers: what is whole and what is left, sums and products.
LEMMA WholeParts ==
  ASSUME NEW n \in Int, NEW d \in Nat \ {0}
  PROVE  /\ n \div d \in Int /\ (n % d) \in 0..d - 1
         /\ n = (n \div d) * d + (n % d)
         /\ n \in Nat => n \div d \in Nat
BY SMT

LEMMA Distributes ==
  ASSUME NEW a \in Int, NEW b \in Int, NEW d \in Nat
  PROVE  /\ (a + b) * d = a * d + b * d /\ (a - b) * d = a * d - b * d /\ a * d \in Int
         /\ (a < b => a * d + d <= b * d) /\ 1 * d = d
BY SMT

\* A Time as a number of nanoseconds: its sums, order and differences.
LEMMA ValueIsInt ==
  ASSUME NEW t \in [sec : Int, nsec : Int]
  PROVE  Value(t) \in Int /\ (t \in Times => Value(t) \in Nat)
<1> USE SecondIsNat
<1>1. t.sec * NsecPerSec \in Int /\ t.nsec \in Int  BY Distributes
<1>2. ASSUME t \in Times PROVE t.sec * NsecPerSec \in Nat /\ t.nsec \in Nat
  <2>1. t.sec \in Nat /\ t.nsec \in 0..NsecPerSec - 1  BY <1>2 DEF Times
  <2> QED  BY <2>1
<1> QED  BY <1>1, <1>2 DEF Value

LEMMA SumCounts ==
  ASSUME NEW t \in Times, NEW u \in Times
  PROVE  Plus(t, u) \in Times /\ Value(Plus(t, u)) = Value(t) + Value(u)
<1> USE SecondIsNat
<1>1. t.sec \in Nat /\ u.sec \in Nat /\ t.nsec \in Nat /\ u.nsec \in Nat  BY DEF Times
<1> DEFINE n == t.nsec + u.nsec
           q == n \div NsecPerSec
           r == n % NsecPerSec
<1>2. n \in Nat  BY <1>1
<1>3. q \in Nat /\ r \in 0..NsecPerSec - 1 /\ n = q * NsecPerSec + r
  <2> HIDE DEF n
  <2>1. /\ n \div NsecPerSec \in Nat /\ (n % NsecPerSec) \in 0..NsecPerSec - 1
        /\ n = (n \div NsecPerSec) * NsecPerSec + (n % NsecPerSec)
    BY <1>2, SMT
  <2> QED  BY <2>1
<1>4. Plus(t, u) = [sec |-> t.sec + u.sec + q, nsec |-> r]  BY DEF Plus
<1> HIDE DEF q, r
<1>5. Plus(t, u) \in Times  BY <1>1, <1>3, <1>4 DEF Times
<1>6. (t.sec + u.sec + q) * NsecPerSec = (t.sec + u.sec) * NsecPerSec + q * NsecPerSec
  <2>1. t.sec + u.sec \in Int /\ q \in Int  BY <1>1, <1>3
  <2> QED  BY <2>1, Distributes
<1>7. (t.sec + u.sec) * NsecPerSec = t.sec * NsecPerSec + u.sec * NsecPerSec  BY <1>1, Distributes
<1>8. Value(Plus(t, u)) = (t.sec + u.sec + q) * NsecPerSec + r  BY <1>4 DEF Value
<1>9. t.sec * NsecPerSec \in Int /\ u.sec * NsecPerSec \in Int /\ q * NsecPerSec \in Int
  BY <1>1, <1>3, Distributes
<1> QED  BY <1>1, <1>3, <1>5, <1>6, <1>7, <1>8, <1>9 DEF Value

LEMMA OrderCounts ==
  ASSUME NEW t \in Times, NEW u \in Times
  PROVE  /\ Less(t, u) <=> Value(t) < Value(u)
         /\ Greater(t, u) <=> Value(t) > Value(u)
         /\ Equal(t, u) <=> Value(t) = Value(u)
<1> USE SecondIsNat
<1>1. t.sec \in Nat /\ u.sec \in Nat /\ t.nsec \in 0..NsecPerSec - 1 /\ u.nsec \in 0..NsecPerSec - 1
  BY DEF Times
<1> DEFINE a == t.sec * NsecPerSec
           b == u.sec * NsecPerSec
<1>2. a \in Int /\ b \in Int  BY <1>1, Distributes
<1>3. t.sec < u.sec => a + NsecPerSec <= b  BY <1>1, Distributes
<1>4. u.sec < t.sec => b + NsecPerSec <= a  BY <1>1, Distributes
<1>5. t.sec = u.sec => a = b  OBVIOUS
<1>6. Value(t) = a + t.nsec /\ Value(u) = b + u.nsec  BY DEF Value
<1> HIDE DEF a, b
<1> QED  BY <1>1, <1>2, <1>3, <1>4, <1>5, <1>6 DEF Less, Greater, Equal

LEMMA DifferenceCounts ==
  ASSUME NEW t \in Times, NEW u \in Times
  PROVE  /\ Minus(t, u) \in Times
         /\ Value(Minus(t, u)) = IF Value(t) > Value(u) THEN Value(t) - Value(u) ELSE 0
<1> USE SecondIsNat
<1>1. t.sec \in Nat /\ u.sec \in Nat /\ t.nsec \in 0..NsecPerSec - 1 /\ u.nsec \in 0..NsecPerSec - 1
  BY DEF Times
<1> DEFINE borrow == IF t.nsec - u.nsec < 0 THEN 1 ELSE 0
           s == t.sec - u.sec - borrow
           n == t.nsec - u.nsec + borrow * NsecPerSec
           d == Borrowed([sec |-> t.sec - u.sec, nsec |-> t.nsec - u.nsec])
<1>2. d = [sec |-> s, nsec |-> n]
  <2>1. CASE t.nsec - u.nsec < 0  BY <1>1, <2>1 DEF Borrowed
  <2>2. CASE ~ (t.nsec - u.nsec < 0)  BY <1>1, <2>2 DEF Borrowed
  <2> QED  BY <2>1, <2>2
<1>3. borrow \in Nat  OBVIOUS
<1>4. s \in Int /\ n \in 0..NsecPerSec - 1
  BY <1>1, <1>3
<1>5. s * NsecPerSec + n = Value(t) - Value(u)
  <2>1. s * NsecPerSec = (t.sec - u.sec) * NsecPerSec - borrow * NsecPerSec
    <3>1. t.sec - u.sec \in Int /\ borrow \in Int  BY <1>1, <1>3
    <3> HIDE DEF borrow
    <3> QED  BY <3>1, Distributes
  <2>2. (t.sec - u.sec) * NsecPerSec = t.sec * NsecPerSec - u.sec * NsecPerSec  BY <1>1, Distributes
  <2>3. t.sec * NsecPerSec \in Int /\ u.sec * NsecPerSec \in Int /\ borrow * NsecPerSec \in Int
    BY <1>1, <1>3, Distributes
  <2> HIDE DEF borrow
  <2> QED  BY <1>1, <2>1, <2>2, <2>3 DEF Value
<1>6. Minus(t, u) = IF s < 0 THEN Zero ELSE [sec |-> s, nsec |-> n]
  <2>1. Minus(t, u) = IF d.sec < 0 THEN Zero ELSE d  BY DEF Minus
  <2> HIDE DEF d, s, n
  <2> QED  BY <1>2, <2>1
<1> HIDE DEF s, n
<1>7. Value(t) \in Int /\ Value(u) \in Int  BY <1>1, ValueIsInt DEF Times
<1>8. CASE s < 0
  <2>1. s * NsecPerSec + NsecPerSec <= 0 * NsecPerSec  BY <1>4, <1>8, Distributes
  <2>2. s * NsecPerSec \in Int /\ 0 * NsecPerSec = 0  BY <1>4, Distributes
  <2>3. Value(t) - Value(u) < 0  BY <1>4, <1>5, <2>1, <2>2
  <2>4. Minus(t, u) = Zero  BY <1>6, <1>8
  <2>5. Zero \in Times /\ Value(Zero) = 0  BY <2>2 DEF Zero, Times, Value
  <2> QED  BY <1>7, <2>3, <2>4, <2>5
<1>9. CASE s >= 0
  <2>1. Minus(t, u) = [sec |-> s, nsec |-> n]  BY <1>4, <1>6, <1>9
  <2>2. Minus(t, u) \in Times  BY <1>4, <1>9, <2>1 DEF Times
  <2>3. Value(Minus(t, u)) = Value(t) - Value(u)  BY <1>5, <2>1 DEF Value
  <2>4. Value(Minus(t, u)) \in Nat  BY <2>2, ValueIsInt DEF Times
  <2> QED  BY <1>7, <2>2, <2>3, <2>4
<1> QED  BY <1>4, <1>8, <1>9

\* A Time in milliseconds.
LEMMA QuotientIs ==
  ASSUME NEW q \in Int, NEW d \in Nat \ {0}, NEW r \in 0..d - 1
  PROVE  (q * d + r) \div d = q
BY SMT

LEMMA FactorsJoin ==
  ASSUME NEW a \in Int, NEW b \in Int, NEW c \in Int
  PROVE  a * (b * c) = (a * b) * c
BY SMT

LEMMA BelowModulus ==
  ASSUME NEW x \in Nat, NEW b \in Int, x < b
  PROVE  x % b = x
BY SMT

LEMMA MillisecondsCount ==
  ASSUME NEW t \in Times, Counted(t)
  PROVE  ToMilliseconds(t) = Value(t) \div NsecPerMsec
<1> DEFINE M == MsecPerSec
           P == NsecPerMsec
           k == t.nsec \div P
           r == t.nsec % P
           x == t.sec * M + k
<1>1. M \in Nat \ {0} /\ P \in Nat \ {0} /\ 2^TimeBits \in Int
  <2>1. 2^TimeBits \in Int  BY ClockAssumption, SMT
  <2> QED  BY <2>1, ClockAssumption
<1> HIDE DEF M, P
<1>2. t.sec \in Nat /\ t.nsec \in Nat  BY SecondIsNat DEF Times
<1>3. k \in Nat /\ r \in 0..P - 1 /\ t.nsec = k * P + r  BY <1>1, <1>2, SMT
<1> HIDE DEF k, r
<1>4. t.sec * M \in Nat  BY <1>1, <1>2, SMT
<1>5. x \in Nat  BY <1>3, <1>4
<1>6. x * P = (t.sec * M) * P + k * P /\ k * P \in Int /\ (t.sec * M) * P \in Int
  BY <1>1, <1>3, <1>4, Distributes
<1>7. t.sec * (M * P) = (t.sec * M) * P  BY <1>1, <1>2, FactorsJoin
<1>8. Value(t) = t.sec * (M * P) + t.nsec  BY DEF Value, NsecPerSec, M, P
<1>9. Value(t) = x * P + r  BY <1>1, <1>3, <1>6, <1>7, <1>8
<1> HIDE DEF x
<1>10. Value(t) \div P = x  BY <1>1, <1>3, <1>5, <1>9, QuotientIs
<1>11. ToMilliseconds(t) = x % 2^TimeBits  BY DEF ToMilliseconds, M, P, x, k
<1>12. x < 2^TimeBits  BY <1>10 DEF Counted, P
<1> QED  BY <1>1, <1>5, <1>10, <1>11, <1>12, BelowModulus DEF P

LEMMA MsecCounts ==
  ASSUME NEW n \in Nat
  PROVE  Msec(n) \in Times /\ Value(Msec(n)) = n * NsecPerMsec
<1> DEFINE M == MsecPerSec
           P == NsecPerMsec
           q == n \div M
           r == n % M
<1>1. M \in Nat \ {0} /\ P \in Nat \ {0}  BY ClockAssumption
<1>2. q \in Nat /\ r \in 0..M - 1 /\ n = q * M + r  BY <1>1, SMT DEF q, r
<1>3. Msec(n) = [sec |-> q, nsec |-> r * P]  BY DEF Msec
<1>4. NsecPerSec = M * P /\ M * P \in Nat  BY <1>1, SecondIsNat DEF NsecPerSec
<1> HIDE DEF M, P, q, r
<1>5. r * P \in Nat /\ r * P + P <= M * P
  <2>1. r \in Nat /\ r < M  BY <1>1, <1>2
  <2>2. r * P + P <= M * P  BY <1>1, <2>1, Distributes
  <2>3. r * P \in Nat  BY <1>1, <2>1, SMT
  <2> QED  BY <2>2, <2>3
<1>6. r * P \in 0..NsecPerSec - 1  BY <1>1, <1>4, <1>5
<1>7. Msec(n) \in Times  BY <1>2, <1>3, <1>6 DEF Times
<1>8. n * P = (q * M) * P + r * P
  <2>1. q * M \in Int /\ r \in Int  BY <1>1, <1>2, Distributes
  <2> QED  BY <1>1, <1>2, <2>1, Distributes
<1>9. q * (M * P) = (q * M) * P  BY <1>1, <1>2, FactorsJoin
<1>10. Value(Msec(n)) = q * (M * P) + r * P  BY <1>3, <1>4 DEF Value
<1> QED  BY <1>7, <1>8, <1>9, <1>10 DEF P

\* A deadline is due when less than a millisecond is left of it.
LEMMA DueMeans ==
  ASSUME NEW deadline \in Times, NEW now \in Times, Counted(Minus(deadline, now))
  PROVE  Due(deadline, now) <=> Value(deadline) < Value(now) + NsecPerMsec
<1> DEFINE d == Minus(deadline, now)
           v == Value(d)
<1>1. d \in Times  BY DifferenceCounts
<1>2. v = IF Value(deadline) > Value(now) THEN Value(deadline) - Value(now) ELSE 0  BY DifferenceCounts
<1>3. Value(deadline) \in Int /\ Value(now) \in Int  BY SecondIsNat, ValueIsInt DEF Times
<1>4. NsecPerMsec \in Nat \ {0}  BY ClockAssumption
<1>5. ToMilliseconds(d) = v \div NsecPerMsec  BY <1>1, MillisecondsCount
<1> HIDE DEF v
<1>6. v \in Nat  BY <1>2, <1>3
<1>7. v \div NsecPerMsec = 0 <=> v < NsecPerMsec
  <2>1. \A p \in Nat \ {0} : v \div p = 0 <=> v < p  BY <1>6, SMT
  <2> QED  BY <1>4, <2>1
<1> QED  BY <1>2, <1>3, <1>4, <1>5, <1>7 DEF Due

\* Times add, subtract and compare like numbers of nanoseconds that stop at zero, whatever
\* the units are: no carry and no borrow gets lost (operator += and -= of Util::Time, less
\* and its relatives).
THEOREM TimeIsANumber ==
  ASSUME NEW t \in Times, NEW u \in Times
  PROVE  /\ Value(t) \in Nat
         /\ Plus(t, u) \in Times /\ Value(Plus(t, u)) = Value(t) + Value(u)
         /\ Minus(t, u) \in Times
         /\ Value(Minus(t, u)) = IF Value(t) > Value(u) THEN Value(t) - Value(u) ELSE 0
         /\ Less(t, u) <=> Value(t) < Value(u)
         /\ LessEqual(t, u) <=> Value(t) <= Value(u)
         /\ Greater(t, u) <=> Value(t) > Value(u)
         /\ GreaterEqual(t, u) <=> Value(t) >= Value(u)
<1>1. Value(t) \in Nat /\ Value(u) \in Nat  BY SecondIsNat, ValueIsInt DEF Times
<1>2. /\ Less(t, u) <=> Value(t) < Value(u)
      /\ Greater(t, u) <=> Value(t) > Value(u)
      /\ Equal(t, u) <=> Value(t) = Value(u)
  BY OrderCounts
<1>3. LessEqual(t, u) <=> Value(t) <= Value(u)  BY <1>1, <1>2 DEF LessEqual
<1>4. GreaterEqual(t, u) <=> Value(t) >= Value(u)  BY <1>1, <1>2 DEF GreaterEqual
<1> QED  BY <1>1, <1>2, <1>3, <1>4, SumCounts, DifferenceCounts

\* A sleep until a deadline ends before it, by less than a millisecond.
LEMMA SleepEnds ==
  ASSUME NEW first \in Times, NEW now \in Times, Counted(Minus(first, now))
  PROVE  LET sleep == ToMilliseconds(Minus(first, now))
         IN  /\ sleep \in Nat
             /\ sleep > 0 => Value(now) + sleep * NsecPerMsec <= Value(first)
             /\ Value(first) < Value(now) + (sleep + 1) * NsecPerMsec
<1> DEFINE d == Minus(first, now)
           v == Value(d)
           P == NsecPerMsec
           sleep == v \div P
           r == v % P
<1>1. d \in Times  BY DifferenceCounts
<1>2. v = IF Value(first) > Value(now) THEN Value(first) - Value(now) ELSE 0  BY DifferenceCounts
<1>3. Value(first) \in Int /\ Value(now) \in Int  BY SecondIsNat, ValueIsInt DEF Times
<1>4. P \in Nat \ {0}  BY ClockAssumption
<1>5. ToMilliseconds(d) = sleep  BY <1>1, MillisecondsCount
<1> HIDE DEF v, P
<1>6. v \in Nat  BY <1>2, <1>3
<1>7. sleep \in Nat /\ r \in 0..P - 1 /\ v = sleep * P + r  BY <1>4, <1>6, SMT
<1> HIDE DEF sleep, r
<1>8. (sleep + 1) * P = sleep * P + P /\ sleep * P \in Int  BY <1>4, <1>7, Distributes
<1>9. sleep > 0 => v > 0
  <2> SUFFICES ASSUME sleep > 0 PROVE v > 0  OBVIOUS
  <2>1. 0 * P + P <= sleep * P /\ 0 * P = 0  BY <1>4, <1>7, Distributes
  <2> QED  BY <1>4, <1>7, <1>8, <2>1
<1>10. sleep > 0 => Value(now) + sleep * P <= Value(first)  BY <1>2, <1>3, <1>4, <1>7, <1>8, <1>9
<1>11. Value(first) < Value(now) + (sleep + 1) * P  BY <1>2, <1>3, <1>4, <1>7, <1>8
<1> QED  BY <1>5, <1>7, <1>10, <1>11 DEF P


\* The clock is far from the last time there is.
Early(now, interval) == Less(Plus(now, interval), MaximumTime)

LEMMA ValueTyped ==
  ASSUME NEW t \in Times
  PROVE  Value(t) \in Nat
BY SecondIsNat, ValueIsInt DEF Times

\* A deadline that was ahead and is not due yet is still ahead.
LEMMA AheadDue ==
  ASSUME NEW was \in Times, NEW now \in Times, NEW deadline \in Times, NEW interval \in Times,
         Ahead(was, deadline, interval), Counted(interval), Value(was) <= Value(now)
  PROVE  /\ Counted(Minus(deadline, now))
         /\ Due(deadline, now) <=> Value(deadline) < Value(now) + NsecPerMsec
         /\ ~ Due(deadline, now) => Ahead(now, deadline, interval)
<1> DEFINE d == Minus(deadline, now)
<1>1. /\ Value(was) \in Nat /\ Value(now) \in Nat /\ Value(deadline) \in Nat
      /\ Value(interval) \in Nat /\ d \in Times /\ Value(d) \in Nat
  BY ValueTyped, DifferenceCounts
<1>2. NsecPerMsec \in Nat \ {0} /\ 2^TimeBits \in Int
  <2>1. 2^TimeBits \in Int  BY ClockAssumption, SMT
  <2> QED  BY <2>1, ClockAssumption
<1>3. Value(d) = IF Value(deadline) > Value(now) THEN Value(deadline) - Value(now) ELSE 0
  BY DifferenceCounts
<1>4. Value(d) <= Value(interval)  BY <1>1, <1>3 DEF Ahead
<1>5. Counted(d)
  <2>1. \A v, w, p \in Nat : v <= w /\ p # 0 => v \div p <= w \div p /\ v \div p \in Int /\ w \div p \in Int
    BY SMT
  <2>2. /\ Value(d) \div NsecPerMsec <= Value(interval) \div NsecPerMsec
        /\ Value(d) \div NsecPerMsec \in Int /\ Value(interval) \div NsecPerMsec \in Int
    BY <1>1, <1>2, <1>4, <2>1
  <2>3. Value(interval) \div NsecPerMsec < 2^TimeBits  BY DEF Counted
  <2> QED  BY <1>2, <2>2, <2>3 DEF Counted
<1>6. Due(deadline, now) <=> Value(deadline) < Value(now) + NsecPerMsec  BY <1>5, DueMeans
<1>7. ~ Due(deadline, now) => Ahead(now, deadline, interval)
  BY <1>1, <1>2, <1>6 DEF Ahead
<1> QED  BY <1>5, <1>6, <1>7

\* One that is set anew is ahead.
LEMMA AheadAfter ==
  ASSUME NEW now \in Times, NEW interval \in Usable, Early(now, interval)
  PROVE  Plus(now, interval) \in Times /\ Ahead(now, Plus(now, interval), interval)
<1>1. interval \in Times /\ Value(interval) >= NsecPerMsec  BY DEF Usable
<1>2. Plus(now, interval) \in Times /\ Value(Plus(now, interval)) = Value(now) + Value(interval)
  BY <1>1, SumCounts
<1>3. Value(now) \in Nat /\ Value(interval) \in Nat  BY <1>1, ValueTyped
<1>4. NsecPerMsec \in Nat  BY ClockAssumption
<1> QED  BY <1>1, <1>2, <1>3, <1>4 DEF Ahead, Early

Task == [interval : Usable, deadline : Times]
TimedTasks == Seq(Task)

LEMMA SeqMembers ==
  ASSUME NEW S, NEW s \in Seq(S)
  PROVE  /\ \A i \in DOMAIN s : s[i] \in S
         /\ Len(s) \in Nat /\ DOMAIN s = 1..Len(s) /\ s = [i \in DOMAIN s |-> s[i]]
BY SMT

\* The nearest deadline is that of a task, and no later than any other.
LEMMA MaximumIsInt == MaximumTime.sec \in Int /\ MaximumTime.nsec \in Int
<1>1. TimeBits - 1 \in Int  BY ClockAssumption
<1>2. \A n \in Int : 2^n \in Int  BY SMT
<1>3. 2^(TimeBits - 1) \in Int  BY <1>1, <1>2
<1> QED  BY <1>3 DEF MaximumTime

LEMMA NearestIsNearest ==
  ASSUME NEW tasks \in TimedTasks, \A i \in DOMAIN tasks : Less(tasks[i].deadline, MaximumTime)
  PROVE  /\ DOMAIN tasks = {} => Nearest(tasks) = MaximumTime
         /\ DOMAIN tasks # {} =>
              /\ \E i \in DOMAIN tasks : Nearest(tasks) = tasks[i].deadline
              /\ \A i \in DOMAIN tasks : Value(Nearest(tasks)) <= Value(tasks[i].deadline)
<1> DEFINE own == {tasks[i].deadline : i \in DOMAIN tasks}
           deadlines == own \cup {MaximumTime}
           First(t) == t \in deadlines /\ \A u \in deadlines : ~ Less(u, t)
<1>1. \A t \in own : t \in Times /\ Less(t, MaximumTime)
  <2>1. \A i \in DOMAIN tasks : tasks[i] \in Task
    BY SeqMembers DEF TimedTasks
  <2>2. \A i \in DOMAIN tasks : tasks[i].deadline \in Times  BY <2>1 DEF Task
  <2> QED  BY <2>2
<1>2. Nearest(tasks) = CHOOSE t : First(t)
  BY DEF Nearest
<1>3. MaximumTime.sec \in Int /\ MaximumTime.nsec \in Int  BY MaximumIsInt
<1>4. ~ Less(MaximumTime, MaximumTime)  BY <1>3 DEF Less
<1>5. ASSUME own = {} PROVE Nearest(tasks) = MaximumTime
  <2>1. \A t : First(t) <=> t = MaximumTime  BY <1>4, <1>5
  <2> HIDE DEF First
  <2> QED  BY <1>2, <2>1
<1>6. ASSUME own # {}
      PROVE  Nearest(tasks) \in own /\ \A u \in own : Value(Nearest(tasks)) <= Value(u)
  <2> DEFINE T == {Value(u) : u \in own}
  <2>1. T \in SUBSET Nat /\ T # {}  BY <1>1, <1>6, ValueTyped
  <2>2. PICK n \in T : \A m \in T : ~ (<<m, n>> \in OpToRel(<, Nat))
    <3> HIDE DEF T
    <3> QED  BY <2>1, NatLessThanWellFounded, WFMin
  <2>3. PICK d \in own : n = Value(d)  BY <2>2
  <2>4. \A u \in own : ~ Less(u, d)
    <3> SUFFICES ASSUME NEW u \in own, Less(u, d) PROVE FALSE  OBVIOUS
    <3>1. Value(u) < Value(d) /\ Value(u) \in Nat /\ Value(d) \in Nat
      BY <1>1, OrderCounts, ValueTyped
    <3>2. <<Value(u), n>> \in OpToRel(<, Nat)  BY <2>3, <3>1 DEF OpToRel
    <3> QED  BY <2>2, <3>2
  <2>5. ~ Less(MaximumTime, d)
    <3>1. Less(d, MaximumTime) /\ d.sec \in Int /\ d.nsec \in Int
      BY <1>1, SecondIsNat DEF Times
    <3> QED  BY <1>3, <3>1 DEF Less
  <2>6. First(d)  BY <2>4, <2>5
  <2>7. First(Nearest(tasks))
    <3> HIDE DEF First
    <3> QED  BY <1>2, <2>6
  <2>8. Nearest(tasks) # MaximumTime
    <3>1. Less(d, MaximumTime)  BY <1>1
    <3> QED  BY <2>7, <3>1
  <2>9. Nearest(tasks) \in own /\ \A u \in own : ~ Less(u, Nearest(tasks))  BY <2>7, <2>8
  <2> HIDE DEF own, First
  <2> SUFFICES ASSUME NEW u \in own PROVE Value(Nearest(tasks)) <= Value(u)
    BY <2>9
  <2>10. ~ (Value(u) < Value(Nearest(tasks)))  BY <1>1, <2>9, OrderCounts
  <2>11. Value(u) \in Nat /\ Value(Nearest(tasks)) \in Nat  BY <1>1, <2>9, ValueTyped
  <2> QED  BY <2>10, <2>11
<1> QED  BY <1>5, <1>6

\* What a turn makes of the tasks, whether it runs any or not.
LEMMA TurnExecutes ==
  ASSUME NEW loop, LoopRight(loop), NEW now \in Times, Value(loop.now) <= Value(now),
         \A i \in DOMAIN loop.tasks : Early(now, loop.tasks[i].interval)
  PROVE  LET turned == IF Due(loop.nearest, now) THEN ExecuteTasks(loop, now) ELSE loop
         IN  /\ DOMAIN turned = DOMAIN loop /\ turned.pulse = loop.pulse
             /\ turned.tasks = Executed(loop.tasks, now) /\ turned.tasks \in TimedTasks
             /\ turned.nearest = Nearest(turned.tasks)
             /\ \A i \in DOMAIN loop.tasks :
                   Ahead(now, turned.tasks[i].deadline, turned.tasks[i].interval)
<1> DEFINE tasks == loop.tasks
           after == Executed(tasks, now)
           turned == IF Due(loop.nearest, now) THEN ExecuteTasks(loop, now) ELSE loop
<1>1. /\ DOMAIN loop = {"tasks", "nearest", "now", "sleep", "pulse", "ran", "pulsed"}
      /\ tasks \in Seq(Task) /\ loop.now \in Times /\ loop.nearest = Nearest(tasks)
      /\ \A i \in DOMAIN tasks : Ahead(loop.now, tasks[i].deadline, tasks[i].interval)
  BY DEF LoopRight, Task
<1>2. /\ \A i \in DOMAIN tasks : tasks[i] \in Task
      /\ Len(tasks) \in Nat /\ DOMAIN tasks = 1..Len(tasks) /\ tasks = [i \in DOMAIN tasks |-> tasks[i]]
  BY <1>1, SeqMembers
<1>3. \A i \in DOMAIN tasks : tasks[i].deadline \in Times /\ tasks[i].interval \in Usable  BY <1>2 DEF Task
<1>4. \A i \in DOMAIN tasks : /\ after[i].interval = tasks[i].interval
                              /\ after[i].deadline = IF Due(tasks[i].deadline, now)
                                                     THEN Plus(now, tasks[i].interval)
                                                     ELSE tasks[i].deadline
                              /\ after[i] \in Task
                              /\ Ahead(now, after[i].deadline, after[i].interval)
  <2> SUFFICES ASSUME NEW i \in DOMAIN tasks
               PROVE  /\ after[i].interval = tasks[i].interval
                      /\ after[i].deadline = IF Due(tasks[i].deadline, now)
                                             THEN Plus(now, tasks[i].interval)
                                             ELSE tasks[i].deadline
                      /\ after[i] \in Task
                      /\ Ahead(now, after[i].deadline, after[i].interval)
    OBVIOUS
  <2> DEFINE next == Plus(now, tasks[i].interval)
  <2>1. next \in Times /\ Ahead(now, next, tasks[i].interval)
    <3>1. tasks[i].interval \in Usable /\ Early(now, tasks[i].interval)  BY <1>3
    <3> QED  BY <3>1, AheadAfter
  <2>2. ~ Due(tasks[i].deadline, now) => Ahead(now, tasks[i].deadline, tasks[i].interval)
    <3>1. tasks[i].deadline \in Times /\ tasks[i].interval \in Times /\ Counted(tasks[i].interval)
      BY <1>3 DEF Usable
    <3>2. Ahead(loop.now, tasks[i].deadline, tasks[i].interval) /\ loop.now \in Times  BY <1>1
    <3> QED  BY <3>1, <3>2, AheadDue
  <2>3. after[i] = IF Due(tasks[i].deadline, now) THEN [tasks[i] EXCEPT !.deadline = next] ELSE tasks[i]
    BY DEF Executed
  <2>4. tasks[i] \in Task  BY <1>2
  <2> HIDE DEF next, after
  <2>5. CASE Due(tasks[i].deadline, now)
    <3>1. after[i] = [tasks[i] EXCEPT !.deadline = next]  BY <2>3, <2>5
    <3>2. after[i].interval = tasks[i].interval /\ after[i].deadline = next /\ after[i] \in Task
      BY <2>1, <2>4, <3>1 DEF Task
    <3> QED  BY <2>1, <2>5, <3>2 DEF next
  <2>6. CASE ~ Due(tasks[i].deadline, now)  BY <2>2, <2>3, <2>4, <2>6
  <2> QED  BY <2>5, <2>6
<1>5. after \in Seq(Task) /\ DOMAIN after = DOMAIN tasks
  <2>1. DOMAIN after = DOMAIN tasks  BY DEF Executed
  <2>2. after = [i \in DOMAIN tasks |-> after[i]]  BY DEF Executed
  <2>3. DOMAIN tasks = 1..Len(tasks) /\ Len(tasks) \in Nat  BY <1>2
  <2> HIDE DEF after
  <2>4. after \in [1..Len(tasks) -> Task]  BY <1>4, <2>2, <2>3
  <2> QED  BY <2>1, <2>3, <2>4
<1>6. ASSUME Due(loop.nearest, now)
      PROVE  /\ DOMAIN turned = DOMAIN loop /\ turned.pulse = loop.pulse
             /\ turned.tasks = after /\ turned.nearest = Nearest(after)
  <2>1. turned = ExecuteTasks(loop, now)  BY <1>6
  <2> HIDE DEF after
  <2> QED  BY <1>1, <2>1 DEF ExecuteTasks, after
<1>7. ASSUME ~ Due(loop.nearest, now) PROVE after = tasks
  <2>1. ASSUME NEW i \in DOMAIN tasks PROVE ~ Due(tasks[i].deadline, now)
    <3>1. tasks \in TimedTasks /\ \A j \in DOMAIN tasks : Less(tasks[j].deadline, MaximumTime)
      BY <1>1 DEF TimedTasks, Ahead
    <3>2. /\ \E j \in DOMAIN tasks : Nearest(tasks) = tasks[j].deadline
          /\ Value(Nearest(tasks)) <= Value(tasks[i].deadline)
      <4> HIDE DEF tasks
      <4> QED  BY <2>1, <3>1, NearestIsNearest
    <3>3. PICK j \in DOMAIN tasks : Nearest(tasks) = tasks[j].deadline  BY <3>2
    <3>4. \A k \in DOMAIN tasks :
             Due(tasks[k].deadline, now) <=> Value(tasks[k].deadline) < Value(now) + NsecPerMsec
      <4> SUFFICES ASSUME NEW k \in DOMAIN tasks
                   PROVE  Due(tasks[k].deadline, now) <=>
                            Value(tasks[k].deadline) < Value(now) + NsecPerMsec
        OBVIOUS
      <4>1. /\ tasks[k].deadline \in Times /\ tasks[k].interval \in Times
            /\ Counted(tasks[k].interval)
        BY <1>3 DEF Usable
      <4>2. Ahead(loop.now, tasks[k].deadline, tasks[k].interval) /\ loop.now \in Times  BY <1>1
      <4> QED  BY <4>1, <4>2, AheadDue
    <3>5. ~ (Value(tasks[j].deadline) < Value(now) + NsecPerMsec)  BY <1>1, <1>7, <3>3, <3>4
    <3>6. /\ Value(tasks[i].deadline) \in Nat /\ Value(tasks[j].deadline) \in Nat
          /\ Value(now) \in Nat /\ NsecPerMsec \in Nat
      BY <1>3, ValueTyped, ClockAssumption
    <3>7. ~ (Value(tasks[i].deadline) < Value(now) + NsecPerMsec)  BY <3>2, <3>3, <3>5, <3>6
    <3> QED  BY <3>4, <3>7
  <2>2. after = [i \in DOMAIN tasks |-> tasks[i]]  BY <2>1 DEF Executed
  <2> QED  BY <1>2, <2>2
<1>8. CASE Due(loop.nearest, now)
  <2> HIDE DEF after, turned
  <2> QED  BY <1>4, <1>5, <1>6, <1>8 DEF TimedTasks, turned, after
<1>9. CASE ~ Due(loop.nearest, now)
  <2>1. turned = loop  BY <1>9
  <2> HIDE DEF after, turned
  <2> QED  BY <1>1, <1>4, <1>5, <1>7, <1>9, <2>1 DEF TimedTasks, turned, after
<1> QED  BY <1>8, <1>9

LEMMA PulseIsUsable == Msec(PulseInterval) \in Usable
<1>1. PulseInterval \in Nat \ {0} /\ NsecPerMsec \in Nat \ {0} /\ PulseInterval < 2^TimeBits
  BY ClockAssumption
<1>2. Msec(PulseInterval) \in Times /\ Value(Msec(PulseInterval)) = PulseInterval * NsecPerMsec
  BY <1>1, MsecCounts
<1>3. 0 * NsecPerMsec + NsecPerMsec <= PulseInterval * NsecPerMsec /\ 0 * NsecPerMsec = 0
  BY <1>1, Distributes
<1>4. Value(Msec(PulseInterval)) >= NsecPerMsec
  BY <1>1, <1>2, <1>3
<1>5. (PulseInterval * NsecPerMsec) \div NsecPerMsec = PulseInterval
  <2>1. (PulseInterval * NsecPerMsec + 0) \div NsecPerMsec = PulseInterval
    BY <1>1, QuotientIs
  <2>2. PulseInterval * NsecPerMsec \in Int  BY <1>1, Distributes
  <2> QED  BY <2>1, <2>2
<1> QED  BY <1>1, <1>2, <1>4, <1>5 DEF Usable, Counted

\* Before the clock has the last time there is, a deadline can still be set.
ClockGoesOn(loop, now) ==
    /\ now \in Times /\ Value(loop.now) <= Value(now)
    /\ \A i \in DOMAIN loop.tasks : Early(now, loop.tasks[i].interval)
    /\ Early(now, Msec(PulseInterval))

\* Whatever the tasks and their intervals, and however late a turn begins: it runs each task
\* once if less than a millisecond is left of its deadline and no other, sets the deadline
\* from now on and not from the one that was missed, pulses in the same way, and then
\* sleeps, but past no deadline; and the next turn finds the loop as this one did (eventLoop
\* and executeTasks of Reactor).
THEOREM TurnsGoOn ==
  ASSUME NEW loop, LoopRight(loop), NEW now, ClockGoesOn(loop, now)
  PROVE  LET turned == LoopTurn(loop, now)
             wakes  == Value(now) + turned.sleep * NsecPerMsec
         IN  /\ LoopRight(turned) /\ turned.now = now
             /\ DOMAIN turned.tasks = DOMAIN loop.tasks
             /\ \A i \in DOMAIN loop.tasks :
                  /\ turned.tasks[i].interval = loop.tasks[i].interval
                  /\ turned.tasks[i].deadline =
                       IF Value(loop.tasks[i].deadline) < Value(now) + NsecPerMsec
                       THEN Plus(now, loop.tasks[i].interval)
                       ELSE loop.tasks[i].deadline
                  /\ wakes <= Value(turned.tasks[i].deadline)
             /\ turned.pulse = IF Value(loop.pulse) < Value(now) + NsecPerMsec
                               THEN Plus(now, Msec(PulseInterval))
                               ELSE loop.pulse
             /\ wakes <= Value(turned.pulse) /\ turned.sleep \in Nat \ {0}
<1> DEFINE fields == {"tasks", "nearest", "now", "sleep", "pulse", "ran", "pulsed"}
           ran    == IF Due(loop.nearest, now) THEN ExecuteTasks(loop, now) ELSE loop
           pulsed == Pulsed(ran, now)
           turned == LoopTurn(loop, now)
           after  == Executed(loop.tasks, now)
           first  == IF Less(pulsed.nearest, pulsed.pulse) THEN pulsed.nearest ELSE pulsed.pulse
           wakes  == Value(now) + turned.sleep * NsecPerMsec
<1>1. /\ now \in Times /\ Value(loop.now) <= Value(now) /\ Early(now, Msec(PulseInterval))
      /\ \A i \in DOMAIN loop.tasks : Early(now, loop.tasks[i].interval)
  BY DEF ClockGoesOn
<1>2. /\ DOMAIN loop = fields /\ loop.tasks \in TimedTasks
      /\ loop.now \in Times /\ loop.pulse \in Times
      /\ Ahead(loop.now, loop.pulse, Msec(PulseInterval))
      /\ \A i \in DOMAIN loop.tasks :
            Ahead(loop.now, loop.tasks[i].deadline, loop.tasks[i].interval)
  BY DEF LoopRight, TimedTasks, Task
<1>3. /\ DOMAIN ran = fields /\ ran.pulse = loop.pulse
      /\ ran.tasks = after /\ after \in TimedTasks /\ ran.nearest = Nearest(after)
      /\ \A i \in DOMAIN loop.tasks : Ahead(now, after[i].deadline, after[i].interval)
  BY <1>1, <1>2, TurnExecutes
<1>4. DOMAIN after = DOMAIN loop.tasks  BY DEF Executed
<1>5. /\ DOMAIN pulsed = fields /\ pulsed.tasks = after /\ pulsed.nearest = Nearest(after)
      /\ pulsed.pulse = IF Due(loop.pulse, now) THEN Plus(now, Msec(PulseInterval)) ELSE loop.pulse
  <2> HIDE DEF ran, after
  <2>1. CASE Due(loop.pulse, now)
    <3>1. pulsed = Pulse(ran, now)  BY <1>3, <2>1 DEF Pulsed
    <3> QED  BY <1>3, <2>1, <3>1 DEF Pulse
  <2>2. CASE ~ Due(loop.pulse, now)
    <3>1. pulsed = ran  BY <1>3, <2>2 DEF Pulsed
    <3> QED  BY <1>3, <2>2, <3>1
  <2> QED  BY <2>1, <2>2
<1>6. /\ DOMAIN turned = fields /\ turned.tasks = after /\ turned.nearest = Nearest(after)
      /\ turned.pulse = pulsed.pulse /\ turned.now = now
      /\ turned.sleep = ToMilliseconds(Minus(first, now))
  <2>1. turned = Slept(pulsed, now)  BY DEF LoopTurn
  <2> HIDE DEF ran, pulsed, after
  <2> QED  BY <1>5, <2>1 DEF Slept
<1> HIDE DEF ran, pulsed, turned, after
<1>7. /\ pulsed.pulse \in Times /\ Ahead(now, pulsed.pulse, Msec(PulseInterval))
      /\ Due(loop.pulse, now) <=> Value(loop.pulse) < Value(now) + NsecPerMsec
  <2>1. Msec(PulseInterval) \in Times /\ Counted(Msec(PulseInterval))
    BY PulseIsUsable DEF Usable
  <2>2. /\ Due(loop.pulse, now) <=> Value(loop.pulse) < Value(now) + NsecPerMsec
        /\ ~ Due(loop.pulse, now) => Ahead(now, loop.pulse, Msec(PulseInterval))
    BY <1>1, <1>2, <2>1, AheadDue
  <2>3. /\ Plus(now, Msec(PulseInterval)) \in Times
        /\ Ahead(now, Plus(now, Msec(PulseInterval)), Msec(PulseInterval))
    BY <1>1, PulseIsUsable, AheadAfter
  <2> QED  BY <1>2, <1>5, <2>2, <2>3
<1>8. LoopRight(turned)
  BY <1>1, <1>3, <1>4, <1>6, <1>7 DEF LoopRight, TimedTasks, Task
<1>9. \A i \in DOMAIN loop.tasks : after[i].deadline \in Times /\ after[i].interval \in Times
  <2>1. \A i \in DOMAIN loop.tasks : after[i] \in Task  BY <1>3, <1>4, SeqMembers DEF TimedTasks
  <2> QED  BY <2>1 DEF Task, Usable
<1>10. /\ first \in Times /\ Value(first) <= Value(pulsed.pulse)
       /\ \A i \in DOMAIN loop.tasks : Value(first) <= Value(after[i].deadline)
       /\ Value(now) + NsecPerMsec <= Value(first) /\ Counted(Minus(first, now))
  <2>1. \A i \in DOMAIN after : Less(after[i].deadline, MaximumTime)
    BY <1>3, <1>4 DEF Ahead
  <2>2. /\ DOMAIN after = {} => Nearest(after) = MaximumTime
        /\ DOMAIN after # {} =>
             /\ \E i \in DOMAIN after : Nearest(after) = after[i].deadline
             /\ \A i \in DOMAIN after : Value(Nearest(after)) <= Value(after[i].deadline)
    BY <1>3, <2>1, NearestIsNearest
  <2>3. Value(now) \in Nat /\ Value(pulsed.pulse) \in Nat /\ NsecPerMsec \in Nat \ {0}
    BY <1>1, <1>7, ValueTyped, ClockAssumption
  <2>4. Counted(Minus(pulsed.pulse, now))
    BY <1>1, <1>7, PulseIsUsable, AheadDue, <2>3 DEF Usable
  <2>5. CASE DOMAIN after = {}
    <3>1. ~ Less(MaximumTime, pulsed.pulse)
      <4>1. Less(pulsed.pulse, MaximumTime)  BY <1>7 DEF Ahead
      <4>2. pulsed.pulse.sec \in Int /\ pulsed.pulse.nsec \in Int  BY <1>7, SecondIsNat DEF Times
      <4>3. MaximumTime.sec \in Int /\ MaximumTime.nsec \in Int  BY MaximumIsInt
      <4> QED  BY <4>1, <4>2, <4>3 DEF Less
    <3>2. first = pulsed.pulse  BY <1>5, <2>2, <2>5, <3>1
    <3> QED  BY <1>4, <1>7, <2>3, <2>4, <2>5, <3>2 DEF Ahead
  <2>6. CASE DOMAIN after # {}
    <3>1. PICK n \in DOMAIN after : Nearest(after) = after[n].deadline  BY <2>2, <2>6
    <3>2. /\ Nearest(after) \in Times /\ Ahead(now, Nearest(after), after[n].interval)
          /\ after[n].interval \in Times
      BY <1>3, <1>4, <1>9, <3>1
    <3>3. Counted(after[n].interval)
      <4>1. after[n] \in Task  BY <1>3, SeqMembers DEF TimedTasks
      <4> QED  BY <4>1 DEF Task, Usable
    <3>4. Counted(Minus(Nearest(after), now))
      BY <1>1, <2>3, <3>2, <3>3, AheadDue
    <3>5. Less(Nearest(after), pulsed.pulse) <=> Value(Nearest(after)) < Value(pulsed.pulse)
      BY <1>7, <3>2, OrderCounts
    <3>6. Value(Nearest(after)) \in Nat /\ \A i \in DOMAIN after : Value(after[i].deadline) \in Nat
      BY <1>4, <1>9, <3>2, ValueTyped
    <3>7. first = IF Less(Nearest(after), pulsed.pulse) THEN Nearest(after) ELSE pulsed.pulse
      BY <1>5
    <3> HIDE DEF first
    <3>8. CASE Less(Nearest(after), pulsed.pulse)
      BY <1>4, <2>2, <2>3, <2>6, <3>2, <3>4, <3>5, <3>6, <3>7, <3>8 DEF Ahead
    <3>9. CASE ~ Less(Nearest(after), pulsed.pulse)
      <4>1. first = pulsed.pulse /\ Value(first) <= Value(Nearest(after))
        BY <2>3, <3>5, <3>6, <3>7, <3>9
      <4>2. \A i \in DOMAIN after : Value(first) <= Value(after[i].deadline)
        BY <2>2, <2>3, <2>6, <3>6, <4>1
      <4> QED  BY <1>4, <1>7, <2>3, <2>4, <4>1, <4>2 DEF Ahead
    <3> QED  BY <3>8, <3>9
  <2> QED  BY <2>5, <2>6
<1> HIDE DEF first
<1>11. /\ turned.sleep \in Nat
       /\ turned.sleep > 0 => wakes <= Value(first)
       /\ Value(first) < Value(now) + (turned.sleep + 1) * NsecPerMsec
  BY <1>1, <1>6, <1>10, SleepEnds
<1>12. turned.sleep # 0
  <2> SUFFICES ASSUME turned.sleep = 0 PROVE FALSE  OBVIOUS
  <2>1. (0 + 1) * NsecPerMsec = NsecPerMsec /\ NsecPerMsec \in Nat  BY ClockAssumption
  <2>2. Value(first) \in Nat /\ Value(now) \in Nat  BY <1>1, <1>10, ValueTyped
  <2> QED  BY <1>10, <1>11, <2>1, <2>2
<1>13. wakes <= Value(first) /\ turned.sleep \in Nat \ {0}  BY <1>11, <1>12
<1>14. wakes \in Int
  <2>1. turned.sleep * NsecPerMsec \in Int  BY <1>11, ClockAssumption, Distributes
  <2> QED  BY <1>1, <2>1, ValueTyped
<1> HIDE DEF wakes
<1>15. Value(first) \in Nat /\ Value(pulsed.pulse) \in Nat /\ \A i \in DOMAIN loop.tasks : Value(after[i].deadline) \in Nat
  BY <1>7, <1>9, <1>10, ValueTyped
<1>16. ASSUME NEW i \in DOMAIN loop.tasks
       PROVE  /\ after[i].interval = loop.tasks[i].interval
              /\ after[i].deadline =
                   IF Value(loop.tasks[i].deadline) < Value(now) + NsecPerMsec
                   THEN Plus(now, loop.tasks[i].interval)
                   ELSE loop.tasks[i].deadline
              /\ wakes <= Value(after[i].deadline)
  <2>1. loop.tasks[i] \in Task  BY <1>2, SeqMembers DEF TimedTasks
  <2>2. /\ loop.tasks[i].deadline \in Times /\ loop.tasks[i].interval \in Times
        /\ Counted(loop.tasks[i].interval)
    BY <2>1 DEF Task, Usable
  <2>3. Due(loop.tasks[i].deadline, now) <=> Value(loop.tasks[i].deadline) < Value(now) + NsecPerMsec
    BY <1>1, <1>2, <2>2, AheadDue
  <2>4. after[i] = IF Due(loop.tasks[i].deadline, now)
                   THEN [loop.tasks[i] EXCEPT !.deadline = Plus(now, loop.tasks[i].interval)]
                   ELSE loop.tasks[i]
    BY DEF after, Executed
  <2>5. after[i].interval = loop.tasks[i].interval /\
        after[i].deadline = IF Due(loop.tasks[i].deadline, now)
                            THEN Plus(now, loop.tasks[i].interval) ELSE loop.tasks[i].deadline
    BY <2>1, <2>4 DEF Task
  <2>6. wakes <= Value(after[i].deadline)  BY <1>10, <1>13, <1>14, <1>15
  <2> QED  BY <2>3, <2>5, <2>6
<1>17. wakes <= Value(pulsed.pulse)  BY <1>10, <1>13, <1>14, <1>15
<1> QED  BY <1>4, <1>5, <1>6, <1>7, <1>8, <1>13, <1>16, <1>17 DEF wakes, turned

\* A loop begins with all its deadlines ahead, whenever the reactor is started and however
\* long ago its tasks were scheduled (the rebasing in Reactor::eventLoop).
THEOREM LoopsBegin ==
  ASSUME NEW tasks \in TimedTasks, NEW now \in Times, Early(now, Msec(PulseInterval)),
         \A i \in DOMAIN tasks : Early(now, tasks[i].interval)
  PROVE  LoopRight(BeginLoop(tasks, now))
<1> DEFINE loop == BeginLoop(tasks, now)
           rebased == [i \in DOMAIN tasks |-> [tasks[i] EXCEPT !.deadline = Plus(now, tasks[i].interval)]]
<1>1. /\ \A i \in DOMAIN tasks : tasks[i] \in Task
      /\ Len(tasks) \in Nat /\ DOMAIN tasks = 1..Len(tasks)
  BY SeqMembers DEF TimedTasks
<1>2. ASSUME NEW i \in DOMAIN tasks
      PROVE  rebased[i] \in Task /\ Ahead(now, rebased[i].deadline, rebased[i].interval)
  <2>1. tasks[i].interval \in Usable /\ Early(now, tasks[i].interval) /\ tasks[i] \in Task
    BY <1>1 DEF Task
  <2>2. Plus(now, tasks[i].interval) \in Times /\ Ahead(now, Plus(now, tasks[i].interval), tasks[i].interval)
    BY <2>1, AheadAfter
  <2>3. rebased[i] \in Task /\ rebased[i].interval = tasks[i].interval
          /\ rebased[i].deadline = Plus(now, tasks[i].interval)
    BY <2>1, <2>2 DEF Task
  <2> QED  BY <2>2, <2>3
<1>3. rebased \in Seq(Task) /\ DOMAIN rebased = DOMAIN tasks
  <2>1. DOMAIN rebased = DOMAIN tasks  OBVIOUS
  <2>2. rebased = [i \in DOMAIN tasks |-> rebased[i]]  OBVIOUS
  <2> HIDE DEF rebased
  <2>3. rebased \in [1..Len(tasks) -> Task]  BY <1>1, <1>2, <2>2
  <2> QED  BY <1>1, <2>1, <2>3
<1>4. /\ DOMAIN loop = {"tasks", "nearest", "now", "sleep", "pulse", "ran", "pulsed"}
      /\ loop.tasks = rebased /\ loop.nearest = Nearest(rebased) /\ loop.now = now
      /\ loop.pulse = Plus(now, Msec(PulseInterval))
  BY DEF BeginLoop
<1>5. /\ Plus(now, Msec(PulseInterval)) \in Times
      /\ Ahead(now, Plus(now, Msec(PulseInterval)), Msec(PulseInterval))
  BY PulseIsUsable, AheadAfter
<1> HIDE DEF loop, rebased
<1>6. LoopRight(loop)
  BY <1>2, <1>3, <1>4, <1>5 DEF LoopRight, Task
<1> QED  BY <1>6 DEF loop
=============================================================================

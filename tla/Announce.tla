------------------------------ MODULE Announce ------------------------------
(***************************************************************************)
(* The trackers of a torrent (Tracker) and the task that announces to them *)
(* (AnnounceScheduler), on the reactor of the torrent.  An announce is an  *)
(* exchange over a connection of its own: BootstrapConnection connects,    *)
(* sends the request and gives the socket to the response assembler.  An   *)
(* announce that takes 30 seconds is given up, its connection is not.      *)
(***************************************************************************)
EXTENDS Naturals, FiniteSets

CONSTANTS
    Trackers,
    Endpoints,      \* addresses of peers, that trackers tell
    MaxAnnounces    \* bound: announces to one tracker

ASSUME AnnounceAssumption == MaxAnnounces \in Nat

VARIABLES
    running,        \* Reactor: the thread runs and is not told to stop
    status,         \* announceStatus_
    due,            \* trackers whose suggestedAnnounceTime_ is reached
    aged,           \* trackers in process whose announceStartTime_ is 30 seconds ago
    succeeded,      \* trackers with timesSucceeded_ > 0
    frozen,         \* freezeSuccessFailureCounters_
    response,       \* the peers of lastResponse_
    announcing,     \* announcingTrackers_
    exchanges,      \* connections to trackers
    announces,      \* how many announces each tracker has had
    \* history: trackers whose last answer came in time and was not yet handed on;
    \* trackers whose state an exchange changed that was given up before; trackers
    \* whose waiting answer, or whose connection, a stop took away
    fresh, overtaken, interrupted

announceVars == <<status, due, aged, succeeded, frozen, response, announcing, exchanges,
                  announces, fresh, overtaken, interrupted>>

AnnounceInit ==
    /\ status = [t \in Trackers |-> "failed"]
    /\ due = Trackers /\ aged = {}
    /\ succeeded = {} /\ frozen = {}
    /\ response = [t \in Trackers |-> {}]
    /\ announcing = {} /\ exchanges = {}
    /\ announces = [t \in Trackers |-> 0]
    /\ fresh = {} /\ overtaken = {} /\ interrupted = {}

InProcess == {t \in Trackers : status[t] = "inProcess"}
TimedOut  == InProcess \cap aged
Busy      == InProcess \ aged

\* Trackers whose peers execute() hands on, and those it announces to.
Ready    == {t \in announcing : status[t] = "succeeded"}
Starting == {t \in due \ InProcess : announces[t] < MaxAnnounces}
PeersReady == UNION {response[t] : t \in Ready}

\* The exchange that the tracker's state is about; those before it are late.
Current(e) == e.n = announces[e.tracker] /\ status[e.tracker] = "inProcess"

\* Mutant: the set is cleared while announces that were just begun are in it.
AnnouncingCleared == IF Busy = {} THEN {} ELSE (announcing \ Ready) \cup Starting

\* announcingTrackers_ after execute().
AnnouncingAfter ==
    IF Busy \cup Starting = {} THEN {} ELSE (announcing \ Ready) \cup Starting

\* Mutant: an announce has all the time it wants.
ScheduleWithoutTimeout(refused) ==
    /\ running /\ refused \subseteq Starting
    /\ status' = [t \in Trackers |->
                    IF t \in refused THEN "failed"
                    ELSE IF t \in Starting THEN "inProcess" ELSE status[t]]
    /\ due' = due \ refused
    /\ aged' = aged \ Starting
    /\ frozen' = frozen \ (Starting \ succeeded)
    /\ announcing' = AnnouncingAfter
    /\ announces' = [t \in Trackers |-> IF t \in Starting THEN announces[t] + 1 ELSE announces[t]]
    /\ exchanges' = exchanges \cup {[tracker |-> t, n |-> announces'[t], stage |-> "opening"] :
                                    t \in Starting \ refused}
    /\ fresh' = fresh \ (Ready \cup Starting)
    /\ overtaken' = overtaken \ Starting
    /\ interrupted' = interrupted \ Starting
    /\ UNCHANGED <<succeeded, response>>

\* execute(), for all the trackers: give up the announces that take too long, hand on
\* peers (PeersReady) and announce; refused are those whose connection cannot even be
\* begun.  announce() leaves the suggested time as it was.
Schedule(refused) ==
    /\ running /\ refused \subseteq Starting
    /\ status' = [t \in Trackers |->
                    IF t \in TimedOut \cup refused THEN "failed"
                    ELSE IF t \in Starting THEN "inProcess" ELSE status[t]]
    /\ due' = due \ (TimedOut \cup refused)
    /\ aged' = aged \ (TimedOut \cup Starting)
    /\ frozen' = frozen \ (Starting \ succeeded)
    /\ announcing' = AnnouncingAfter
    /\ announces' = [t \in Trackers |-> IF t \in Starting THEN announces[t] + 1 ELSE announces[t]]
    /\ exchanges' = exchanges \cup {[tracker |-> t, n |-> announces'[t], stage |-> "opening"] :
                                    t \in Starting \ refused}
    /\ fresh' = fresh \ (Ready \cup Starting)
    /\ overtaken' = overtaken \ Starting
    /\ interrupted' = interrupted \ Starting
    /\ UNCHANGED <<succeeded, response>>

\* What a stop takes away: an answer that execute() has not handed on yet, because its
\* tracker fails, and the connection of an announce that stays in process.
Interrupted(kept) ==
    (fresh \cap succeeded)
        \cup {t \in InProcess \ succeeded : ~\E e \in kept : e.tracker = t /\ Current(e)}

\* announceStopped(), for the trackers that answered before: the reactor no longer runs,
\* so that the announce fails before it is sent; the failure suggests to wait.  The
\* connections are deleted with the reactor's sockets, but for those that it did not
\* yet observe.
StopAnnouncing(kept) ==
    /\ kept \subseteq {e \in exchanges : e.stage = "opening"}
    /\ exchanges' = kept
    /\ status' = [t \in Trackers |-> IF t \in succeeded THEN "failed" ELSE status[t]]
    /\ due' = due \ succeeded
    /\ frozen' = frozen \cup succeeded
    /\ succeeded' = {}
    /\ interrupted' = interrupted \cup Interrupted(kept)
    /\ aged' = aged \ succeeded
    /\ UNCHANGED <<response, announcing, announces, fresh, overtaken>>

----------------------------------------------------------------------------
\* Time.

ReachTime(t) ==
    /\ t \notin due
    /\ due' = due \cup {t}
    /\ UNCHANGED <<status, aged, succeeded, frozen, response, announcing, exchanges,
                   announces, fresh, overtaken, interrupted>>

Age(t) ==
    /\ t \in Busy
    /\ aged' = aged \cup {t}
    /\ UNCHANGED <<status, due, succeeded, frozen, response, announcing, exchanges,
                   announces, fresh, overtaken, interrupted>>

----------------------------------------------------------------------------
\* What becomes of an exchange.

Overtakes(e) == overtaken' = IF Current(e) THEN overtaken ELSE overtaken \cup {e.tracker}

Open(e) ==
    /\ running /\ e.stage = "opening"
    /\ exchanges' = (exchanges \ {e}) \cup {[e EXCEPT !.stage = "open"]}
    /\ UNCHANGED <<status, due, aged, succeeded, frozen, response, announcing, announces,
                   fresh, overtaken, interrupted>>

\* Mutant: a connection that is lost before the response is not reported.
EndSilently(e) ==
    /\ running
    /\ exchanges' = exchanges \ {e}
    /\ UNCHANGED <<status, due, aged, succeeded, frozen, response, announcing, announces,
                   fresh, overtaken, interrupted>>

\* handleConnectError, handleInvalidHttpResponse, or processTrackerResponse for an
\* error, for bencode that cannot be parsed and for what came until the connection
\* was lost.
End(e) ==
    /\ running
    /\ exchanges' = exchanges \ {e}
    /\ status' = [status EXCEPT ![e.tracker] = "failed"]
    /\ due' = due \ {e.tracker}
    /\ aged' = aged \ {e.tracker}
    /\ Overtakes(e)
    /\ UNCHANGED <<succeeded, frozen, response, announcing, announces, fresh, interrupted>>

\* processGoodHttpResponse and succeed(), whether the announce was given up or not.
Answer(e, peers) ==
    /\ running /\ e.stage = "open"
    /\ exchanges' = exchanges \ {e}
    /\ status' = [status EXCEPT ![e.tracker] = "succeeded"]
    /\ due' = due \ {e.tracker}
    /\ succeeded' = IF e.tracker \in frozen THEN succeeded ELSE succeeded \cup {e.tracker}
    /\ response' = [response EXCEPT ![e.tracker] = peers]
    /\ fresh' = IF Current(e) THEN fresh \cup {e.tracker} ELSE fresh \ {e.tracker}
    /\ aged' = aged \ {e.tracker}
    /\ Overtakes(e)
    /\ UNCHANGED <<frozen, announcing, announces, interrupted>>

Exchange(e) ==
    \/ Open(e)
    \/ End(e)
    \/ \E peers \in SUBSET Endpoints : Answer(e, peers)

----------------------------------------------------------------------------
\* Types, and the bounds of the model.
AnnounceTypeOK ==
    /\ running \in BOOLEAN
    /\ status \in [Trackers -> {"failed", "succeeded", "inProcess"}]
    /\ due \subseteq Trackers /\ aged \subseteq Trackers
    /\ succeeded \subseteq Trackers /\ frozen \subseteq Trackers
    /\ response \in [Trackers -> SUBSET Endpoints]
    /\ announcing \subseteq Trackers
    /\ exchanges \subseteq [tracker : Trackers, n : 1..MaxAnnounces, stage : {"opening", "open"}]
    /\ announces \in [Trackers -> 0..MaxAnnounces]
    /\ fresh \subseteq Trackers /\ overtaken \subseteq Trackers /\ interrupted \subseteq Trackers
=============================================================================

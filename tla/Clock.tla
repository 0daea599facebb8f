------------------------------- MODULE Clock -------------------------------
(***************************************************************************)
(* Util::Time, which is seconds and nanoseconds, and what a reactor makes  *)
(* of it: when its event loop runs the tasks, when it looks at the sockets *)
(* and how long it sleeps.                                                 *)
(***************************************************************************)
EXTENDS Integers, Sequences, SequencesExt

CONSTANTS
    MsecPerSec,     \* 1000
    NsecPerMsec,    \* 1000000
    TimeBits,       \* bits of the numbers in a Time: 64
    PulseInterval,  \* milliseconds between two pulses: 100
    Intervals,      \* those of the tasks, in milliseconds: 1000, 1000, 10000, .., 150
    Delays          \* bounds how late a turn of a loop begins, in nanoseconds

ASSUME ClockAssumption ==
    /\ {MsecPerSec, NsecPerMsec, TimeBits, PulseInterval} \subseteq Nat \ {0}
    /\ PulseInterval < 2^TimeBits

NsecPerSec == MsecPerSec * NsecPerMsec

----------------------------------------------------------------------------
\* Util::Time.

Zero        == [sec |-> 0, nsec |-> 0]
Msec(n)     == [sec |-> n \div MsecPerSec, nsec |-> (n % MsecPerSec) * NsecPerMsec]
Hms(h, m, s) == [sec |-> h * 3600 + m * 60 + s, nsec |-> 0]
MaximumTime == [sec |-> 2^(TimeBits - 1) - 1, nsec |-> 2^(TimeBits - 1) - 1]

Equal(t, u)   == t.sec = u.sec /\ t.nsec = u.nsec
Greater(t, u) == t.sec > u.sec \/ (t.sec = u.sec /\ t.nsec > u.nsec)
Less(t, u)    == t.sec < u.sec \/ (t.sec = u.sec /\ t.nsec < u.nsec)
GreaterEqual(t, u) == Greater(t, u) \/ Equal(t, u)
LessEqual(t, u)    == Less(t, u) \/ Equal(t, u)

\* operator +=
Plus(t, u) ==
    [sec  |-> t.sec + u.sec + (t.nsec + u.nsec) \div NsecPerSec,
     nsec |-> (t.nsec + u.nsec) % NsecPerSec]

Borrowed(t) == IF t.nsec < 0 THEN [sec |-> t.sec - 1, nsec |-> t.nsec + NsecPerSec] ELSE t

\* Mutant: a difference may be negative.
SignedMinus(t, u) == Borrowed([sec |-> t.sec - u.sec, nsec |-> t.nsec - u.nsec])

\* operator -=
Minus(t, u) ==
    LET difference == Borrowed([sec |-> t.sec - u.sec, nsec |-> t.nsec - u.nsec])
    IN  IF difference.sec < 0 THEN Zero ELSE difference

AddMsec(t, n) == IF n > 0 THEN Plus(t, Msec(n)) ELSE Minus(t, Msec(-n))
AddSec(t, n)  == IF t.sec + n < 0 THEN Zero ELSE [t EXCEPT !.sec = @ + n]

Hour(t)        == t.sec \div 3600
Minute(t)      == (t.sec % 3600) \div 60
Second(t)      == t.sec % 60
Millisecond(t) == t.nsec \div NsecPerMsec
ToMinutes(t)   == (t.sec % 2^TimeBits) \div 60

\* toMilliseconds: a size_t.
ToMilliseconds(t) == (t.sec * MsecPerSec + t.nsec \div NsecPerMsec) % 2^TimeBits

----------------------------------------------------------------------------
\* Reactor.  A loop has its tasks, the nearest of their deadlines, the deadline of the
\* pulse and how long it sleeps; ran and pulsed are what it did: the task and the time.

Nearest(tasks) ==
    LET deadlines == {tasks[i].deadline : i \in DOMAIN tasks} \cup {MaximumTime}
    IN  CHOOSE t \in deadlines : \A u \in deadlines : ~ Less(u, t)

\* scheduleTask: the deadline does not matter yet.
ScheduleTask(tasks, interval) == Append(tasks, [interval |-> Msec(interval), deadline |-> Zero])

\* The beginning of eventLoop.
BeginLoop(tasks, now) ==
    LET rebased == [i \in DOMAIN tasks |->
                       [tasks[i] EXCEPT !.deadline = Plus(now, tasks[i].interval)]]
    IN  [tasks |-> rebased, nearest |-> Nearest(rebased), now |-> now, sleep |-> 0,
         pulse |-> Plus(now, Msec(PulseInterval)), ran |-> <<>>, pulsed |-> <<>>]

Due(deadline, now) == ToMilliseconds(Minus(deadline, now)) = 0

Executed(tasks, now) ==
    [i \in DOMAIN tasks |->
        IF Due(tasks[i].deadline, now)
        THEN [tasks[i] EXCEPT !.deadline = Plus(now, tasks[i].interval)]
        ELSE tasks[i]]

ExecuteTasks(loop, now) ==
    LET due   == SelectSeq([i \in DOMAIN loop.tasks |-> i],
                           LAMBDA i : Due(loop.tasks[i].deadline, now))
        tasks == Executed(loop.tasks, now)
    IN  [loop EXCEPT !.tasks = tasks, !.nearest = Nearest(tasks),
             !.ran = @ \o [n \in DOMAIN due |-> [task |-> due[n], at |-> now]]]

Pulse(loop, now) ==
    [loop EXCEPT !.pulse = Plus(now, Msec(PulseInterval)), !.pulsed = Append(@, now)]

\* One turn; the sleep is reckoned from the time before the tasks ran.
Slept(loop, now) ==
    LET first == IF Less(loop.nearest, loop.pulse) THEN loop.nearest ELSE loop.pulse
    IN  [loop EXCEPT !.now = now, !.sleep = ToMilliseconds(Minus(first, now))]
Pulsed(loop, now) == IF Due(loop.pulse, now) THEN Pulse(loop, now) ELSE loop
LoopTurn(loop, now) ==
    Slept(Pulsed(IF Due(loop.nearest, now) THEN ExecuteTasks(loop, now) ELSE loop, now), now)

----------------------------------------------------------------------------
\* Properties.

Value(t) == t.sec * NsecPerSec + t.nsec
Time(n)  == [sec |-> n \div NsecPerSec, nsec |-> n % NsecPerSec]
Moments  == 0..2 * NsecPerSec

\* A Time counts like a number of nanoseconds that stops at zero (Util::Time).
TimeCounts ==
    /\ \A m, n \in Moments :
          /\ Value(Plus(Time(m), Time(n))) = m + n
          /\ Value(Minus(Time(m), Time(n))) = IF m > n THEN m - n ELSE 0
          /\ Plus(Time(m), Time(n)).nsec < NsecPerSec
          /\ Less(Time(m), Time(n)) = (m < n) /\ Greater(Time(m), Time(n)) = (m > n)
          /\ LessEqual(Time(m), Time(n)) = (m <= n) /\ GreaterEqual(Time(m), Time(n)) = (m >= n)
          /\ Less(Time(m), MaximumTime)
    /\ \A m \in Moments :
          /\ ToMilliseconds(Time(m)) = m \div NsecPerMsec
          /\ Time(m) = Plus([Time(m) EXCEPT !.nsec = @ % NsecPerMsec],
                            Msec(Millisecond(Time(m))))
          /\ \A n \in -(2 * MsecPerSec)..2 * MsecPerSec :
                LET value == m + n * NsecPerMsec
                IN  Value(AddMsec(Time(m), n)) = IF value > 0 THEN value ELSE 0
          /\ \A n \in -3..3 :
                LET value == m + n * NsecPerSec
                IN  Value(AddSec(Time(m), n)) = IF value > 0 THEN value ELSE 0
    /\ \A s \in {0, 59, 60, 3599, 3600, 7325} :
          LET t == AddSec(Zero, s)
          IN  t = Hms(Hour(t), Minute(t), Second(t)) /\ ToMinutes(t) = 60 * Hour(t) + Minute(t)

\* The times that the clock shows, and those whose milliseconds a size_t counts.
Times      == [sec : Nat, nsec : 0..NsecPerSec - 1]
Counted(t) == Value(t) \div NsecPerMsec < 2^TimeBits
Usable     == {t \in Times : Value(t) >= NsecPerMsec /\ Counted(t)}  \* as an interval

\* A deadline is ahead that is not due yet and not further away than the interval.
Ahead(now, deadline, interval) ==
    /\ Value(now) + NsecPerMsec <= Value(deadline)
    /\ Value(deadline) <= Value(now) + Value(interval)
    /\ Less(deadline, MaximumTime)

\* Between two turns the loop has the nearest of its deadlines, and all are ahead.
LoopRight(loop) ==
    /\ DOMAIN loop = {"tasks", "nearest", "now", "sleep", "pulse", "ran", "pulsed"}
    /\ loop.tasks \in Seq([interval : Usable, deadline : Times])
    /\ loop.now \in Times /\ loop.pulse \in Times
    /\ loop.nearest = Nearest(loop.tasks)
    /\ \A i \in DOMAIN loop.tasks :
          Ahead(loop.now, loop.tasks[i].deadline, loop.tasks[i].interval)
    /\ Ahead(loop.now, loop.pulse, Msec(PulseInterval))

\* The turns of a loop: each one begins as much after the sleep, or before its end, as
\* late says, in nanoseconds.
Turns(loop, late) ==
    FoldLeft(LAMBDA l, d : LoopTurn(l, Time(LET n == Value(l.now) + l.sleep * NsecPerMsec + d
                                        IN  IF n > Value(l.now) THEN n ELSE Value(l.now))),
             loop, late)
RunsOf(loop, i) == SelectSeq(loop.ran, LAMBDA r : r.task = i)

\* However long the turns of the loop take, a task runs once when it is due, never a
\* millisecond too early and never twice in a row to catch up; a loop that wakes when it
\* wanted to is never late and always sleeps (Reactor::eventLoop and executeTasks).
TasksRun(intervals) ==
    \A start \in {0, NsecPerSec - 1}, late \in [1..4 -> Delays \cup {-1}] :
        LET tasks == FoldLeft(ScheduleTask, <<>>, intervals)
            loop  == Turns(BeginLoop(tasks, Time(start)), late)
        IN  /\ LoopRight(loop)
            /\ \A i \in DOMAIN tasks :
                  LET runs  == RunsOf(loop, i)
                      began == IF runs = <<>> THEN start ELSE Value(runs[Len(runs)].at)
                      Since(n) == Value(runs[n].at) -
                                     IF n = 1 THEN start ELSE Value(runs[n - 1].at)
                  IN  /\ \A n \in DOMAIN runs : Since(n) > (intervals[i] - 1) * NsecPerMsec
                      /\ Value(loop.now) - began < intervals[i] * NsecPerMsec
            /\ loop.sleep > 0
            /\ \A n \in DOMAIN tasks :
                  Value(loop.now) + loop.sleep * NsecPerMsec <= Value(loop.tasks[n].deadline)
            /\ Value(loop.now) + loop.sleep * NsecPerMsec <= Value(loop.pulse)
ReactorsOnTime == TimeCounts /\ TasksRun(Intervals) /\ TasksRun(<<>>)
=============================================================================

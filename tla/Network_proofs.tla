--------------------------- MODULE Network_proofs ---------------------------
(***************************************************************************)
(* What a torrent knows of its trackers and of its peers, for any number   *)
(* of trackers, addresses, connections and stops: in which ways alone an   *)
(* answer or a connection is lost, that every attempt has its one entry,   *)
(* and which identities the peers have.                                    *)
(***************************************************************************)
EXTENDS Network, WellFoundedInduction, TLAPS

\* The two halves of NothingForgotten.
AnswersKept ==
    /\ \A t \in fresh \ (overtaken \cup interrupted) : t \in announcing /\ status[t] = "succeeded"
    /\ \A t \in InProcess \ interrupted : \E e \in exchanges : e.tracker = t /\ Current(e)
AddressesTried ==
    \A a \in Addresses : Alive /\ book[a].state = "connecting" =>
        a \in dropped \/ \E c \in attempts : c.address = a

\* A tracker that an announce goes to is among those whose answers are handed on.
InProcessAnnounced == InProcess \subseteq announcing

\* Peers that came to the acceptor have the id that is read in its buffer.
Known == peers \cup ToSet(waiting)
Identified(w) ==
    /\ w \in Contact
    /\ w.who \in Addresses => w.id = IdOf[w.who]
    /\ w.who \in Incoming => Len(buffer) >= 2 /\ w.id = ReadId(buffer)
IdentityRead == \A w \in Known : Identified(w)

AnnounceInv == AnnounceTypeOK /\ stops \in 0..MaxStops /\ InProcessAnnounced /\ AnswersKept
SwarmInv    == SwarmTypeOK /\ EntriesHold /\ AddressesTried /\ IdentityRead
IInv        == AnnounceInv /\ SwarmInv

----------------------------------------------------------------------------
\* A set of numbers that has 0 and the successor of each of its members has them all.
LEMMA NatSetInduction ==
  ASSUME NEW T \in SUBSET Nat, 0 \in T, \A n \in T : n + 1 \in T
  PROVE  T = Nat
<1> SUFFICES ASSUME Nat \ T # {} PROVE FALSE
  OBVIOUS
<1>1. PICK n \in Nat \ T : \A m \in Nat \ T : ~ (<<m, n>> \in OpToRel(<, Nat))
  BY NatLessThanWellFounded, WFMin
<1>2. n # 0 /\ n - 1 \in Nat  OBVIOUS
<1>3. <<n - 1, n>> \in OpToRel(<, Nat)  BY <1>2 DEF OpToRel
<1>4. n - 1 \in T  BY <1>1, <1>2, <1>3
<1> QED  BY <1>2, <1>4

\* The largest of some of the first numbers.
LEMMA MaxOfFirst ==
  ASSUME NEW n \in Nat, NEW t \in SUBSET (1..n), t # {}
  PROVE  Max(t) \in t /\ \A y \in t : Max(t) >= y
<1> DEFINE Bounded(k) == \A u \in SUBSET (1..k) : u # {} => \E x \in u : \A y \in u : x >= y
           T == {k \in Nat : Bounded(k)}
<1>1. 0 \in T
  <2>1. SUBSET (1..0) = {{}}  OBVIOUS
  <2> QED  BY <2>1
<1>2. ASSUME NEW k \in T PROVE k + 1 \in T
  <2> SUFFICES ASSUME NEW u \in SUBSET (1..k+1), u # {} PROVE \E x \in u : \A y \in u : x >= y
    OBVIOUS
  <2>1. CASE k + 1 \in u  BY <2>1
  <2>2. CASE k + 1 \notin u
    <3>1. u \in SUBSET (1..k)  BY <2>2
    <3> QED  BY <3>1
  <2> QED  BY <2>1, <2>2
<1>3. T = Nat
  <2> HIDE DEF T
  <2>1. T \in SUBSET Nat  BY DEF T
  <2> QED  BY <1>1, <1>2, <2>1, NatSetInduction
<1>4. \E x \in t : \A y \in t : x >= y  BY <1>3
<1> QED  BY <1>4 DEF Max

\* The recursive function by which FoldLeft goes through a sequence, over the first n.
Folding(f, registered, contacts, n) ==
    f = [t \in SUBSET (1..n) |->
            IF t = {} THEN registered ELSE Register(f[t \ {Max(t)}], contacts[Max(t)])]

\* There is such a function.
LEMMA FoldingExists ==
  ASSUME NEW registered, NEW contacts, NEW n \in Nat
  PROVE  \E f : Folding(f, registered, contacts, n)
<1> DEFINE T == {k \in Nat : \E f : Folding(f, registered, contacts, k)}
<1>1. 0 \in T
  <2> DEFINE f == [t \in {{}} |-> registered]
  <2>1. SUBSET (1..0) = {{}}  OBVIOUS
  <2>2. Folding(f, registered, contacts, 0)  BY <2>1 DEF Folding
  <2> QED  BY <2>2
<1>2. ASSUME NEW k \in T PROVE k + 1 \in T
  <2>1. PICK f : Folding(f, registered, contacts, k)  OBVIOUS
  <2> DEFINE g == [t \in SUBSET (1..k+1) |->
                     IF k + 1 \in t THEN Register(f[t \ {k+1}], contacts[k+1]) ELSE f[t]]
  <2>2. ASSUME NEW t \in SUBSET (1..k+1), t # {}
        PROVE  g[t] = Register(g[t \ {Max(t)}], contacts[Max(t)])
    <3>1. Max(t) \in t /\ \A y \in t : Max(t) >= y
      <4>1. k + 1 \in Nat  OBVIOUS
      <4> HIDE DEF T, g
      <4> QED  BY <2>2, <4>1, MaxOfFirst
    <3>2. CASE k + 1 \in t
      <4>1. Max(t) = k + 1
        <5>1. Max(t) \in 1..k+1 /\ Max(t) >= k + 1 /\ k \in Nat  BY <3>1, <3>2
        <5> QED  BY <5>1
      <4>2. t \ {k+1} \in SUBSET (1..k) /\ k + 1 \notin t \ {k+1}  OBVIOUS
      <4> QED  BY <3>2, <4>1, <4>2
    <3>3. CASE k + 1 \notin t
      <4>1. t \in SUBSET (1..k)  BY <3>3
      <4>2. f[t] = Register(f[t \ {Max(t)}], contacts[Max(t)])  BY <2>1, <2>2, <4>1 DEF Folding
      <4> QED  BY <3>1, <3>3, <4>1, <4>2
    <3> QED  BY <3>2, <3>3
  <2>3. g[{}] = registered  BY <2>1 DEF Folding
  <2>4. g = [t \in SUBSET (1..k+1) |-> g[t]]  OBVIOUS
  <2> HIDE DEF g
  <2>5. Folding(g, registered, contacts, k + 1)  BY <2>2, <2>3, <2>4 DEF Folding
  <2> QED  BY <2>5
<1>3. T = Nat
  <2> HIDE DEF T
  <2>1. T \in SUBSET Nat  BY DEF T
  <2> QED  BY <1>1, <1>2, <2>1, NatSetInduction
<1> QED  BY <1>3

\* The peers after some were registered are those from before and some of the new ones
\* (CommandTask registers the peers that wait one after the other).
LEMMA RegisteredPeers ==
  ASSUME NEW registered, NEW S, NEW contacts \in Seq(S)
  PROVE  FoldLeft(Register, registered, contacts) \subseteq registered \cup ToSet(contacts)
<1> DEFINE n == Len(contacts)
           iter == CHOOSE f : Folding(f, registered, contacts, n)
<1>1. n \in Nat /\ DOMAIN contacts = 1..n  OBVIOUS
<1>2. Folding(iter, registered, contacts, n)  BY <1>1, FoldingExists
<1>3. FoldLeft(Register, registered, contacts) = iter[1..n]
  BY <1>1 DEF FoldLeft, MapThenFoldSet, Folding
<1> HIDE DEF iter
<1> DEFINE T == {k \in Nat : k <= n => iter[1..k] \subseteq registered \cup ToSet(contacts)}
<1>4. 0 \in T
  <2>1. 1..0 = {}  OBVIOUS
  <2> QED  BY <1>1, <1>2, <2>1 DEF Folding
<1>5. ASSUME NEW k \in T PROVE k + 1 \in T
  <2> SUFFICES ASSUME k + 1 <= n PROVE iter[1..k+1] \subseteq registered \cup ToSet(contacts)
    OBVIOUS
  <2>1. 1..k+1 \in SUBSET (1..n) /\ 1..k+1 # {} /\ (1..k+1) \ {k+1} = 1..k  BY <1>1
  <2>2. Max(1..k+1) = k + 1
    <3>1. Max(1..k+1) \in 1..k+1 /\ \A y \in 1..k+1 : Max(1..k+1) >= y
      <4> HIDE DEF T, n
      <4> QED  BY <1>1, <2>1, MaxOfFirst
    <3>2. k + 1 \in 1..k+1 /\ k \in Nat  OBVIOUS
    <3> QED  BY <3>1, <3>2
  <2>3. iter[1..k+1] = Register(iter[1..k], contacts[k+1])  BY <1>2, <2>1, <2>2 DEF Folding
  <2>4. contacts[k+1] \in ToSet(contacts)  BY <1>1 DEF ToSet
  <2>5. iter[1..k] \subseteq registered \cup ToSet(contacts)  BY <1>1
  <2> QED  BY <2>3, <2>4, <2>5 DEF Register
<1>6. T = Nat
  <2> HIDE DEF T
  <2>1. T \in SUBSET Nat  BY DEF T
  <2> QED  BY <1>4, <1>5, <2>1, NatSetInduction
<1> QED  BY <1>1, <1>3, <1>6

----------------------------------------------------------------------------
\* The announcing side.  running is the only variable of it that others change.
USE DEF announceVars, InProcess, TimedOut, Busy, Ready, Starting, Current

\* What a pass of the scheduler leaves: no answer waits any more, and each announce in
\* process has its exchange.
LEMMA ScheduleHolds ==
  ASSUME AnnounceInv, NEW refused, Schedule(refused), stops' = stops, running' = running
  PROVE  AnnounceInv'
<1> USE DEF AnnounceInv
<1>a. \A t \in Trackers : announces[t] \in 0..MaxAnnounces /\ announces[t] \in Nat
  BY AnnounceAssumption DEF AnnounceTypeOK
<1>b. \A t \in Starting : t \in Trackers /\ announces'[t] = announces[t] + 1 /\ announces'[t] \in 1..MaxAnnounces
  BY <1>a, AnnounceAssumption DEF Schedule, AnnounceTypeOK
<1>c. \A t \in Trackers \ Starting : announces'[t] = announces[t]
  BY DEF Schedule
<1>1. announces' \in [Trackers -> 0..MaxAnnounces]
  <2>1. announces' = [t \in Trackers |-> announces'[t]]  BY DEF Schedule
  <2> HIDE DEF Starting
  <2>2. \A t \in Trackers : announces'[t] \in 0..MaxAnnounces
    BY <1>a, <1>b, <1>c, AnnounceAssumption
  <2> QED  BY <2>1, <2>2
<1>2. exchanges' \subseteq [tracker : Trackers, n : 1..MaxAnnounces, stage : {"opening", "open"}]
  <2> SUFFICES ASSUME NEW e \in exchanges', e \notin exchanges
               PROVE  e \in [tracker : Trackers, n : 1..MaxAnnounces, stage : {"opening", "open"}]
    BY DEF AnnounceTypeOK
  <2>1. PICK t \in Starting : e = [tracker |-> t, n |-> announces'[t], stage |-> "opening"]
    BY DEF Schedule
  <2> HIDE DEF Starting
  <2> QED  BY <1>b, <2>1
<1>3. AnnounceTypeOK'  BY <1>1, <1>2 DEF Schedule, AnnounceTypeOK, AnnouncingAfter
<1>4. InProcessAnnounced'
  BY DEF Schedule, AnnounceTypeOK, InProcessAnnounced, AnnouncingAfter
<1>5. AnswersKept'
  <2>1. ASSUME NEW t \in fresh' \ (overtaken' \cup interrupted') PROVE FALSE
    BY <2>1 DEF Schedule, AnnounceTypeOK, AnswersKept
  <2>2. ASSUME NEW t \in InProcess' \ interrupted'
        PROVE  \E e \in exchanges' : e.tracker = t /\ Current(e)'
    <3>1. CASE t \in Starting
      <4> DEFINE e == [tracker |-> t, n |-> announces'[t], stage |-> "opening"]
      <4>1. t \notin refused  BY <2>2 DEF Schedule, AnnounceTypeOK
      <4>2. e \in exchanges'  BY <3>1, <4>1 DEF Schedule
      <4> QED  BY <2>2, <4>2
    <3>2. CASE t \notin Starting
      <4>1. t \in InProcess \ interrupted /\ announces'[t] = announces[t]
        BY <2>2, <3>2 DEF Schedule, AnnounceTypeOK
      <4>2. \E e \in exchanges : e.tracker = t /\ e.n = announces[t]
        BY <2>2, <4>1 DEF AnswersKept, AnnounceTypeOK
      <4>3. exchanges \subseteq exchanges'  BY DEF Schedule
      <4> QED  BY <2>2, <4>1, <4>2, <4>3
    <3> QED  BY <3>1, <3>2
  <2> QED  BY <2>1, <2>2 DEF AnswersKept
<1> QED  BY <1>3, <1>4, <1>5

\* An event of an exchange is about its own tracker; when the exchange is not the current
\* one, what it changes is marked.
LEMMA ExchangeHolds ==
  ASSUME AnnounceInv, NEW e \in exchanges, Exchange(e), stops' = stops, running' = running
  PROVE  AnnounceInv'
<1> USE DEF AnnounceInv
<1>0. e \in [tracker : Trackers, n : 1..MaxAnnounces, stage : {"opening", "open"}]
  BY DEF AnnounceTypeOK
<1>1. CASE Open(e)
  <2> DEFINE opened == [e EXCEPT !.stage = "open"]
  <2>1. AnnounceTypeOK'  BY <1>0, <1>1 DEF Open, AnnounceTypeOK
  <2>2. InProcessAnnounced'  BY <1>1 DEF Open, InProcessAnnounced
  <2>3. \A d \in exchanges : \E f \in exchanges' : f.tracker = d.tracker /\ f.n = d.n
    <3>1. opened \in exchanges' /\ opened.tracker = e.tracker /\ opened.n = e.n
      BY <1>0, <1>1 DEF Open
    <3> QED  BY <1>1, <3>1 DEF Open
  <2>4. AnswersKept'  BY <1>1, <2>3 DEF Open, AnswersKept, AnnounceTypeOK
  <2> QED  BY <2>1, <2>2, <2>4 DEF Open
<1>2. CASE End(e)
  <2>1. AnnounceTypeOK'  BY <1>0, <1>2 DEF End, Overtakes, AnnounceTypeOK
  <2>2. InProcessAnnounced'  BY <1>0, <1>2 DEF End, InProcessAnnounced, AnnounceTypeOK
  <2>3. AnswersKept'  BY <1>0, <1>2 DEF End, Overtakes, AnswersKept, AnnounceTypeOK
  <2> QED  BY <2>1, <2>2, <2>3
<1>3. ASSUME NEW found \in SUBSET Endpoints, Answer(e, found) PROVE AnnounceInv'
  <2>1. AnnounceTypeOK'  BY <1>0, <1>3 DEF Answer, Overtakes, AnnounceTypeOK
  <2>2. InProcessAnnounced'  BY <1>0, <1>3 DEF Answer, InProcessAnnounced, AnnounceTypeOK
  <2>3. AnswersKept'
    BY <1>0, <1>3 DEF Answer, Overtakes, AnswersKept, InProcessAnnounced, AnnounceTypeOK
  <2> QED  BY <2>1, <2>2, <2>3
<1> QED  BY <1>1, <1>2, <1>3 DEF Exchange

LEMMA StopAnnouncingHolds ==
  ASSUME AnnounceInv, NEW kept, StopAnnouncing(kept), stops < MaxStops, stops' = stops + 1,
         running' \in BOOLEAN
  PROVE  AnnounceInv'
<1> USE DEF AnnounceInv, StopAnnouncing, Interrupted
<1>1. AnnounceTypeOK'  BY DEF AnnounceTypeOK
<1>2. InProcessAnnounced'  BY DEF InProcessAnnounced, AnnounceTypeOK
<1>3. stops' \in 0..MaxStops  BY NetworkAssumption
<1>4. AnswersKept'
  <2>1. ASSUME NEW t \in fresh' \ (overtaken' \cup interrupted')
        PROVE  t \in announcing' /\ status'[t] = "succeeded"
    <3>1. t \in Trackers \ succeeded  BY <2>1 DEF AnnounceTypeOK
    <3> QED  BY <2>1, <3>1 DEF AnswersKept
  <2>2. ASSUME NEW t \in InProcess' \ interrupted'
        PROVE  \E e \in exchanges' : e.tracker = t /\ Current(e)'
    <3>1. t \in InProcess \ succeeded  BY <2>2
    <3>2. \E e \in kept : e.tracker = t /\ Current(e)  BY <2>2, <3>1
    <3> QED  BY <2>2, <3>2
  <2> QED  BY <2>1, <2>2 DEF AnswersKept
<1> QED  BY <1>1, <1>2, <1>3, <1>4

LEMMA TimeHolds ==
  ASSUME AnnounceInv, NEW t \in Trackers, ReachTime(t) \/ Age(t), stops' = stops,
         running' = running
  PROVE  AnnounceInv'
<1> USE DEF AnnounceInv, ReachTime, Age
<1>1. AnnounceTypeOK'  BY DEF AnnounceTypeOK
<1>2. InProcessAnnounced'  BY DEF InProcessAnnounced
<1>3. AnswersKept'  BY DEF AnswersKept
<1> QED  BY <1>1, <1>2, <1>3

LEMMA AnnounceStays ==
  ASSUME AnnounceInv, UNCHANGED <<announceVars, stops>>, running' \in BOOLEAN
  PROVE  AnnounceInv'
<1> USE DEF AnnounceInv
<1>1. AnnounceTypeOK'  BY DEF AnnounceTypeOK
<1>2. InProcessAnnounced'  BY DEF InProcessAnnounced
<1>3. AnswersKept'  BY DEF AnswersKept
<1> QED  BY <1>1, <1>2, <1>3

----------------------------------------------------------------------------
\* The side of the peers.
USE DEF swarmVars, callVars, acceptVars, peerVars, Alive, New, Unknown, Gone

Entry == [state : {"unknown", "idle", "connecting"}, retries : 0..MaxRetries-1, due : BOOLEAN]

LEMMA FailureType ==
  ASSUME NEW entry \in Entry
  PROVE  Failure(entry) \in Entry /\ Failure(entry).state # "connecting"
<1>1. entry.retries \in Nat  BY SwarmAssumption DEF Entry
<1>2. entry.retries + 1 < MaxRetries => entry.retries + 1 \in 0..MaxRetries-1
  BY <1>1, SwarmAssumption
<1>3. 0 \in 0..MaxRetries-1  BY SwarmAssumption
<1> QED  BY <1>2, <1>3 DEF Failure, Entry

\* Who is known stays identified as long as the buffer only grows and nobody comes.
LEMMA IdentityStays ==
  ASSUME IdentityRead, Known' \subseteq Known, UNCHANGED buffer
  PROVE  IdentityRead'
BY DEF IdentityRead, Identified, ReadId

\* A peer that was found is handed on.
LEMMA IdentityOfFound ==
  ASSUME SwarmInv, NEW a \in Addresses, UNCHANGED <<peers, buffer>>,
         waiting' = Append(waiting, [who |-> a, id |-> IdOf[a]])
  PROVE  IdentityRead' /\ waiting' \in Seq(Contact)
<1> DEFINE w == [who |-> a, id |-> IdOf[a]]
<1>1. w \in Contact /\ a \notin Incoming  BY SwarmAssumption DEF Contact
<1>2. waiting \in Seq(Contact)  BY DEF SwarmInv, SwarmTypeOK
<1>3. Identified(w)  BY <1>1 DEF Identified
<1>4. Known' \subseteq Known \cup {w}  BY <1>1, <1>2 DEF Known, ToSet
<1>5. \A v : Identified(v) => Identified(v)'  BY DEF Identified, ReadId
<1>6. waiting' \in Seq(Contact)  BY <1>1, <1>2
<1> HIDE DEF w
<1>7. IdentityRead'  BY <1>3, <1>4, <1>5 DEF SwarmInv, IdentityRead
<1> QED  BY <1>6, <1>7

----------------------------------------------------------------------------
LEMMA EnqueueHolds ==
  ASSUME SwarmInv, NEW addresses, EnqueuePeers(addresses), UNCHANGED <<acceptVars, peerVars>>
  PROVE  SwarmInv'
<1> USE DEF SwarmInv, EnqueuePeers
<1>1. SwarmTypeOK'
  <2>1. 0 \in 0..MaxRetries-1  BY SwarmAssumption
  <2> QED  BY <2>1 DEF SwarmTypeOK
<1>2. EntriesHold'  BY DEF EntriesHold, SwarmTypeOK
<1>3. AddressesTried'  BY DEF AddressesTried, SwarmTypeOK
<1>4. IdentityRead'  BY IdentityStays DEF Known
<1> QED  BY <1>1, <1>2, <1>3, <1>4

LEMMA RetryTimeHolds ==
  ASSUME SwarmInv, NEW a \in Addresses, RetryTime(a)
  PROVE  SwarmInv'
<1> USE DEF SwarmInv, RetryTime
<1>1. SwarmTypeOK'  BY DEF SwarmTypeOK
<1>2. \A b \in Addresses : book'[b].state = book[b].state  BY DEF SwarmTypeOK
<1>3. EntriesHold'  BY <1>2 DEF EntriesHold, SwarmTypeOK
<1>4. AddressesTried'  BY <1>2 DEF AddressesTried
<1>5. IdentityRead'  BY IdentityStays DEF Known
<1> QED  BY <1>1, <1>3, <1>4, <1>5

\* An address that is tried was idle, so that it has no connection yet.
LEMMA InitiateHolds ==
  ASSUME SwarmInv, NEW refused, Initiate(refused)
  PROVE  SwarmInv'
<1> USE DEF SwarmInv
<1> DEFINE ready == {a \in Addresses : book[a].state = "idle" /\ book[a].due}
           tried == {a \in ready : Cardinality({b \in ready : b <= a}) <= Slots}
<1>1. /\ refused \subseteq tried /\ tried \subseteq ready /\ abort = "no" /\ abort' \in {"no", "iterator"}
      /\ book' = [a \in Addresses |->
                    IF a \in refused THEN Failure(book[a])
                    ELSE IF a \in tried THEN [book[a] EXCEPT !.state = "connecting"] ELSE book[a]]
      /\ attempts' = attempts \cup {[address |-> a, stage |-> "opening"] : a \in tried \ refused}
      /\ dropped' = dropped \ tried
      /\ UNCHANGED <<surprised, acceptVars, peerVars>>
  BY DEF Initiate
<1> HIDE DEF tried
<1>2. \A a \in Addresses : book[a] \in Entry  BY DEF SwarmTypeOK, Entry
<1>3. \A a \in refused : Failure(book[a]) \in Entry /\ Failure(book[a]).state # "connecting"
  BY <1>1, <1>2, FailureType
<1>4. SwarmTypeOK'
  <2>1. \A a \in Addresses : book'[a] \in Entry  BY <1>1, <1>2, <1>3 DEF Entry
  <2>2. book' \in [Addresses -> Entry]  BY <1>1, <2>1
  <2> QED  BY <1>1, <2>2 DEF SwarmTypeOK, Entry
<1>5. EntriesHold'
  <2>1. \A c \in attempts : c.address \in Addresses \ ready  BY DEF EntriesHold, SwarmTypeOK
  <2>2. \A c \in attempts : book'[c.address].state = "connecting"  BY <1>1, <2>1 DEF EntriesHold
  <2>3. \A c \in attempts' \ attempts : c.address \in tried \ refused /\ c.stage = "opening"
                                        /\ c = [address |-> c.address, stage |-> "opening"]
    BY <1>1
  <2>4. \A c \in attempts' \ attempts : book'[c.address].state = "connecting"
    BY <1>1, <1>2, <2>3 DEF Entry
  <2>5. \A c, d \in attempts' : c.address = d.address => c = d
    BY <1>1, <2>1, <2>3 DEF EntriesHold
  <2> QED  BY <1>1, <2>2, <2>4, <2>5 DEF EntriesHold
<1>6. AddressesTried'
  <2> SUFFICES ASSUME NEW a \in Addresses, Alive', book'[a].state = "connecting"
               PROVE  a \in dropped' \/ \E c \in attempts' : c.address = a
    BY DEF AddressesTried
  <2>1. CASE a \in tried
    <3>1. [address |-> a, stage |-> "opening"] \in attempts'  BY <1>1, <1>3, <2>1
    <3> QED  BY <3>1
  <2>2. CASE a \notin tried  BY <1>1, <2>2 DEF AddressesTried
  <2> QED  BY <2>1, <2>2
<1>7. IdentityRead'  BY <1>1, IdentityStays DEF Known
<1> QED  BY <1>4, <1>5, <1>6, <1>7

\* An attempt ends: its address has no other, and its entry is not connecting any more or
\* it is dropped.
LEMMA AttemptEnds ==
  ASSUME SwarmInv, NEW c \in attempts, Gone(c), NEW entry,
         \/ book' = [book EXCEPT ![c.address] = entry] /\ entry.state # "connecting"
         \/ UNCHANGED book /\ (c.address \in dropped' \/ ~Alive'),
         dropped \subseteq dropped', Alive' => Alive,
         abort' = "assert" => surprised'
  PROVE  EntriesHold' /\ AddressesTried'
<1> USE DEF SwarmInv
<1>1. \A d \in attempts' : d \in attempts /\ d.address # c.address /\ d.address \in Addresses
  BY DEF EntriesHold, SwarmTypeOK
<1>2. \A a \in Addresses \ {c.address} : book'[a] = book[a]  BY DEF SwarmTypeOK
<1>3. EntriesHold'  BY <1>1, <1>2 DEF EntriesHold
<1>4. AddressesTried'
  <2> SUFFICES ASSUME NEW a \in Addresses, Alive', book'[a].state = "connecting"
               PROVE  a \in dropped' \/ \E d \in attempts' : d.address = a
    BY DEF AddressesTried
  <2>1. CASE a = c.address  BY <2>1 DEF SwarmTypeOK
  <2>2. CASE a # c.address
    <3>1. a \in dropped \/ \E d \in attempts : d.address = a  BY <1>2, <2>2 DEF AddressesTried
    <3> QED  BY <2>2, <3>1
  <2> QED  BY <2>1, <2>2
<1> QED  BY <1>3, <1>4

\* Every event of a connection, in time or not.
LEMMA AttemptHolds ==
  ASSUME SwarmInv, NEW c \in attempts, Attempt(c)
  PROVE  SwarmInv'
<1> USE DEF SwarmInv
<1>1. /\ c \in [address : Addresses, stage : {"opening", "open"}]
      /\ book[c.address] \in Entry /\ book[c.address].state = "connecting"
  BY DEF SwarmTypeOK, EntriesHold, Entry
<1>2. Failure(book[c.address]) \in Entry /\ Failure(book[c.address]).state # "connecting"
  BY <1>1, FailureType
<1>3. Unknown \in Entry  BY SwarmAssumption DEF Entry
<1>4. CASE Connect(c)
  <2> DEFINE opened == [c EXCEPT !.stage = "open"]
  <2>1. SwarmTypeOK'  BY <1>1, <1>4 DEF Connect, SwarmTypeOK
  <2>2. opened.address = c.address  BY <1>1
  <2>3. attempts' = (attempts \ {c}) \cup {opened}  BY <1>4 DEF Connect
  <2>4. EntriesHold'
    <3> HIDE DEF opened
    <3> QED  BY <1>1, <1>4, <2>2, <2>3 DEF Connect, EntriesHold
  <2>5. AddressesTried'
    <3> HIDE DEF opened
    <3>1. \A d \in attempts : \E e \in attempts' : e.address = d.address  BY <2>2, <2>3
    <3> QED  BY <1>4, <3>1 DEF Connect, AddressesTried
  <2>6. IdentityRead'  BY <1>4, IdentityStays DEF Connect, Known
  <2> QED  BY <2>1, <2>4, <2>5, <2>6
<1>5. CASE Fail(c)
  <2>1. book' = [book EXCEPT ![c.address] = Failure(book[c.address])] /\ UNCHANGED abort
    BY <1>1, <1>5 DEF Fail
  <2>2. SwarmTypeOK'  BY <1>2, <1>5, <2>1 DEF Fail, SwarmTypeOK, Entry
  <2>3. EntriesHold' /\ AddressesTried'  BY <1>2, <1>5, <2>1, AttemptEnds DEF Fail
  <2>4. IdentityRead'  BY <1>5, IdentityStays DEF Fail, Known
  <2> QED  BY <2>2, <2>3, <2>4
<1>6. CASE Shake(c)
  <2>1. /\ book' = [book EXCEPT ![c.address] = Unknown] /\ UNCHANGED abort
        /\ waiting' = Append(waiting, [who |-> c.address, id |-> IdOf[c.address]])
    BY <1>1, <1>6 DEF Shake
  <2>2. IdentityRead' /\ waiting' \in Seq(Contact)
    BY <1>1, <1>6, <2>1, IdentityOfFound DEF Shake
  <2>3. SwarmTypeOK'  BY <1>3, <1>6, <2>1, <2>2 DEF Shake, SwarmTypeOK, Entry
  <2>4. EntriesHold' /\ AddressesTried'
    <3>1. Unknown.state # "connecting"  OBVIOUS
    <3> QED  BY <1>6, <2>1, <3>1, AttemptEnds DEF Shake
  <2> QED  BY <2>2, <2>3, <2>4
<1>7. CASE Lose(c)
  <2>1. SwarmTypeOK'  BY <1>1, <1>7 DEF Lose, SwarmTypeOK
  <2>2. EntriesHold' /\ AddressesTried'
    BY <1>7, AttemptEnds DEF Lose, EntriesHold
  <2>3. IdentityRead'  BY <1>7, IdentityStays DEF Lose, Known
  <2> QED  BY <2>1, <2>2, <2>3
<1>8. ASSUME NEW shaken \in BOOLEAN, FailSurprised(c, shaken) PROVE SwarmInv'
  <2> DEFINE first == Failure(book[c.address])
  <2>1. CASE book[c.address].state = "unknown" \/ (first = Unknown /\ (shaken \/ c.stage = "opening"))
    <3>1. abort' = "assert" /\ UNCHANGED <<book, waiting, dropped, acceptVars, peers>>
          /\ surprised' = TRUE /\ Gone(c) /\ Alive
      BY <1>8, <2>1 DEF FailSurprised
    <3>2. SwarmTypeOK'  BY <3>1 DEF SwarmTypeOK
    <3>3. EntriesHold' /\ AddressesTried'  BY <3>1, AttemptEnds
    <3>4. IdentityRead'  BY <3>1, IdentityStays DEF Known
    <3> QED  BY <3>2, <3>3, <3>4
  <2>2. CASE ~ (book[c.address].state = "unknown" \/ (first = Unknown /\ (shaken \/ c.stage = "opening")))
    <3> DEFINE entry == IF shaken THEN Unknown
                        ELSE IF c.stage = "opening" THEN Failure(first) ELSE first
    <3>1. /\ UNCHANGED <<abort, dropped, acceptVars, peers>> /\ surprised' = TRUE /\ Gone(c) /\ Alive
          /\ book' = [book EXCEPT ![c.address] = entry]
          /\ waiting' = IF shaken THEN Append(waiting, [who |-> c.address, id |-> IdOf[c.address]])
                        ELSE waiting
      BY <1>8, <2>2 DEF FailSurprised
    <3>2. entry \in Entry /\ entry.state # "connecting"
      <4>1. Failure(first) \in Entry /\ Failure(first).state # "connecting"  BY <1>2, FailureType
      <4> QED  BY <1>2, <1>3, <4>1
    <3> HIDE DEF entry
    <3>3. IdentityRead' /\ waiting' \in Seq(Contact)
      <4>1. CASE shaken  BY <1>1, <3>1, <4>1, IdentityOfFound
      <4>2. CASE ~shaken
        <5>1. Known' = Known /\ waiting' = waiting  BY <3>1, <4>2 DEF Known
        <5> QED  BY <3>1, <5>1, IdentityStays DEF SwarmTypeOK
      <4> QED  BY <4>1, <4>2
    <3>4. SwarmTypeOK'  BY <3>1, <3>2, <3>3 DEF SwarmTypeOK, Entry
    <3>5. EntriesHold' /\ AddressesTried'  BY <3>1, <3>2, AttemptEnds
    <3> QED  BY <3>3, <3>4, <3>5
  <2> QED  BY <2>1, <2>2
<1> QED  BY <1>4, <1>5, <1>6, <1>7, <1>8 DEF Attempt

----------------------------------------------------------------------------
Part == [from : Incoming, part : {"hash", "otherHash", "id"}]

\* What an incoming connection sends is added to the buffer; who is registered now has
\* the id that stands there, as have those before.
LEMMA HearHolds ==
  ASSUME SwarmInv, NEW i \in Incoming,
         NEW new \in Seq(Part), Hear(i, new)
  PROVE  SwarmInv'
<1> USE DEF SwarmInv
<1>1. PICK parts : parts = buffer \o new  OBVIOUS
<1>2. PICK w : w = [who |-> i, id |-> ReadId(parts)]  OBVIOUS
<1>a. buffer \in Seq(Part)  BY DEF SwarmTypeOK, Part
<1>3. /\ parts \in Seq(Part) /\ Len(parts) \in Nat
      /\ Len(buffer) >= 2 => Len(parts) >= 2 /\ parts[2] = buffer[2]
  BY <1>1, <1>a
<1>4. buffer' = parts /\ UNCHANGED <<callVars, peers>>
  BY <1>1 DEF Hear
<1>b. waiting' = waiting \/ (Len(parts) >= 2 /\ waiting' = Append(waiting, w))
  <2>1. CASE Len(parts) < 2  BY <1>1, <2>1 DEF Hear
  <2>2. CASE ~ (Len(parts) < 2)
    <3>1. waiting' = waiting \/ waiting' = Append(waiting, w)  BY <1>1, <1>2, <2>2 DEF Hear
    <3>2. Len(parts) >= 2  BY <1>3, <2>2
    <3> QED  BY <3>1, <3>2
  <2> QED  BY <2>1, <2>2
<1>5. discovered' \in BOOLEAN /\ callers' \in [Incoming -> {"away", "accepted", "half", "closed"}]
  BY DEF Hear, SwarmTypeOK
<1>6. \A v : Identified(v) => Identified(v)'
  BY <1>3, <1>4 DEF Identified, ReadId
<1>7. ASSUME Len(parts) >= 2 PROVE w \in Contact /\ Identified(w)'
  <2>1. parts[2] \in Part
    <3>1. 2 \in 1..Len(parts)  BY <1>3, <1>7
    <3> QED  BY <1>3, <3>1
  <2>2. ReadId(parts) \in {IdOf[who] : who \in DOMAIN IdOf} \cup {NoId}
    BY <2>1, SwarmAssumption DEF ReadId, Part
  <2>3. w \in Contact  BY <1>2, <2>2 DEF Contact
  <2>4. i \notin Addresses  BY SwarmAssumption
  <2>5. ReadId(buffer)' = ReadId(parts) /\ Len(buffer)' >= 2  BY <1>4, <1>7 DEF ReadId
  <2>6. w.who = i /\ w.id = ReadId(parts)  BY <1>2
  <2> QED  BY <2>3, <2>4, <2>5, <2>6 DEF Identified
<1>8. waiting \in Seq(Contact)  BY DEF SwarmTypeOK
<1>9. waiting' \in Seq(Contact) /\ \A v \in Known' \ Known : v = w /\ Len(parts) >= 2
  <2>1. CASE waiting' = waiting  BY <1>4, <1>8, <2>1 DEF Known
  <2>2. CASE Len(parts) >= 2 /\ waiting' = Append(waiting, w)
    <3>1. w \in Contact  BY <1>7, <2>2
    <3>2. waiting' \in Seq(Contact)  BY <1>8, <2>2, <3>1
    <3>3. \A v \in ToSet(waiting') : v \in ToSet(waiting) \/ v = w  BY <1>8, <2>2, <3>1 DEF ToSet
    <3> QED  BY <1>4, <2>2, <3>2, <3>3 DEF Known
  <2> QED  BY <1>b, <2>1, <2>2
<1>10. IdentityRead'
  <2> SUFFICES ASSUME NEW v \in Known' PROVE Identified(v)'
    BY DEF IdentityRead
  <2>1. CASE v \in Known  BY <1>6, <2>1 DEF IdentityRead
  <2>2. CASE v \notin Known  BY <1>7, <1>9, <2>2
  <2> QED  BY <2>1, <2>2
<1>11. SwarmTypeOK'  BY <1>3, <1>4, <1>5, <1>9 DEF SwarmTypeOK, Part
<1>12. EntriesHold' /\ AddressesTried'  BY <1>4 DEF EntriesHold, AddressesTried
<1> QED  BY <1>10, <1>11, <1>12

LEMMA CallerHolds ==
  ASSUME SwarmInv, NEW i \in Incoming, Caller(i) \/ HangUp(i)
  PROVE  SwarmInv'
<1> USE DEF SwarmInv
<1>1. \A known \in BOOLEAN : Hello(i, known) \in Part /\ Rest(i) \in Part
  BY DEF Hello, Rest, Part
<1>2. CASE Accept(i) \/ HangUp(i)
  <2>1. UNCHANGED <<buffer, discovered, callVars, peerVars>>
    BY <1>2 DEF Accept, HangUp
  <2>2. SwarmTypeOK'  BY <1>2, <2>1 DEF Accept, HangUp, SwarmTypeOK
  <2>3. EntriesHold' /\ AddressesTried'  BY <2>1 DEF EntriesHold, AddressesTried
  <2>4. IdentityRead'  BY <2>1, IdentityStays DEF Known
  <2> QED  BY <2>2, <2>3, <2>4
<1>3. ASSUME NEW new \in Seq(Part), Hear(i, new) PROVE SwarmInv'
  BY <1>3, HearHolds
<1>4. \A known \in BOOLEAN :
         /\ <<Hello(i, known)>> \in Seq(Part) /\ <<Hello(i, known), Rest(i)>> \in Seq(Part)
         /\ <<Rest(i)>> \in Seq(Part)
  BY <1>1
<1>5. TRUE \in BOOLEAN /\ (i \notin Foreign) \in BOOLEAN  OBVIOUS
<1> QED  BY <1>2, <1>3, <1>4, <1>5 DEF Caller

LEMMA ReceivePeersHolds ==
  ASSUME SwarmInv, ReceivePeers
  PROVE  SwarmInv'
<1> USE DEF SwarmInv, ReceivePeers
<1>1. waiting \in Seq(Contact) /\ peers \subseteq Contact  BY DEF SwarmTypeOK
<1>2. peers' \subseteq Known  BY <1>1, RegisteredPeers DEF Known
<1>3. waiting' \in Seq(Contact) /\ ToSet(waiting') = {}  BY DEF ToSet
<1>4. Known' \subseteq Known  BY <1>2, <1>3 DEF Known
<1>5. Known \subseteq Contact  BY <1>1 DEF Known, ToSet
<1>6. SwarmTypeOK'  BY <1>2, <1>3, <1>5 DEF SwarmTypeOK
<1>7. EntriesHold' /\ AddressesTried'  BY DEF EntriesHold, AddressesTried
<1>8. IdentityRead'  BY <1>4, IdentityStays
<1> QED  BY <1>6, <1>7, <1>8

LEMMA LeaveHolds ==
  ASSUME SwarmInv, NEW p \in peers, Leave(p)
  PROVE  SwarmInv'
<1> USE DEF SwarmInv, Leave
<1>1. SwarmTypeOK'  BY DEF SwarmTypeOK
<1>2. EntriesHold' /\ AddressesTried'  BY DEF EntriesHold, AddressesTried
<1>3. IdentityRead'  BY IdentityStays DEF Known
<1> QED  BY <1>1, <1>2, <1>3

LEMMA StopSwarmHolds ==
  ASSUME SwarmInv, NEW kept, StopSwarm(kept)
  PROVE  SwarmInv'
<1> USE DEF SwarmInv, StopSwarm
<1>1. SwarmTypeOK'  BY DEF SwarmTypeOK
<1>2. EntriesHold'  BY DEF EntriesHold
<1>3. AddressesTried'  BY DEF AddressesTried
<1>4. IdentityRead'  BY IdentityStays DEF Known
<1> QED  BY <1>1, <1>2, <1>3, <1>4

LEMMA SwarmStays ==
  ASSUME SwarmInv, UNCHANGED swarmVars
  PROVE  SwarmInv'
<1> USE DEF SwarmInv
<1>1. SwarmTypeOK'  BY DEF SwarmTypeOK
<1>2. EntriesHold' /\ AddressesTried'  BY DEF EntriesHold, AddressesTried
<1>3. IdentityRead'  BY IdentityStays DEF Known
<1> QED  BY <1>1, <1>2, <1>3

----------------------------------------------------------------------------
LEMMA InitHolds == Init => IInv
<1> SUFFICES ASSUME Init PROVE IInv
  OBVIOUS
<1> USE DEF Init, AnnounceInit, SwarmInit
<1>1. AnnounceTypeOK  BY AnnounceAssumption DEF AnnounceTypeOK
<1>2. AnnounceInv
  BY <1>1, NetworkAssumption DEF AnnounceInv, InProcessAnnounced, AnswersKept
<1>3. SwarmTypeOK
  <2>1. 0 \in 0..MaxRetries-1  BY SwarmAssumption
  <2>2. book \in [Addresses -> [state : {"unknown", "idle", "connecting"},
                                retries : 0..MaxRetries-1, due : BOOLEAN]]
    BY <2>1
  <2>3. callers \in [Incoming -> {"away", "accepted", "half", "closed"}]  OBVIOUS
  <2>4. /\ waiting \in Seq(Contact)
        /\ buffer \in Seq([from : Incoming, part : {"hash", "otherHash", "id"}])
    OBVIOUS
  <2> QED  BY <2>2, <2>3, <2>4 DEF SwarmTypeOK
<1>4. EntriesHold /\ AddressesTried  BY DEF EntriesHold, AddressesTried
<1>5. IdentityRead  BY DEF IdentityRead, Known, ToSet
<1> QED  BY <1>2, <1>3, <1>4, <1>5 DEF IInv, SwarmInv

LEMMA NextHolds == IInv /\ [Next]_vars => IInv'
<1> SUFFICES ASSUME IInv, [Next]_vars PROVE IInv'
  OBVIOUS
<1> USE DEF IInv
<1>0. running \in BOOLEAN  BY DEF AnnounceInv, AnnounceTypeOK
<1>1. CASE Announcing
  <2>1. PICK refused : Schedule(refused) /\ EnqueuePeers(PeersReady)
                       /\ UNCHANGED <<running, acceptVars, peerVars, stops>>
    BY <1>1 DEF Announcing
  <2>2. AnnounceInv'  BY <2>1, ScheduleHolds
  <2>3. SwarmInv'  BY <2>1, EnqueueHolds
  <2> QED  BY <2>2, <2>3
<1>2. CASE TrackerStep
  <2>1. UNCHANGED <<running, swarmVars, stops>>  BY <1>2 DEF TrackerStep
  <2>2. SwarmInv'  BY <2>1, SwarmStays
  <2>3. AnnounceInv'  BY <1>2, <2>1, ExchangeHolds, TimeHolds DEF TrackerStep
  <2> QED  BY <2>2, <2>3
<1>3. CASE PeerStep
  <2>1. UNCHANGED <<running, announceVars, stops>>  BY <1>3 DEF PeerStep
  <2>2. AnnounceInv'  BY <1>0, <2>1, AnnounceStays
  <2>3. SwarmInv'
    BY <1>3, InitiateHolds, AttemptHolds, RetryTimeHolds, CallerHolds, ReceivePeersHolds,
       LeaveHolds DEF PeerStep
  <2> QED  BY <2>2, <2>3
<1>4. CASE Stop
  <2>1. AnnounceInv'  BY <1>4, StopAnnouncingHolds DEF Stop
  <2>2. SwarmInv'  BY <1>4, StopSwarmHolds DEF Stop
  <2> QED  BY <2>1, <2>2
<1>5. CASE Start
  <2>1. AnnounceInv'  BY <1>5, AnnounceStays DEF Start
  <2>2. SwarmInv'  BY <1>5, SwarmStays DEF Start
  <2> QED  BY <2>1, <2>2
<1>6. CASE UNCHANGED vars
  <2>1. AnnounceInv'  BY <1>0, <1>6, AnnounceStays DEF vars
  <2>2. SwarmInv'  BY <1>6, SwarmStays DEF vars
  <2> QED  BY <2>1, <2>2
<1> QED  BY <1>1, <1>2, <1>3, <1>4, <1>5, <1>6 DEF Next

\* The trackers, the attempts and the peers agree with what is known of them in every
\* reachable state (AnnounceScheduler, ConnectionInitiator, CommandTask).
THEOREM TrackersAndPeersAgree == Spec => []IInv
<1>1. Init => IInv  BY InitHolds
<1>2. IInv /\ [Next]_vars => IInv'  BY NextHolds
<1> QED  BY <1>1, <1>2, PTL DEF Spec

\* Types: a tracker has no more announces than allowed, an address no more retries than
\* MaxRetries (Tracker, ConnectionInitiator).
THEOREM TypesHold == Spec => []TypeOK
<1>1. IInv => TypeOK  BY DEF IInv, AnnounceInv, SwarmInv, TypeOK
<1> QED  BY <1>1, TrackersAndPeersAgree, PTL

\* For any number of trackers and addresses, after any stops: an answer that came in time
\* waits to be handed on until a given-up announce ends after it or a stop makes its
\* tracker fail; an announce in process has its connection unless a stop deleted it; and an
\* address that is said to be connecting has one unless it was lost before the end of the
\* handshake or deleted by a stop (AnnounceScheduler, Tracker, ConnectionInitiator).
THEOREM NothingIsForgotten == Spec => []NothingForgotten
<1>1. IInv => NothingForgotten
  BY DEF IInv, AnnounceInv, SwarmInv, AnswersKept, AddressesTried, NothingForgotten
<1> QED  BY <1>1, TrackersAndPeersAgree, PTL

\* For any number of addresses and incoming connections: no two attempts are for one
\* address, the entry of each says connecting, and the asserts fail only after a failure
\* that is reported twice; of the peers registered or waiting, those that the initiator
\* found have their own ids and those of the acceptor the one id that can be read in its
\* buffer (handleConnectSuccess, handleConnectFailure, NegotiatorMiddleware).
THEOREM AttemptsAndIdentities == Spec => []PeersKnown
<1>1. IInv => EntriesHold  BY DEF IInv, SwarmInv
<1>2. IInv => IdentityRight
  BY DEF IInv, SwarmInv, IdentityRead, Identified, Known, IdentityRight
<1>3. IInv => PeersKnown  BY <1>1, <1>2 DEF PeersKnown
<1> QED  BY <1>3, TrackersAndPeersAgree, PTL
=============================================================================

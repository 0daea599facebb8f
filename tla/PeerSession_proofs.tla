------------------------- MODULE PeerSession_proofs -------------------------
(***************************************************************************)
(* The invariants of PeerSession for any number of peers, pieces and       *)
(* upload slots, and what a full choke round guarantees.                   *)
(***************************************************************************)
EXTENDS PeerSession, FiniteSetTheorems, TLAPS

\* A peer that is not registered has left nothing behind.
Absent ==
    \A p \in Peers \ conn : has[p] = {} /\ fresh[p] /\ wanted[p] = 0

IInv == TypeOK /\ Absent /\ InterestExact /\ NoCountedSlotIdle

----------------------------------------------------------------------------
\* The parts of the choking actions.

\* A partial round unchokes waiting peers only, never beyond the slots, and stops
\* only when nobody waits or the count has reached the slots.
LEMMA RoundEffect ==
    ASSUME NEW I \in SUBSET Peers, NEW U \in SUBSET Peers, NEW n \in 0..UploadSlots,
           PartialRound(I, U, n)
    PROVE  /\ unchokedCount' \in 0..UploadSlots
           /\ U \subseteq unchoked' /\ unchoked' \subseteq U \cup I
           /\ I \subseteq unchoked' \/ unchokedCount' = UploadSlots
<1> DEFINE waiting == I \ U
           grants == IF n >= UploadSlots THEN 0 ELSE Smaller(UploadSlots - n, Cardinality(waiting))
<1>1. IsFiniteSet(waiting) /\ Cardinality(waiting) \in Nat
  BY PeersAssumption, FS_Subset, FS_CardinalityType
<1>2. PICK G \in SUBSET waiting :
         Cardinality(G) = grants /\ unchoked' = U \cup G /\ unchokedCount' = n + grants
  BY DEF PartialRound
<1>3. grants \in 0..(UploadSlots - n)
  BY <1>1, SlotsAssumption DEF Smaller
<1>4. CASE grants = UploadSlots - n
  BY <1>2, <1>4, SlotsAssumption
<1>5. CASE grants # UploadSlots - n
  <2>1. grants = Cardinality(waiting)
    BY <1>1, <1>5, SlotsAssumption DEF Smaller
  <2>2. G = waiting
    BY <1>1, <1>2, <2>1, FS_Subset
  <2> QED
    BY <1>2, <1>3, <2>2, SlotsAssumption
<1> QED
  BY <1>4, <1>5

\* A slot that is left is handed on, unless the assert fails; a peer that held
\* none changes nothing.
LEMMA LeaveEffect ==
    ASSUME TypeOK, NEW p \in Peers, NEW I \in SUBSET Peers, NEW U \in SUBSET Peers,
           LeaveSlot(p, I, U)
    PROVE  /\ unchokedCount' \in 0..UploadSlots
           /\ U \subseteq unchoked' /\ unchoked' \subseteq U \cup I
           /\ failed' \in {failed, "choking"}
           /\ \/ failed' # "none"
              \/ I \subseteq unchoked'
              \/ unchokedCount' = UploadSlots
              \/ p \notin unchoked /\ unchoked' = U /\ unchokedCount' = unchokedCount
<1>1. CASE p \notin unchoked
  BY <1>1 DEF LeaveSlot, TypeOK
<1>2. CASE p \in unchoked /\ unchokedCount > 0
  <2>1. PartialRound(I, U, unchokedCount - 1) /\ failed' = failed
    BY <1>2 DEF LeaveSlot
  <2>2. unchokedCount - 1 \in 0..UploadSlots
    BY <1>2, SlotsAssumption DEF TypeOK
  <2> QED
    BY <2>1, <2>2, RoundEffect
<1>3. CASE p \in unchoked /\ ~(unchokedCount > 0)
  BY <1>3 DEF LeaveSlot, TypeOK
<1> QED
  BY <1>1, <1>2, <1>3

\* A full round leaves the count at the slots, or with nobody waiting, and at most
\* as many interested peers unchoked as there are slots.
LEMMA FullRoundEffect ==
    ASSUME TypeOK, FullRound
    PROVE  /\ unchokedCount' \in 0..UploadSlots
           /\ unchoked' \subseteq unchoked \cup interested
           /\ interested' \subseteq unchoked' \/ unchokedCount' = UploadSlots
           /\ Cardinality((unchoked \cap interested)') <= UploadSlots
<1>1. IsFiniteSet(interested) /\ Cardinality(interested) \in Nat
  BY PeersAssumption, FS_Subset, FS_CardinalityType DEF TypeOK
<1>2. unchokedCount' = Smaller(UploadSlots, Cardinality(interested)) /\ interested' = interested
  BY DEF FullRound
<1>3. CASE Cardinality(interested) <= UploadSlots
  <2>1. unchoked' = unchoked \cup interested
    BY <1>3 DEF FullRound
  <2>2. (unchoked \cap interested)' = interested
    BY <1>2, <2>1
  <2> QED
    BY <1>1, <1>2, <1>3, <2>1, <2>2, SlotsAssumption DEF Smaller
<1>4. CASE ~(Cardinality(interested) <= UploadSlots)
  <2>1. unchokedCount' = UploadSlots
    BY <1>1, <1>2, <1>4, SlotsAssumption DEF Smaller
  <2>2. PICK T \in SUBSET interested :
          /\ Cardinality(T) = UploadSlots - 1
          /\ \E d \in interested \ T :
             \E c \in IF interested \ T \subseteq unchoked THEN {d}
                      ELSE (interested \ T) \ unchoked :
                unchoked' = (unchoked \ ((interested \ T) \ {d})) \cup T
                               \cup {q \in {c} : q = d}
    BY <1>4 DEF FullRound
  <2>3. PICK d \in interested \ T :
          \E c \in IF interested \ T \subseteq unchoked THEN {d}
                   ELSE (interested \ T) \ unchoked :
             unchoked' = (unchoked \ ((interested \ T) \ {d})) \cup T \cup {q \in {c} : q = d}
    BY <2>2
  <2>4. unchoked' \subseteq unchoked \cup interested /\ (unchoked \cap interested)' \subseteq T \cup {d}
    BY <1>2, <2>3
  <2>5. IsFiniteSet(T \cup {d}) /\ Cardinality(T \cup {d}) <= UploadSlots
    <3>1. IsFiniteSet(T)
      BY <1>1, FS_Subset
    <3>2. IsFiniteSet(T \cup {d}) /\ Cardinality(T \cup {d}) = Cardinality(T) + 1
      BY <2>3, <3>1, FS_AddElement
    <3> QED
      BY <2>2, <3>2, SlotsAssumption
  <2>6. /\ Cardinality((unchoked \cap interested)') <= Cardinality(T \cup {d})
        /\ Cardinality((unchoked \cap interested)') \in Nat
        /\ Cardinality(T \cup {d}) \in Nat
    BY <2>4, <2>5, FS_Subset, FS_CardinalityType
  <2> QED
    BY <2>1, <2>4, <2>5, <2>6, SlotsAssumption
<1> QED
  BY <1>3, <1>4

----------------------------------------------------------------------------
\* One lemma per conjunct of IInv.

\* Every step keeps the types.
LEMMA TypeStep ==
    ASSUME IInv, [Next]_vars
    PROVE  TypeOK'
<1>0. TypeOK
  BY DEF IInv
<1>L. \A p \in Peers, I \in SUBSET Peers, U \in SUBSET Peers : LeaveSlot(p, I, U) =>
         unchokedCount' \in 0..UploadSlots /\ unchoked' \subseteq U \cup I
           /\ failed' \in {failed, "choking"}
  BY <1>0, LeaveEffect
<1>F. FullRound => unchokedCount' \in 0..UploadSlots /\ unchoked' \subseteq unchoked \cup interested
  BY <1>0, FullRoundEffect
<1> USE <1>0, PeersAssumption, SlotsAssumption DEF TypeOK
<1>1. ASSUME NEW p \in Peers, Join(p) PROVE TypeOK'
  BY <1>1 DEF Join, interestVars, chokeVars
<1>2. ASSUME NEW p \in Peers, Disconnect(p) PROVE TypeOK'
  <2>1. interested' \in SUBSET Peers /\ unchoked \ {p} \in SUBSET Peers
        /\ LeaveSlot(p, interested', unchoked \ {p})
    BY <1>2 DEF Disconnect
  <2>2. /\ unchokedCount' \in 0..UploadSlots
        /\ unchoked' \subseteq (unchoked \ {p}) \cup interested'
        /\ failed' \in {failed, "choking"}
    BY <2>1, <1>L
  <2> QED
    BY <1>2, <2>2 DEF Disconnect
<1>3. ASSUME NEW p \in Peers, OtherMessage(p) PROVE TypeOK'
  BY <1>3 DEF OtherMessage, Heard, interestVars, chokeVars
<1>4. ASSUME NEW p \in Peers, NEW S \in SUBSET Pieces, ReceiveBitfield(p, S) PROVE TypeOK'
  <2>1. Cardinality(S \cap scheduled) \in Nat
    BY FS_Subset, FS_CardinalityType
  <2> QED
    BY <1>4, <2>1 DEF ReceiveBitfield, PiecesWanted, Heard, chokeVars
<1>5. ASSUME NEW p \in Peers, NEW i \in Pieces, ReceiveHave(p, i) PROVE TypeOK'
  BY <1>5 DEF ReceiveHave, Heard, chokeVars
<1>6. ASSUME NEW p \in Peers, ReceiveInterested(p) PROVE TypeOK'
  <2>1. interested' \in SUBSET Peers /\ PartialRound(interested', unchoked, unchokedCount)
    BY <1>6 DEF ReceiveInterested
  <2>2. unchokedCount' \in 0..UploadSlots /\ unchoked' \subseteq unchoked \cup interested'
    BY <2>1, RoundEffect
  <2> QED
    BY <1>6, <2>2 DEF ReceiveInterested, Heard, interestVars
<1>7. ASSUME NEW p \in Peers, ReceiveNotInterested(p) PROVE TypeOK'
  <2>1. interested' \in SUBSET Peers /\ LeaveSlot(p, interested', unchoked)
    BY <1>7 DEF ReceiveNotInterested
  <2>2. /\ unchokedCount' \in 0..UploadSlots
        /\ unchoked' \subseteq unchoked \cup interested'
        /\ failed' \in {failed, "choking"}
    BY <2>1, <1>L
  <2> QED
    BY <1>7, <2>2 DEF ReceiveNotInterested, Heard, interestVars
<1>8. ASSUME NEW i \in Pieces, DownloadedGoodPiece(i) PROVE TypeOK'
  <2>1. wanted' \in [Peers -> Nat]
    BY <1>8 DEF DownloadedGoodPiece
  <2> QED
    BY <1>8, <2>1 DEF DownloadedGoodPiece, peerVars, chokeVars
<1>9. CASE FullRound
  <2>1. unchokedCount' \in 0..UploadSlots /\ unchoked' \subseteq unchoked \cup interested
    BY <1>9, <1>F
  <2> QED
    BY <1>9, <2>1 DEF FullRound, peerVars, interestVars
<1>10. CASE UNCHANGED vars
  BY <1>10 DEF vars, peerVars, interestVars, chokeVars
<1> QED
  BY <1>1, <1>2, <1>3, <1>4, <1>5, <1>6, <1>7, <1>8, <1>9, <1>10 DEF Next, PeerNext

\* A peer that leaves takes everything along.
LEMMA AbsentStep ==
    ASSUME IInv, [Next]_vars
    PROVE  Absent'
<1> USE DEF IInv, TypeOK, Absent
<1>1. ASSUME NEW p \in Peers, Join(p) PROVE Absent'
  BY <1>1 DEF Join, interestVars
<1>2. ASSUME NEW p \in Peers, Disconnect(p) PROVE Absent'
  BY <1>2 DEF Disconnect
<1>3. ASSUME NEW p \in Peers, OtherMessage(p) PROVE Absent'
  BY <1>3 DEF OtherMessage, Heard, interestVars
<1>4. ASSUME NEW p \in Peers, NEW S \in SUBSET Pieces, ReceiveBitfield(p, S) PROVE Absent'
  BY <1>4 DEF ReceiveBitfield, Heard
<1>5. ASSUME NEW p \in Peers, NEW i \in Pieces, ReceiveHave(p, i) PROVE Absent'
  BY <1>5 DEF ReceiveHave, Heard
<1>6. ASSUME NEW p \in Peers, ReceiveInterested(p) PROVE Absent'
  BY <1>6 DEF ReceiveInterested, Heard, interestVars
<1>7. ASSUME NEW p \in Peers, ReceiveNotInterested(p) PROVE Absent'
  BY <1>7 DEF ReceiveNotInterested, Heard, interestVars
<1>8. ASSUME NEW i \in Pieces, DownloadedGoodPiece(i) PROVE Absent'
  BY <1>8 DEF DownloadedGoodPiece, Holders, peerVars
<1>9. CASE FullRound
  BY <1>9 DEF FullRound, peerVars, interestVars
<1>10. CASE UNCHANGED vars
  BY <1>10 DEF vars, peerVars, interestVars
<1> QED
  BY <1>1, <1>2, <1>3, <1>4, <1>5, <1>6, <1>7, <1>8, <1>9, <1>10 DEF Next, PeerNext

\* Every step keeps the counter equal to the number of scheduled pieces.
LEMMA InterestStep ==
    ASSUME IInv, [Next]_vars
    PROVE  InterestExact'
<1> USE PeersAssumption DEF IInv, TypeOK, InterestExact
<1>0. \A S \in SUBSET Pieces : IsFiniteSet(S) /\ Cardinality(S) \in Nat
                                 /\ (Cardinality(S) = 0 <=> S = {})
  BY FS_Subset, FS_CardinalityType, FS_EmptySet
<1>1. ASSUME NEW p \in Peers, Join(p) PROVE InterestExact'
  <2>1. has[p] = {} /\ wanted[p] = 0 /\ p \notin weInterested
    BY <1>1 DEF Join, Absent
  <2>2. Cardinality({} \cap scheduled) = 0
    BY FS_EmptySet
  <2> QED
    BY <1>1, <2>1, <2>2 DEF Join, interestVars, Running
<1>2. ASSUME NEW p \in Peers, Disconnect(p) PROVE InterestExact'
  <2>1. failed' # "interest"
    BY <1>2 DEF Disconnect, LeaveSlot, Running
  <2> QED
    BY <1>2, <2>1 DEF Disconnect
<1>3. ASSUME NEW p \in Peers, OtherMessage(p) PROVE InterestExact'
  BY <1>3 DEF OtherMessage, interestVars
<1>4. ASSUME NEW p \in Peers, NEW S \in SUBSET Pieces, ReceiveBitfield(p, S) PROVE InterestExact'
  <2>1. Cardinality(S \cap scheduled) > 0 <=> S \cap scheduled # {}
    <3>1. S \cap scheduled \in SUBSET Pieces
      OBVIOUS
    <3>2. IsFiniteSet(S \cap scheduled)
      BY <3>1, PeersAssumption, FS_Subset
    <3>3. Cardinality(S \cap scheduled) \in Nat
      BY <3>2, FS_CardinalityType
    <3>4. Cardinality(S \cap scheduled) = 0 <=> S \cap scheduled = {}
      BY <3>2, FS_EmptySet
    <3> QED
      BY <3>3, <3>4
  <2> QED
    BY <1>4, <2>1 DEF ReceiveBitfield, PiecesWanted
<1>5. ASSUME NEW p \in Peers, NEW i \in Pieces, ReceiveHave(p, i) PROVE InterestExact'
  <2>1. CASE i \in scheduled
    <3>1. (has[p] \cup {i}) \cap scheduled = (has[p] \cap scheduled) \cup {i}
      BY <2>1
    <3>2. Cardinality((has[p] \cap scheduled) \cup {i}) = Cardinality(has[p] \cap scheduled) + 1
      <4>1. i \notin has[p] \cap scheduled /\ has[p] \cap scheduled \in SUBSET Pieces
        BY <1>5 DEF ReceiveHave
      <4> QED
        BY <4>1, <1>0, FS_AddElement
    <3> QED
      BY <1>5, <2>1, <3>1, <3>2 DEF ReceiveHave
  <2>2. CASE i \notin scheduled
    <3>1. (has[p] \cup {i}) \cap scheduled = has[p] \cap scheduled
      BY <2>2
    <3> QED
      BY <1>5, <2>2, <3>1 DEF ReceiveHave
  <2> QED
    BY <2>1, <2>2
<1>6. ASSUME NEW p \in Peers, ReceiveInterested(p) PROVE InterestExact'
  BY <1>6 DEF ReceiveInterested, interestVars
<1>7. ASSUME NEW p \in Peers, ReceiveNotInterested(p) PROVE InterestExact'
  <2>1. failed' # "interest"
    BY <1>7 DEF ReceiveNotInterested, LeaveSlot, Running
  <2> QED
    BY <1>7, <2>1 DEF ReceiveNotInterested, interestVars
<1>8. ASSUME NEW i \in Pieces, DownloadedGoodPiece(i) PROVE InterestExact'
  <2>1. ASSUME NEW p \in conn, i \in has[p]
        PROVE  /\ Cardinality(has[p] \cap (scheduled \ {i})) = wanted[p] - 1
               /\ wanted[p] > 0 /\ p \in weInterested
    <3>1. has[p] \cap (scheduled \ {i}) = (has[p] \cap scheduled) \ {i}
      OBVIOUS
    <3>2. i \in has[p] \cap scheduled /\ has[p] \cap scheduled \in SUBSET Pieces
      BY <1>8, <2>1 DEF DownloadedGoodPiece
    <3>3. Cardinality((has[p] \cap scheduled) \ {i}) = Cardinality(has[p] \cap scheduled) - 1
      BY <3>2, <1>0, FS_RemoveElement
    <3>4. Cardinality(has[p] \cap scheduled) > 0
      BY <3>2, <1>0
    <3> QED
      BY <3>1, <3>2, <3>3, <3>4
  <2>2. ASSUME NEW p \in conn, i \notin has[p]
        PROVE  has[p] \cap (scheduled \ {i}) = has[p] \cap scheduled
    BY <2>2
  <2>3. /\ wanted' = [p \in Peers |-> IF p \in Holders(i) THEN wanted[p] - 1 ELSE wanted[p]]
        /\ weInterested' = weInterested \ {p \in Holders(i) : wanted[p] = 1}
        /\ failed' = failed /\ scheduled' = scheduled \ {i}
        /\ conn' = conn /\ has' = has
    BY <1>8, <2>1 DEF DownloadedGoodPiece, Holders, peerVars
  <2>4. ASSUME NEW p \in conn
        PROVE  /\ wanted'[p] = Cardinality(has[p] \cap scheduled')
               /\ p \in weInterested' <=> has[p] \cap scheduled' # {}
    <3>1. CASE i \in has[p]
      <4>1. wanted'[p] = wanted[p] - 1 /\ (p \in weInterested' <=> wanted[p] # 1)
        BY <2>1, <2>3, <2>4, <3>1 DEF Holders
      <4>2. has[p] \cap (scheduled \ {i}) \in SUBSET Pieces
        OBVIOUS
      <4> QED
        BY <1>0, <2>1, <2>3, <3>1, <4>1, <4>2
    <3>2. CASE i \notin has[p]
      BY <2>2, <2>3, <2>4, <3>2 DEF Holders
    <3> QED
      BY <3>1, <3>2
  <2> QED
    BY <2>3, <2>4
<1>9. CASE FullRound
  BY <1>9 DEF FullRound, peerVars, interestVars
<1>10. CASE UNCHANGED vars
  BY <1>10 DEF vars, peerVars, interestVars
<1> QED
  BY <1>1, <1>2, <1>3, <1>4, <1>5, <1>6, <1>7, <1>8, <1>9, <1>10 DEF Next, PeerNext

\* Every step hands on the slots it frees.
LEMMA SlotStep ==
    ASSUME IInv, [Next]_vars
    PROVE  NoCountedSlotIdle'
<1>0. TypeOK /\ NoCountedSlotIdle
  BY DEF IInv
<1>1. ASSUME NEW p \in Peers, NEW U \in SUBSET Peers, interested' \in SUBSET Peers,
             LeaveSlot(p, interested', U), U = unchoked \/ U = unchoked \ {p},
             interested' = interested \ {p}
      PROVE  NoCountedSlotIdle'
  <2>1. \/ failed' # "none"
        \/ interested' \subseteq unchoked'
        \/ unchokedCount' = UploadSlots
        \/ p \notin unchoked /\ unchoked' = U /\ unchokedCount' = unchokedCount
    BY <1>0, <1>1, LeaveEffect
  <2>2. failed' = "none" => failed = "none"
    BY <1>1, <1>0 DEF LeaveSlot, TypeOK
  <2> QED
    BY <1>0, <1>1, <2>1, <2>2 DEF NoCountedSlotIdle
<1>2. ASSUME NEW p \in Peers, Disconnect(p) PROVE NoCountedSlotIdle'
  BY <1>0, <1>1, <1>2 DEF Disconnect, TypeOK
<1>3. ASSUME NEW p \in Peers, ReceiveInterested(p) PROVE NoCountedSlotIdle'
  <2>1. interested' \in SUBSET Peers /\ unchoked \in SUBSET Peers /\ unchokedCount \in 0..UploadSlots
        /\ PartialRound(interested', unchoked, unchokedCount)
    BY <1>0, <1>3 DEF ReceiveInterested, TypeOK
  <2> QED
    BY <2>1, RoundEffect DEF NoCountedSlotIdle
<1>4. ASSUME NEW p \in Peers, ReceiveNotInterested(p) PROVE NoCountedSlotIdle'
  BY <1>0, <1>1, <1>4 DEF ReceiveNotInterested, TypeOK
<1>5. CASE FullRound
  BY <1>0, <1>5, FullRoundEffect DEF NoCountedSlotIdle
<1>6. CASE UNCHANGED chokeVars /\ (failed # "none" => failed' # "none")
  BY <1>0, <1>6 DEF chokeVars, NoCountedSlotIdle
<1>7. ASSUME NEW p \in Peers, \/ Join(p) \/ OtherMessage(p)
                              \/ \E S \in SUBSET Pieces : ReceiveBitfield(p, S)
                              \/ \E i \in Pieces : ReceiveHave(p, i)
      PROVE  NoCountedSlotIdle'
  BY <1>6, <1>7 DEF Join, OtherMessage, ReceiveBitfield, ReceiveHave, chokeVars
<1>8. ASSUME NEW i \in Pieces, DownloadedGoodPiece(i) PROVE NoCountedSlotIdle'
  BY <1>6, <1>8 DEF DownloadedGoodPiece, Running
<1>9. CASE UNCHANGED vars
  BY <1>6, <1>9 DEF vars, chokeVars
<1> QED
  BY <1>2, <1>3, <1>4, <1>5, <1>7, <1>8, <1>9 DEF Next, PeerNext

\* The initial states: nobody is connected.
LEMMA InitIInv == Init => IInv
<1> SUFFICES ASSUME Init PROVE IInv
  OBVIOUS
<1>1. TypeOK
  BY SlotsAssumption DEF Init, TypeOK
<1>2. Absent /\ InterestExact /\ NoCountedSlotIdle
  BY DEF Init, Absent, InterestExact, NoCountedSlotIdle
<1> QED
  BY <1>1, <1>2 DEF IInv

----------------------------------------------------------------------------

\* IInv is inductive: the types, the exact interest and the handed-on slots hold
\* in every reachable state of every session.
THEOREM SessionInvariant == Spec => []IInv
<1>1. IInv /\ [Next]_vars => IInv'
  BY TypeStep, AbsentStep, InterestStep, SlotStep DEF IInv
<1> QED
  BY <1>1, InitIInv, PTL DEF Spec

\* Types, for any number of peers, pieces and slots.
THEOREM SessionTypes == Spec => []TypeOK
<1>1. IInv => TypeOK
  BY DEF IInv
<1> QED
  BY <1>1, SessionInvariant, PTL

\* The counters of InterestTask are exact and its asserts hold, for any number of
\* peers and pieces.
THEOREM InterestAlwaysExact == Spec => []InterestExact
<1>1. IInv => InterestExact
  BY DEF IInv
<1> QED
  BY <1>1, SessionInvariant, PTL

\* No slot the count knows to be free stays free while a peer waits for one.
THEOREM SlotsHandedOn == Spec => []NoCountedSlotIdle
<1>1. IInv => NoCountedSlotIdle
  BY DEF IInv
<1> QED
  BY <1>1, SessionInvariant, PTL

\* A full round leaves no more interested peers unchoked than there are slots.
THEOREM FullRoundCutsDown == Spec => RoundRestoresSlots
<1>1. TypeOK /\ [Next]_vars => [FullRound => Cardinality((unchoked \cap interested)') <= UploadSlots]_vars
  BY FullRoundEffect
<1> QED
  BY <1>1, SessionTypes, PTL DEF Spec, RoundRestoresSlots
=============================================================================

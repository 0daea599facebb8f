-------------------------- MODULE Download_proofs --------------------------
(***************************************************************************)
(* Proofs about module Download, for any number of peers, pieces and       *)
(* blocks, any limits and any combination of faults.                       *)
(*                                                                         *)
(* The safety invariants are not inductive one by one: that a complete     *)
(* piece can be flushed rests on the count of its blocks, which rests on   *)
(* each block being in one place, which rests on the two views of the      *)
(* requests, and so on.  Their conjunction is inductive together with      *)
(* Control, which says what holds inside the loops of the reactor thread.  *)
(***************************************************************************)
EXTENDS DownloadRefinement, FiniteSetTheorems, TLAPS

USE DEF peerVars, requestVars, advisorVars, cacheVars, stateVars, ioVars, controlVars

\* Who the loops are about to visit, what a peer that is not registered looks
\* like, and the schedule as a function of what is available.
Control ==
    /\ arriving # NoBlock <=> phase = "deliver"
    /\ arriving # NoBlock => downloading[arriving] # {}
    /\ todo \subseteq conn
    /\ phase \in {"idle", "results"} => todo = {}
    /\ feeder # NoPeer => phase \in {"deliver", "feed"} /\ feeder \in conn
    /\ phase = "deliver" => \A p \in todo : ~ignored[p]
    /\ \A p \in Peers : p \notin conn \/ fresh[p] => has[p] = {}
    /\ scheduled = Wanted \ available

IInv ==
    /\ TypeOK /\ Control
    /\ RequestsAgree /\ BlocksConserved /\ BlocksCounted
    /\ DirtyExact /\ DrainedWhenDone /\ PrioritizedIncomplete
    /\ ReferencesExact /\ IgnoredOwesNothing /\ AvailableOnDisk

----------------------------------------------------------------------------
\* Counting.

\* The blocks of a piece are finitely many, and there is at least one.
LEMMA BlocksFinite ==
  ASSUME NEW i \in Pieces
  PROVE  /\ IsFiniteSet(BlocksOf(i))
         /\ Cardinality(BlocksOf(i)) \in Nat \ {0}
<1>1. IsFiniteSet(BlocksOf(i))
  BY SetAssumption, FS_Subset DEF BlocksOf
<1>2. BlocksOf(i) # {}
  BY SetAssumption DEF BlocksOf
<1>. QED
  BY <1>1, <1>2, FS_EmptySet, FS_CardinalityType

\* The registered peers that have a piece.
Having(i) == {p \in conn : i \in has[p]}

\* A finite set gains one member, or loses one.
LEMMA CardinalitySteps ==
  ASSUME NEW S, NEW x, IsFiniteSet(S), NEW T
  PROVE  /\ T = S \cup {x} /\ x \notin S => Cardinality(T) = Cardinality(S) + 1
         /\ T = S \ {x} /\ x \in S => Cardinality(T) = Cardinality(S) - 1
<1>1. x \notin S => Cardinality(S \cup {x}) = Cardinality(S) + 1
  BY FS_AddElement
<1>2. x \in S => Cardinality(S \ {x}) = Cardinality(S) - 1
  BY FS_RemoveElement
<1>. QED
  BY <1>1, <1>2

\* The peers that have a piece are finitely many.
LEMMA HavingFinite ==
  ASSUME TypeOK, NEW i
  PROVE  IsFiniteSet(Having(i)) /\ Cardinality(Having(i)) \in Nat
BY SetAssumption, FS_Subset, FS_CardinalityType DEF Having, TypeOK

\* A piece that is complete has all its blocks in the cache.
LEMMA CompleteStored ==
  ASSUME TypeOK, BlocksCounted, NEW i \in Pieces, Complete(i)
  PROVE  BlocksOf(i) \subseteq stored
<1>1. Cardinality(stored \cap BlocksOf(i)) = Cardinality(BlocksOf(i))
  BY DEF BlocksCounted, Complete
<1>2. stored \cap BlocksOf(i) \in SUBSET BlocksOf(i)
  OBVIOUS
<1>3. stored \cap BlocksOf(i) = BlocksOf(i)
  BY <1>1, <1>2, BlocksFinite, FS_Subset
<1>. QED
  BY <1>3

----------------------------------------------------------------------------
\* Type correctness: every step keeps every variable in its type.  Only the
\* availability of a piece needs more than the types: it is at least one for
\* the pieces of a peer that leaves.

\* The initial values have the types of TypeOK.
LEMMA TypeInit == Init => TypeOK
<1>. SUFFICES ASSUME Init PROVE TypeOK
  OBVIOUS
<1>1. snapshots \in Seq(SUBSET Pieces)
  BY DEF Init, InitPeers, InitTask, InitAdvisor, InitCache, InitState
<1>2. /\ conn \subseteq Peers /\ has \in [Peers -> SUBSET Pieces]
      /\ fresh \in [Peers -> BOOLEAN] /\ chokedUs \in [Peers -> BOOLEAN]
      /\ ignored \in [Peers -> BOOLEAN] /\ expired \in [Peers -> BOOLEAN]
      /\ requests \in [Peers -> SUBSET Blocks] /\ downloading \in [Blocks -> SUBSET Peers]
  BY DEF Init, InitPeers, InitTask, InitAdvisor, InitCache, InitState
<1>3. /\ io \in [Pieces -> IoStages] /\ phase \in Phases
      /\ disk \in [Pieces -> {"empty", "good", "bad"}]
  BY DEF Init, IoStages, Phases, InitPeers, InitTask, InitAdvisor, InitCache, InitState
<1>. QED
  BY <1>1, <1>2, <1>3, SetAssumption DEF Init, TypeOK, InitPeers, InitTask, InitAdvisor,
         InitCache, InitState

\* A peer that leaves takes away only references that were counted for it.
LEMMA DisconnectType ==
  ASSUME IInv, NEW p \in Peers, Disconnect(p)
  PROVE  TypeOK'
<1>1. ASSUME NEW i \in Pieces, i \in has[p]
      PROVE  references[i] - 1 \in Nat
  <2>1. p \in Having(i)
    BY <1>1 DEF Disconnect, Having, UnregisterPeer, UnreferenceMask
  <2>2. Cardinality(Having(i)) # 0
    BY <2>1, HavingFinite, FS_EmptySet DEF IInv
  <2>3. references[i] = Cardinality(Having(i))
    BY DEF IInv, ReferencesExact, Having
  <2>. QED
    BY <2>2, <2>3, HavingFinite DEF IInv
<1>2. references' \in [Pieces -> Nat]
  BY <1>1 DEF Disconnect, IInv, TypeOK, UnregisterPeer, UnreferenceMask
<1>. QED
  BY <1>2 DEF IInv, TypeOK, Disconnect, CancelDownload, UnregisterPeer, UnreferenceMask

\* Messages of a peer keep the types.
LEMMA PeerType ==
  ASSUME IInv, NEW p \in Peers, PeerNext(p)
  PROVE  TypeOK'
<1>. USE DEF IInv, TypeOK
<1>1. CASE OtherMessage(p)
  BY <1>1 DEF OtherMessage, Heard
<1>2. ASSUME NEW S \in SUBSET Pieces, ReceiveBitfield(p, S)
      PROVE  TypeOK'
  BY <1>2 DEF ReceiveBitfield, Heard, ReferenceMask
<1>3. ASSUME NEW i \in Pieces, ReceiveHave(p, i)
      PROVE  TypeOK'
  BY <1>3 DEF ReceiveHave, Heard, Reference
<1>4. CASE ReceiveChoke(p)
  BY <1>4 DEF ReceiveChoke, CancelDownload, Heard
<1>5. CASE ReceiveUnchoke(p)
  BY <1>5 DEF ReceiveUnchoke, Heard
<1>6. ASSUME NEW b \in Blocks, ReceiveBlock(p, b)
      PROVE  TypeOK'
  BY <1>6 DEF ReceiveBlock, Heard, Phases
<1>7. CASE Expire(p)
  BY <1>7 DEF Expire
<1>. QED
  BY <1>1, <1>2, <1>3, <1>4, <1>5, <1>6, <1>7, DisconnectType DEF PeerNext

\* Feeding keeps the types.
LEMMA FeedType ==
  ASSUME TypeOK, FeedNext
  PROVE  TypeOK'
<1>. USE DEF TypeOK
<1>1. ASSUME NEW p \in Peers, FeedBegin(p)
      PROVE  TypeOK'
  BY <1>1 DEF FeedBegin
<1>2. ASSUME NEW p \in Peers, FeedSkip(p)
      PROVE  TypeOK'
  BY <1>2 DEF FeedSkip
<1>3. ASSUME NEW i \in Pieces, NEW S \in SUBSET BlocksOf(i), FeedClean(i, S)
      PROVE  TypeOK'
  BY <1>3, SetAssumption DEF FeedClean, ReservePiece, SendRequests, BlocksOf, Reserve, MarkDirty
<1>4. ASSUME NEW i \in Pieces, NEW S \in SUBSET BlocksOf(i), FeedDirty(i, S)
      PROVE  TypeOK'
  BY <1>4, SetAssumption DEF FeedDirty, SendRequests, PendingOf, BlocksOf
<1>5. CASE FeedEnd
  BY <1>5 DEF FeedEnd
<1>6. CASE FeedDone
  BY <1>6 DEF FeedDone, Phases, DownloadPhases
<1>. QED
  BY <1>1, <1>2, <1>3, <1>4, <1>5, <1>6 DEF FeedNext

\* A round of DownloadTask::execute keeps the types.
LEMMA ExecuteType ==
  ASSUME TypeOK, ExecuteNext
  PROVE  TypeOK'
<1>. USE DEF TypeOK
<1>1. CASE BeginExecute
  BY <1>1 DEF BeginExecute, Phases, DownloadPhases
<1>2. ASSUME NEW p \in Peers, MaintainForgive(p)
      PROVE  TypeOK'
  BY <1>2 DEF MaintainForgive
<1>3. ASSUME NEW p \in Peers, MaintainSnub(p)
      PROVE  TypeOK'
  BY <1>3 DEF MaintainSnub, CancelDownload
<1>4. ASSUME NEW p \in Peers, MaintainSkip(p)
      PROVE  TypeOK'
  BY <1>4 DEF MaintainSkip
<1>5. CASE MaintainDone
  BY <1>5 DEF MaintainDone, Phases, DownloadPhases
<1>6. ASSUME NEW i \in Pieces, PumpPiece(i)
      PROVE  TypeOK'
  BY <1>6, SetAssumption DEF PumpPiece, ReservePiece, BlocksOf, Reserve, MarkDirty
<1>7. CASE PumpDone
  BY <1>7 DEF PumpDone, Phases, DownloadPhases
<1>8. ASSUME NEW i \in Pieces, NEW f \in [PendingOf(i) -> Holders(i) \cup {NoPeer}], DeferSend(i, f)
      PROVE  TypeOK'
  BY <1>8 DEF DeferSend, Holders, PendingOf
<1>9. ASSUME NEW i \in Pieces, DeferDemote(i)
      PROVE  TypeOK'
  BY <1>9 DEF DeferDemote
<1>10. CASE DeferDone
  BY <1>10 DEF DeferDone, Phases, DownloadPhases
<1>11. ASSUME NEW p \in Peers, NEW S \in SUBSET Blocks, EndGameFill(p, S)
      PROVE  TypeOK'
  BY <1>11 DEF EndGameFill, SendRequests
<1>12. ASSUME NEW p \in Peers, EndGameSkip(p)
      PROVE  TypeOK'
  BY <1>12 DEF EndGameSkip
<1>13. CASE EndGameDone
  BY <1>13 DEF EndGameDone, Phases
<1>. QED
  BY <1>1, <1>2, <1>3, <1>4, <1>5, <1>6, <1>7, <1>8, <1>9, <1>10, <1>11, <1>12, <1>13, FeedType DEF ExecuteNext

\* A round of CommandTask::execute keeps the types.
LEMMA CommandType ==
  ASSUME TypeOK, CommandNext
  PROVE  TypeOK'
<1>. USE DEF TypeOK
<1>1. CASE FlushPendingPieces
  BY <1>1 DEF FlushPendingPieces, Phases, CommandPhases, IoStages, InFlight, FlushComplete
<1>2. ASSUME NEW i \in Pieces, SettleGood(i)
      PROVE  TypeOK'
  BY <1>2 DEF SettleGood, IoStages, MarkPieceAsAvailable, MarkClean
<1>3. ASSUME NEW i \in Pieces, SettleBad(i)
      PROVE  TypeOK'
  BY <1>3 DEF SettleBad, IoStages, MarkClean
<1>4. ASSUME NEW i \in Pieces, SettleFailed(i)
      PROVE  TypeOK'
  BY <1>4 DEF SettleFailed, Phases
<1>5. ASSUME NEW joining \in SUBSET (Peers \ conn), FinishCommand(joining)
      PROVE  TypeOK'
  <2>1. snapshots' \in Seq(SUBSET Pieces)
    BY <1>5 DEF FinishCommand, RegisterPeers
  <2>. QED
    BY <1>5, <2>1 DEF FinishCommand, Phases, RegisterPeers
<1>. QED
  BY <1>1, <1>2, <1>3, <1>4, <1>5 DEF CommandNext

\* The DiskIo thread keeps the types.
LEMMA DiskType ==
  ASSUME TypeOK, DiskNext
  PROVE  TypeOK'
<1>. USE DEF TypeOK
<1>1. ASSUME NEW i \in Pieces, WritePiece(i)
      PROVE  TypeOK'
  BY <1>1 DEF WritePiece, IoStages, InFlight
<1>2. ASSUME NEW i \in Pieces, WriteFails(i)
      PROVE  TypeOK'
  BY <1>2 DEF WriteFails, IoStages, Results
<1>3. ASSUME NEW i \in Pieces, VerifyPiece(i)
      PROVE  TypeOK'
  BY <1>3 DEF VerifyPiece, IoStages, Results
<1>4. CASE SaveState
  BY <1>4 DEF SaveState
<1>. QED
  BY <1>1, <1>2, <1>3, <1>4 DEF DiskNext

\* Every step keeps the types.
LEMMA TypeStep ==
  ASSUME IInv, [Next]_vars
  PROVE  TypeOK'
<1>1. CASE UNCHANGED vars
  BY <1>1 DEF IInv, TypeOK, vars
<1>2. CASE StoreBlock
  <2>1. arriving \in Blocks
    BY <1>2 DEF IInv, TypeOK, Control, StoreBlock, Store
  <2>2. PieceOf[arriving] \in Pieces
    BY <2>1, SetAssumption
  <2>3. have' = [have EXCEPT ![PieceOf[arriving]] = @ + 1]
    BY <1>2 DEF StoreBlock, Store
  <2>4. have' \in [Pieces -> Nat]
    BY <2>2, <2>3 DEF IInv, TypeOK
  <2>5. downloading' \in [Blocks -> SUBSET Peers]
    BY <1>2, <2>1 DEF IInv, TypeOK, StoreBlock, Store
  <2>6. (prioritized \subseteq Pieces)' /\ (stored \subseteq Blocks)'
    BY <1>2, <2>1 DEF IInv, TypeOK, StoreBlock, Store
  <2>. QED
    BY <1>2, <2>4, <2>5, <2>6 DEF IInv, TypeOK, StoreBlock, Phases, Store
<1>3. CASE Restart
  <2>1. snapshots' \in Seq(SUBSET Pieces)
    BY <1>3 DEF Restart
  <2>2. /\ (requests \in [Peers -> SUBSET Blocks])' /\ (downloading \in [Blocks -> SUBSET Peers])'
        /\ (has \in [Peers -> SUBSET Pieces])' /\ (fresh \in [Peers -> BOOLEAN])'
        /\ (chokedUs \in [Peers -> BOOLEAN])' /\ (ignored \in [Peers -> BOOLEAN])'
        /\ (expired \in [Peers -> BOOLEAN])'
    BY <1>3 DEF Restart
  <2>3. /\ (io \in [Pieces -> IoStages])' /\ phase' \in Phases
        /\ (disk \in [Pieces -> {"empty", "good", "bad"}])'
    BY <1>3 DEF Restart, IoStages, Phases, IInv, TypeOK
  <2>. QED
    BY <1>3, <2>1, <2>2, <2>3, SetAssumption DEF IInv, TypeOK, Restart
<1>. QED
  BY <1>1, <1>2, <1>3, PeerType, ExecuteType, CommandType, DiskType DEF Next, IInv

----------------------------------------------------------------------------

\* Every step leaves the reactor thread in a phase its variables fit.
LEMMA ControlStep ==
  ASSUME IInv, [Next]_vars
  PROVE  Control'
<1>. USE DEF IInv, TypeOK, Control
<1>1. ASSUME NEW p \in Peers, OtherMessage(p)
      PROVE  Control'
  BY <1>1, SetAssumption DEF OtherMessage, Heard
<1>2. ASSUME NEW p \in Peers, ReceiveChoke(p)
      PROVE  Control'
  BY <1>2, SetAssumption DEF ReceiveChoke, Heard, CancelDownload
<1>3. ASSUME NEW p \in Peers, ReceiveUnchoke(p)
      PROVE  Control'
  BY <1>3, SetAssumption DEF ReceiveUnchoke, Heard
<1>4. ASSUME NEW p \in Peers, Disconnect(p)
      PROVE  Control'
  BY <1>4, SetAssumption DEF Disconnect, CancelDownload, UnregisterPeer, UnreferenceMask
<1>5. ASSUME NEW p \in Peers, MaintainForgive(p)
      PROVE  Control'
  BY <1>5, SetAssumption DEF MaintainForgive
<1>6. ASSUME NEW p \in Peers, MaintainSnub(p)
      PROVE  Control'
  BY <1>6, SetAssumption DEF MaintainSnub, CancelDownload
<1>7. ASSUME NEW p \in Peers, MaintainSkip(p)
      PROVE  Control'
  BY <1>7, SetAssumption DEF MaintainSkip
<1>8. ASSUME NEW p \in Peers, FeedBegin(p)
      PROVE  Control'
  BY <1>8, SetAssumption DEF FeedBegin
<1>9. ASSUME NEW p \in Peers, FeedSkip(p)
      PROVE  Control'
  BY <1>9, SetAssumption DEF FeedSkip
<1>10. ASSUME NEW p \in Peers, EndGameSkip(p)
      PROVE  Control'
  BY <1>10, SetAssumption DEF EndGameSkip
<1>11. ASSUME NEW p \in Peers, NEW S \in SUBSET Pieces, ReceiveBitfield(p, S)
      PROVE  Control'
  BY <1>11, SetAssumption DEF ReceiveBitfield, Heard, ReferenceMask
<1>12. ASSUME NEW p \in Peers, NEW i \in Pieces, ReceiveHave(p, i)
      PROVE  Control'
  BY <1>12, SetAssumption DEF ReceiveHave, Heard, Reference
<1>13. ASSUME NEW p \in Peers, NEW b \in Blocks, ReceiveBlock(p, b)
      PROVE  Control'
  <2>. USE DEF ReceiveBlock, Heard
  <2>1. b # NoBlock /\ downloading[b] # {} /\ downloading[b] \subseteq conn
    BY <1>13, SetAssumption DEF RequestsAgree
  <2>2. \A q \in downloading[b] : ~ignored[q]
    BY <1>13, <2>1 DEF RequestsAgree, IgnoredOwesNothing
  <2>. QED
    BY <1>13, <2>1, <2>2
<1>14. CASE StoreBlock
  BY <1>14, SetAssumption DEF StoreBlock, Store
<1>15. CASE BeginExecute
  BY <1>15, SetAssumption DEF BeginExecute
<1>16. CASE MaintainDone
  BY <1>16, SetAssumption DEF MaintainDone
<1>17. CASE PumpDone
  BY <1>17, SetAssumption DEF PumpDone
<1>18. CASE DeferDone
  BY <1>18, SetAssumption DEF DeferDone
<1>19. CASE FeedEnd
  BY <1>19, SetAssumption DEF FeedEnd
<1>20. CASE FeedDone
  BY <1>20, SetAssumption DEF FeedDone
<1>21. CASE EndGameDone
  BY <1>21, SetAssumption DEF EndGameDone
<1>22. CASE FlushPendingPieces
  BY <1>22, SetAssumption DEF FlushPendingPieces, FlushComplete
<1>23. CASE Restart
  BY <1>23, SetAssumption DEF Restart
<1>24. ASSUME NEW i \in Pieces, SettleGood(i)
      PROVE  Control'
  BY <1>24, SetAssumption DEF SettleGood, MarkPieceAsAvailable, MarkClean
<1>25. ASSUME NEW i \in Pieces, SettleFailed(i)
      PROVE  Control'
  BY <1>25, SetAssumption DEF SettleFailed
<1>26. ASSUME NEW i \in Pieces, NEW f \in [PendingOf(i) -> Holders(i) \cup {NoPeer}], DeferSend(i, f)
      PROVE  Control'
  BY <1>26, SetAssumption DEF DeferSend
<1>27. ASSUME NEW i \in Pieces, NEW S \in SUBSET BlocksOf(i), FeedClean(i, S)
      PROVE  Control'
  BY <1>27, SetAssumption DEF FeedClean, ReservePiece, SendRequests, Reserve, MarkDirty
<1>28. ASSUME NEW i \in Pieces, NEW S \in SUBSET BlocksOf(i), FeedDirty(i, S)
      PROVE  Control'
  BY <1>28, SetAssumption DEF FeedDirty, SendRequests
<1>29. ASSUME NEW p \in Peers, NEW S \in SUBSET Blocks, EndGameFill(p, S)
      PROVE  Control'
  BY <1>29, SetAssumption DEF EndGameFill, SendRequests
<1>30. ASSUME NEW joining \in SUBSET (Peers \ conn), FinishCommand(joining)
      PROVE  Control'
  BY <1>30, SetAssumption DEF FinishCommand, RegisterPeers
<1>31. ASSUME NEW p \in Peers,
             Expire(p)
      PROVE  Control'
  BY <1>31 DEF Expire
<1>32. CASE SaveState
  BY <1>32 DEF SaveState
<1>33. ASSUME NEW i \in Pieces,
             PumpPiece(i) \/ DeferDemote(i) \/ SettleBad(i) \/ WritePiece(i) \/ WriteFails(i)
             \/ VerifyPiece(i)
      PROVE  Control'
  BY <1>33 DEF PumpPiece, DeferDemote, SettleBad, WritePiece, WriteFails, VerifyPiece, MarkClean
<1>34. CASE UNCHANGED vars
  BY <1>34 DEF vars
<1>. QED
  BY <1>1, <1>2, <1>3, <1>4, <1>5, <1>6, <1>7, <1>8, <1>9, <1>10, <1>11, <1>12, <1>13,
     <1>14, <1>15, <1>16, <1>17, <1>18, <1>19, <1>20, <1>21, <1>22, <1>23, <1>24, <1>25,
     <1>26, <1>27, <1>28, <1>29, <1>30, <1>31, <1>32, <1>33, <1>34 DEF Next, PeerNext,
     FeedNext, ExecuteNext, CommandNext, DiskNext

\* Every step changes both views of the request relation alike.
LEMMA RequestsAgreeStep ==
  ASSUME IInv, [Next]_vars
  PROVE  RequestsAgree'
<1>. USE DEF IInv, TypeOK, RequestsAgree
<1>1. ASSUME NEW p \in Peers, ReceiveChoke(p)
      PROVE  RequestsAgree'
  BY <1>1, SetAssumption DEF ReceiveChoke, Heard, CancelDownload, Control, BlocksConserved, PendingOf, BlocksOf, Holders
<1>2. ASSUME NEW p \in Peers, Disconnect(p)
      PROVE  RequestsAgree'
  BY <1>2, SetAssumption DEF Disconnect, CancelDownload, Control, BlocksConserved, PendingOf,
                             BlocksOf, Holders, UnregisterPeer, UnreferenceMask
<1>3. ASSUME NEW p \in Peers, MaintainSnub(p)
      PROVE  RequestsAgree'
  BY <1>3, SetAssumption DEF MaintainSnub, CancelDownload, Control, BlocksConserved, PendingOf, BlocksOf, Holders
<1>4. ASSUME NEW p \in Peers, NEW b \in Blocks, ReceiveBlock(p, b)
      PROVE  RequestsAgree'
  BY <1>4, SetAssumption DEF ReceiveBlock, Heard, Control, BlocksConserved, PendingOf, BlocksOf, Holders
<1>5. CASE StoreBlock
  BY <1>5, SetAssumption DEF StoreBlock, Control, BlocksConserved, PendingOf, BlocksOf, Holders,
                             Store
<1>6. CASE Restart
  BY <1>6, SetAssumption DEF Restart, Control, BlocksConserved, PendingOf, BlocksOf, Holders
<1>7. ASSUME NEW i \in Pieces, NEW f \in [PendingOf(i) -> Holders(i) \cup {NoPeer}], DeferSend(i, f)
      PROVE  RequestsAgree'
  BY <1>7, SetAssumption DEF DeferSend, Control, BlocksConserved, PendingOf, BlocksOf, Holders
<1>8. ASSUME NEW i \in Pieces, NEW S \in SUBSET BlocksOf(i), FeedClean(i, S)
      PROVE  RequestsAgree'
  <2>0. i \notin reserved
    BY <1>8 DEF FeedClean, DirtyExact
  <2>1. \A b \in S : b \in Blocks /\ downloading[b] = {}
    BY <2>0 DEF BlocksConserved, BlocksOf
  <2>2. arriving \notin S
    BY <2>1, SetAssumption DEF Control, BlocksOf
  <2>. QED
    BY <1>8, <2>1, <2>2 DEF FeedClean, SendRequests, Control, BlocksOf
<1>9. ASSUME NEW i \in Pieces, NEW S \in SUBSET BlocksOf(i), FeedDirty(i, S)
      PROVE  RequestsAgree'
  BY <1>9, SetAssumption DEF FeedDirty, SendRequests, Control, BlocksConserved, PendingOf, BlocksOf, Holders
<1>10. ASSUME NEW p \in Peers, NEW S \in SUBSET Blocks, EndGameFill(p, S)
      PROVE  RequestsAgree'
  BY <1>10, SetAssumption DEF EndGameFill, SendRequests, Control, BlocksConserved, PendingOf, BlocksOf, Holders
<1>11. ASSUME NEW joining \in SUBSET (Peers \ conn), FinishCommand(joining)
      PROVE  RequestsAgree'
  BY <1>11, SetAssumption DEF FinishCommand, Control, BlocksConserved, PendingOf, BlocksOf,
                              Holders, RegisterPeers
<1>12. ASSUME NEW p \in Peers,
             OtherMessage(p) \/ ReceiveUnchoke(p) \/ Expire(p) \/ MaintainForgive(p) \/
             MaintainSkip(p) \/ FeedBegin(p) \/ FeedSkip(p) \/ EndGameSkip(p)
      PROVE  RequestsAgree'
  BY <1>12 DEF OtherMessage, ReceiveUnchoke, Expire, MaintainForgive, MaintainSkip,
     FeedBegin, FeedSkip, EndGameSkip
<1>13. ASSUME NEW p \in Peers, NEW S \in SUBSET Pieces,
             ReceiveBitfield(p, S)
      PROVE  RequestsAgree'
  BY <1>13 DEF ReceiveBitfield, ReferenceMask
<1>14. ASSUME NEW p \in Peers, NEW i \in Pieces,
             ReceiveHave(p, i)
      PROVE  RequestsAgree'
  BY <1>14 DEF ReceiveHave, Reference
<1>15. CASE BeginExecute \/ MaintainDone \/ PumpDone \/ DeferDone \/ FeedEnd \/ FeedDone \/
        EndGameDone \/ FlushPendingPieces \/ SaveState
  BY <1>15 DEF BeginExecute, MaintainDone, PumpDone, DeferDone, FeedEnd, FeedDone, EndGameDone,
               FlushPendingPieces, SaveState, FlushComplete
<1>16. ASSUME NEW i \in Pieces,
             PumpPiece(i) \/ DeferDemote(i) \/ SettleGood(i) \/ SettleBad(i) \/
             SettleFailed(i) \/ WritePiece(i) \/ WriteFails(i) \/ VerifyPiece(i)
      PROVE  RequestsAgree'
  BY <1>16 DEF PumpPiece, DeferDemote, SettleGood, SettleBad, SettleFailed, WritePiece,
               WriteFails, VerifyPiece, MarkPieceAsAvailable, MarkClean
<1>17. CASE UNCHANGED vars
  BY <1>17 DEF vars
<1>. QED
  BY <1>1, <1>2, <1>3, <1>4, <1>5, <1>6, <1>7, <1>8, <1>9, <1>10, <1>11, <1>12, <1>13,
     <1>14, <1>15, <1>16, <1>17 DEF Next, PeerNext, FeedNext, ExecuteNext, CommandNext,
     DiskNext

\* Every step moves a block to one place or leaves it where it is.
LEMMA BlocksConservedStep ==
  ASSUME IInv, [Next]_vars
  PROVE  BlocksConserved'
<1>. USE DEF IInv, TypeOK, BlocksConserved
<1>1. ASSUME NEW p \in Peers, ReceiveChoke(p)
      PROVE  BlocksConserved'
  BY <1>1, SetAssumption DEF ReceiveChoke, Heard, CancelDownload, Control, RequestsAgree, PendingOf, BlocksOf, DirtyExact
<1>2. ASSUME NEW p \in Peers, Disconnect(p)
      PROVE  BlocksConserved'
  BY <1>2, SetAssumption DEF Disconnect, CancelDownload, Control, RequestsAgree, PendingOf,
                             BlocksOf, DirtyExact, UnregisterPeer, UnreferenceMask
<1>3. ASSUME NEW p \in Peers, MaintainSnub(p)
      PROVE  BlocksConserved'
  BY <1>3, SetAssumption DEF MaintainSnub, CancelDownload, Control, RequestsAgree, PendingOf, BlocksOf, DirtyExact
<1>4. CASE StoreBlock
  <2>1. arriving \in Blocks /\ downloading[arriving] # {}
    BY <1>4 DEF StoreBlock, Control, Store
  <2>2. /\ downloading' = [downloading EXCEPT ![arriving] = {}]
        /\ stored' = stored \cup {arriving}
        /\ UNCHANGED <<pending, reserved>>
    BY <1>4 DEF StoreBlock, Store
  <2>. QED
    BY <2>1, <2>2
<1>5. CASE FlushPendingPieces
  <2>1. \A b \in Blocks : Complete(PieceOf[b]) => b \in stored
    BY CompleteStored, SetAssumption DEF BlocksOf
  <2>2. \A b \in Blocks : PieceOf[b] \in reserved' <=>
                           PieceOf[b] \in reserved /\ ~Complete(PieceOf[b])
    BY <1>5 DEF FlushPendingPieces, FlushComplete
  <2>3. \A b \in Blocks : b \in stored' <=> b \in stored /\ ~Complete(PieceOf[b])
    BY <1>5, SetAssumption DEF FlushPendingPieces, Complete, FlushComplete
  <2>4. UNCHANGED <<pending, downloading>>
    BY <1>5 DEF FlushPendingPieces, FlushComplete
  <2>. QED
    BY <2>1, <2>2, <2>3, <2>4, SetAssumption DEF Complete
<1>6. CASE Restart
  BY <1>6, SetAssumption DEF Restart, Control, RequestsAgree, PendingOf, BlocksOf, DirtyExact
<1>7. ASSUME NEW i \in Pieces, PumpPiece(i)
      PROVE  BlocksConserved'
  <2>1. \A b \in BlocksOf(i) : b \notin pending /\ downloading[b] = {} /\ b \notin stored
    BY <1>7 DEF PumpPiece, Downloadable, DirtyExact, BlocksOf
  <2>. QED
    BY <1>7, <2>1, SetAssumption DEF PumpPiece, ReservePiece, BlocksOf, Reserve, MarkDirty
<1>8. ASSUME NEW i \in Pieces, NEW f \in [PendingOf(i) -> Holders(i) \cup {NoPeer}], DeferSend(i, f)
      PROVE  BlocksConserved'
  BY <1>8, SetAssumption DEF DeferSend, Control, RequestsAgree, PendingOf, BlocksOf, DirtyExact
<1>9. ASSUME NEW i \in Pieces, NEW S \in SUBSET BlocksOf(i), FeedClean(i, S)
      PROVE  BlocksConserved'
  <2>1. \A b \in BlocksOf(i) : b \notin pending /\ downloading[b] = {} /\ b \notin stored
    BY <1>9 DEF FeedClean, DirtyExact, BlocksOf
  <2>2. feeder \in Peers
    BY <1>9 DEF FeedClean
  <2>. QED
    BY <1>9, <2>1, <2>2, SetAssumption DEF FeedClean, ReservePiece, SendRequests, BlocksOf,
         Reserve, MarkDirty
<1>10. ASSUME NEW i \in Pieces, NEW S \in SUBSET BlocksOf(i), FeedDirty(i, S)
      PROVE  BlocksConserved'
  BY <1>10, SetAssumption DEF FeedDirty, SendRequests, Control, RequestsAgree, PendingOf, BlocksOf, DirtyExact
<1>11. ASSUME NEW p \in Peers, NEW S \in SUBSET Blocks, EndGameFill(p, S)
      PROVE  BlocksConserved'
  BY <1>11, SetAssumption DEF EndGameFill, SendRequests, Control, RequestsAgree, PendingOf, BlocksOf, DirtyExact
<1>12. ASSUME NEW p \in Peers,
             OtherMessage(p) \/ ReceiveUnchoke(p) \/ Expire(p) \/ MaintainForgive(p) \/
             MaintainSkip(p) \/ FeedBegin(p) \/ FeedSkip(p) \/ EndGameSkip(p)
      PROVE  BlocksConserved'
  BY <1>12 DEF OtherMessage, ReceiveUnchoke, Expire, MaintainForgive, MaintainSkip,
     FeedBegin, FeedSkip, EndGameSkip
<1>13. ASSUME NEW p \in Peers, NEW S \in SUBSET Pieces,
             ReceiveBitfield(p, S)
      PROVE  BlocksConserved'
  BY <1>13 DEF ReceiveBitfield, ReferenceMask
<1>14. ASSUME NEW p \in Peers, NEW i \in Pieces,
             ReceiveHave(p, i)
      PROVE  BlocksConserved'
  BY <1>14 DEF ReceiveHave, Reference
<1>15. ASSUME NEW p \in Peers, NEW b \in Blocks,
             ReceiveBlock(p, b)
      PROVE  BlocksConserved'
  BY <1>15 DEF ReceiveBlock
<1>16. CASE BeginExecute \/ MaintainDone \/ PumpDone \/ DeferDone \/ FeedEnd \/ FeedDone \/
        EndGameDone \/ SaveState
  BY <1>16 DEF BeginExecute, MaintainDone, PumpDone, DeferDone, FeedEnd, FeedDone,
     EndGameDone, SaveState
<1>17. ASSUME NEW i \in Pieces,
             DeferDemote(i) \/ SettleGood(i) \/ SettleBad(i) \/ SettleFailed(i) \/
             WritePiece(i) \/ WriteFails(i) \/ VerifyPiece(i)
      PROVE  BlocksConserved'
  BY <1>17 DEF DeferDemote, SettleGood, SettleBad, SettleFailed, WritePiece, WriteFails,
               VerifyPiece, MarkPieceAsAvailable, MarkClean
<1>18. ASSUME NEW joining \in SUBSET (Peers \ conn),
             FinishCommand(joining)
      PROVE  BlocksConserved'
  BY <1>18 DEF FinishCommand, RegisterPeers
<1>19. CASE UNCHANGED vars
  BY <1>19 DEF vars
<1>. QED
  BY <1>1, <1>2, <1>3, <1>4, <1>5, <1>6, <1>7, <1>8, <1>9, <1>10, <1>11, <1>12, <1>13,
     <1>14, <1>15, <1>16, <1>17, <1>18, <1>19 DEF Next, PeerNext, FeedNext, ExecuteNext,
     CommandNext, DiskNext

\* Every step counts the blocks it stores, and a new entry starts from zero.
LEMMA BlocksCountedStep ==
  ASSUME IInv, [Next]_vars
  PROVE  BlocksCounted'
<1>. USE DEF IInv, TypeOK, BlocksCounted
<1>1. CASE StoreBlock
  <2>1. arriving \in Blocks /\ arriving \notin stored /\ PieceOf[arriving] \in reserved
    BY <1>1 DEF StoreBlock, Control, BlocksConserved, Store
  <2>2. /\ stored' = stored \cup {arriving} /\ reserved' = reserved
        /\ have' = [have EXCEPT ![PieceOf[arriving]] = have[PieceOf[arriving]] + 1]
    BY <1>1 DEF StoreBlock, Store
  <2>3. ASSUME NEW i \in reserved, i # PieceOf[arriving]
        PROVE  have'[i] = Cardinality(stored' \cap BlocksOf(i))
    <3>1. stored' \cap BlocksOf(i) = stored \cap BlocksOf(i)
      BY <2>2, <2>3 DEF BlocksOf
    <3>. QED
      BY <2>2, <2>3, <3>1
  <2>4. have'[PieceOf[arriving]] = Cardinality(stored' \cap BlocksOf(PieceOf[arriving]))
    <3>. DEFINE T == stored \cap BlocksOf(PieceOf[arriving])
    <3>1. stored' \cap BlocksOf(PieceOf[arriving]) = T \cup {arriving}
      BY <2>1, <2>2 DEF BlocksOf
    <3>2. IsFiniteSet(T)
      BY SetAssumption, FS_Subset
    <3>3. Cardinality(T \cup {arriving}) = Cardinality(T) + 1
      BY <2>1, <3>2, FS_AddElement
    <3>4. have[PieceOf[arriving]] = Cardinality(T)
      BY <2>1
    <3>. QED
      BY <2>1, <2>2, <3>1, <3>3, <3>4
  <2>. QED
    BY <2>2, <2>3, <2>4
<1>2. CASE FlushPendingPieces
  <2>1. reserved' = reserved \ {i \in reserved : Complete(i)} /\ have' = have
        /\ stored' = {b \in stored : PieceOf[b] \notin {i \in reserved : Complete(i)}}
    BY <1>2 DEF FlushPendingPieces, FlushComplete
  <2>2. ASSUME NEW i \in reserved'
        PROVE  stored' \cap BlocksOf(i) = stored \cap BlocksOf(i)
    BY <2>1, <2>2 DEF BlocksOf
  <2>. QED
    BY <2>1, <2>2 DEF BlocksOf
<1>3. CASE Restart
  BY <1>3, SetAssumption DEF Restart, Control, BlocksConserved, BlocksOf, DirtyExact
<1>4. ASSUME NEW i \in Pieces, PumpPiece(i)
      PROVE  BlocksCounted'
  <2>1. i \notin reserved
    BY <1>4 DEF PumpPiece, Downloadable, DirtyExact
  <2>2. stored \cap BlocksOf(i) = {}
    BY <2>1, SetAssumption DEF BlocksOf, BlocksConserved
  <2>3. /\ reserved' = reserved \cup {i} /\ have' = [have EXCEPT ![i] = 0]
        /\ stored' = stored
    BY <1>4 DEF PumpPiece, ReservePiece, Reserve, MarkDirty
  <2>4. ASSUME NEW j \in reserved, j # i
        PROVE  have'[j] = Cardinality(stored' \cap BlocksOf(j))
    BY <2>3, <2>4
  <2>5. have'[i] = Cardinality(stored' \cap BlocksOf(i))
    BY <2>2, <2>3, FS_EmptySet
  <2>. QED
    BY <2>3, <2>4, <2>5
<1>5. ASSUME NEW i \in Pieces, NEW S \in SUBSET BlocksOf(i), FeedClean(i, S)
      PROVE  BlocksCounted'
  <2>1. i \notin reserved
    BY <1>5 DEF FeedClean, DirtyExact
  <2>2. stored \cap BlocksOf(i) = {}
    BY <2>1, SetAssumption DEF BlocksOf, BlocksConserved
  <2>3. /\ reserved' = reserved \cup {i} /\ have' = [have EXCEPT ![i] = 0]
        /\ stored' = stored
    BY <1>5 DEF FeedClean, ReservePiece, Reserve, MarkDirty
  <2>4. ASSUME NEW j \in reserved, j # i
        PROVE  have'[j] = Cardinality(stored' \cap BlocksOf(j))
    BY <2>3, <2>4
  <2>5. have'[i] = Cardinality(stored' \cap BlocksOf(i))
    BY <2>2, <2>3, FS_EmptySet
  <2>. QED
    BY <2>3, <2>4, <2>5
<1>6. ASSUME NEW p \in Peers,
             OtherMessage(p) \/ ReceiveChoke(p) \/ ReceiveUnchoke(p) \/ Disconnect(p) \/
             Expire(p) \/ MaintainForgive(p) \/ MaintainSnub(p) \/ MaintainSkip(p) \/
             FeedBegin(p) \/ FeedSkip(p) \/ EndGameSkip(p)
      PROVE  BlocksCounted'
  BY <1>6 DEF OtherMessage, ReceiveChoke, ReceiveUnchoke, Disconnect, Expire, MaintainForgive,
              MaintainSnub, MaintainSkip, FeedBegin, FeedSkip, EndGameSkip, UnregisterPeer,
              UnreferenceMask
<1>7. ASSUME NEW p \in Peers, NEW S \in SUBSET Pieces,
             ReceiveBitfield(p, S)
      PROVE  BlocksCounted'
  BY <1>7 DEF ReceiveBitfield, ReferenceMask
<1>8. ASSUME NEW p \in Peers, NEW i \in Pieces,
             ReceiveHave(p, i)
      PROVE  BlocksCounted'
  BY <1>8 DEF ReceiveHave, Reference
<1>9. ASSUME NEW p \in Peers, NEW b \in Blocks,
             ReceiveBlock(p, b)
      PROVE  BlocksCounted'
  BY <1>9 DEF ReceiveBlock
<1>10. CASE BeginExecute \/ MaintainDone \/ PumpDone \/ DeferDone \/ FeedEnd \/ FeedDone \/
        EndGameDone \/ SaveState
  BY <1>10 DEF BeginExecute, MaintainDone, PumpDone, DeferDone, FeedEnd, FeedDone,
     EndGameDone, SaveState
<1>11. ASSUME NEW i \in Pieces,
             DeferDemote(i) \/ SettleGood(i) \/ SettleBad(i) \/ SettleFailed(i) \/
             WritePiece(i) \/ WriteFails(i) \/ VerifyPiece(i)
      PROVE  BlocksCounted'
  BY <1>11 DEF DeferDemote, SettleGood, SettleBad, SettleFailed, WritePiece, WriteFails,
               VerifyPiece, MarkPieceAsAvailable, MarkClean
<1>12. ASSUME NEW i \in Pieces, NEW f \in [PendingOf(i) -> Holders(i) \cup {NoPeer}],
             DeferSend(i, f)
      PROVE  BlocksCounted'
  BY <1>12 DEF DeferSend
<1>13. ASSUME NEW i \in Pieces, NEW S \in SUBSET BlocksOf(i),
             FeedDirty(i, S)
      PROVE  BlocksCounted'
  BY <1>13 DEF FeedDirty
<1>14. ASSUME NEW p \in Peers, NEW S \in SUBSET Blocks,
             EndGameFill(p, S)
      PROVE  BlocksCounted'
  BY <1>14 DEF EndGameFill
<1>15. ASSUME NEW joining \in SUBSET (Peers \ conn),
             FinishCommand(joining)
      PROVE  BlocksCounted'
  BY <1>15 DEF FinishCommand, RegisterPeers
<1>16. CASE UNCHANGED vars
  BY <1>16 DEF vars
<1>. QED
  BY <1>1, <1>2, <1>3, <1>4, <1>5, <1>6, <1>7, <1>8, <1>9, <1>10, <1>11, <1>12, <1>13,
     <1>14, <1>15, <1>16 DEF Next, PeerNext, FeedNext, ExecuteNext, CommandNext, DiskNext

\* A piece is marked when it is reserved and unmarked when its result is settled.
LEMMA DirtyExactStep ==
  ASSUME IInv, [Next]_vars
  PROVE  DirtyExact'
<1>. USE DEF IInv, TypeOK, DirtyExact
<1>1. CASE StoreBlock
  BY <1>1, SetAssumption DEF StoreBlock, PrioritizedIncomplete, IoStages, InFlight, Results,
                             Downloadable, Store
<1>2. CASE FlushPendingPieces
  BY <1>2, SetAssumption DEF FlushPendingPieces, PrioritizedIncomplete, IoStages, InFlight,
                             Results, Downloadable, FlushComplete
<1>3. CASE Restart
  BY <1>3, SetAssumption DEF Restart, PrioritizedIncomplete, IoStages, InFlight, Results, Downloadable
<1>4. ASSUME NEW i \in Pieces, PumpPiece(i)
      PROVE  DirtyExact'
  BY <1>4, SetAssumption DEF PumpPiece, ReservePiece, PrioritizedIncomplete, IoStages, InFlight,
                             Results, Downloadable, Reserve, MarkDirty
<1>5. ASSUME NEW i \in Pieces, DeferDemote(i)
      PROVE  DirtyExact'
  BY <1>5, SetAssumption DEF DeferDemote, PrioritizedIncomplete, IoStages, InFlight, Results, Downloadable
<1>6. ASSUME NEW i \in Pieces, SettleGood(i)
      PROVE  DirtyExact'
  BY <1>6, SetAssumption DEF SettleGood, PrioritizedIncomplete, IoStages, InFlight, Results,
                             Downloadable, MarkPieceAsAvailable, MarkClean
<1>7. ASSUME NEW i \in Pieces, SettleBad(i)
      PROVE  DirtyExact'
  BY <1>7, SetAssumption DEF SettleBad, PrioritizedIncomplete, IoStages, InFlight, Results,
                             Downloadable, MarkClean
<1>8. ASSUME NEW i \in Pieces, WritePiece(i)
      PROVE  DirtyExact'
  BY <1>8, SetAssumption DEF WritePiece, PrioritizedIncomplete, IoStages, InFlight, Results, Downloadable
<1>9. ASSUME NEW i \in Pieces, WriteFails(i)
      PROVE  DirtyExact'
  BY <1>9, SetAssumption DEF WriteFails, PrioritizedIncomplete, IoStages, InFlight, Results, Downloadable
<1>10. ASSUME NEW i \in Pieces, VerifyPiece(i)
      PROVE  DirtyExact'
  BY <1>10, SetAssumption DEF VerifyPiece, PrioritizedIncomplete, IoStages, InFlight, Results, Downloadable
<1>11. ASSUME NEW i \in Pieces, NEW S \in SUBSET BlocksOf(i), FeedClean(i, S)
      PROVE  DirtyExact'
  BY <1>11, SetAssumption DEF FeedClean, ReservePiece, SendRequests, PrioritizedIncomplete,
                              IoStages, InFlight, Results, Downloadable, Reserve, MarkDirty
<1>12. ASSUME NEW p \in Peers,
             OtherMessage(p) \/ ReceiveChoke(p) \/ ReceiveUnchoke(p) \/ Disconnect(p) \/
             Expire(p) \/ MaintainForgive(p) \/ MaintainSnub(p) \/ MaintainSkip(p) \/
             FeedBegin(p) \/ FeedSkip(p) \/ EndGameSkip(p)
      PROVE  DirtyExact'
  BY <1>12 DEF OtherMessage, ReceiveChoke, ReceiveUnchoke, Disconnect, Expire, MaintainForgive,
               MaintainSnub, MaintainSkip, FeedBegin, FeedSkip, EndGameSkip, UnregisterPeer,
               UnreferenceMask
<1>13. ASSUME NEW p \in Peers, NEW S \in SUBSET Pieces,
             ReceiveBitfield(p, S)
      PROVE  DirtyExact'
  BY <1>13 DEF ReceiveBitfield, ReferenceMask
<1>14. ASSUME NEW p \in Peers, NEW i \in Pieces,
             ReceiveHave(p, i)
      PROVE  DirtyExact'
  BY <1>14 DEF ReceiveHave, Reference
<1>15. ASSUME NEW p \in Peers, NEW b \in Blocks,
             ReceiveBlock(p, b)
      PROVE  DirtyExact'
  BY <1>15 DEF ReceiveBlock
<1>16. CASE BeginExecute \/ MaintainDone \/ PumpDone \/ DeferDone \/ FeedEnd \/ FeedDone \/
        EndGameDone \/ SaveState
  BY <1>16 DEF BeginExecute, MaintainDone, PumpDone, DeferDone, FeedEnd, FeedDone,
     EndGameDone, SaveState
<1>17. ASSUME NEW i \in Pieces,
             SettleFailed(i)
      PROVE  DirtyExact'
  BY <1>17 DEF SettleFailed
<1>18. ASSUME NEW i \in Pieces, NEW f \in [PendingOf(i) -> Holders(i) \cup {NoPeer}],
             DeferSend(i, f)
      PROVE  DirtyExact'
  BY <1>18 DEF DeferSend
<1>19. ASSUME NEW i \in Pieces, NEW S \in SUBSET BlocksOf(i),
             FeedDirty(i, S)
      PROVE  DirtyExact'
  BY <1>19 DEF FeedDirty
<1>20. ASSUME NEW p \in Peers, NEW S \in SUBSET Blocks,
             EndGameFill(p, S)
      PROVE  DirtyExact'
  BY <1>20 DEF EndGameFill
<1>21. ASSUME NEW joining \in SUBSET (Peers \ conn),
             FinishCommand(joining)
      PROVE  DirtyExact'
  BY <1>21 DEF FinishCommand, RegisterPeers
<1>22. CASE UNCHANGED vars
  BY <1>22 DEF vars
<1>. QED
  BY <1>1, <1>2, <1>3, <1>4, <1>5, <1>6, <1>7, <1>8, <1>9, <1>10, <1>11, <1>12, <1>13,
     <1>14, <1>15, <1>16, <1>17, <1>18, <1>19, <1>20, <1>21, <1>22 DEF Next, PeerNext,
     FeedNext, ExecuteNext, CommandNext, DiskNext

\* A piece leaves the schedule only when it is unmarked, as an available piece.
LEMMA DirtyScheduledStep ==
  ASSUME IInv, [Next]_vars
  PROVE  dirty' \subseteq scheduled'
<1>. USE DEF IInv, TypeOK, DrainedWhenDone
<1>1. CASE Restart
  BY <1>1, SetAssumption DEF Restart, Downloadable
<1>2. ASSUME NEW i \in Pieces, PumpPiece(i)
      PROVE  dirty' \subseteq scheduled'
  BY <1>2, SetAssumption DEF PumpPiece, ReservePiece, Downloadable, Reserve, MarkDirty
<1>3. ASSUME NEW i \in Pieces, SettleGood(i)
      PROVE  dirty' \subseteq scheduled'
  BY <1>3, SetAssumption DEF SettleGood, Downloadable, MarkPieceAsAvailable, MarkClean
<1>4. ASSUME NEW i \in Pieces, SettleBad(i)
      PROVE  dirty' \subseteq scheduled'
  BY <1>4, SetAssumption DEF SettleBad, Downloadable, MarkClean
<1>5. ASSUME NEW i \in Pieces, NEW S \in SUBSET BlocksOf(i), FeedClean(i, S)
      PROVE  dirty' \subseteq scheduled'
  BY <1>5, SetAssumption DEF FeedClean, ReservePiece, SendRequests, Downloadable, Reserve,
                             MarkDirty
<1>6. ASSUME NEW p \in Peers,
             OtherMessage(p) \/ ReceiveChoke(p) \/ ReceiveUnchoke(p) \/ Disconnect(p) \/
             Expire(p) \/ MaintainForgive(p) \/ MaintainSnub(p) \/ MaintainSkip(p) \/
             FeedBegin(p) \/ FeedSkip(p) \/ EndGameSkip(p)
      PROVE  dirty' \subseteq scheduled'
  BY <1>6 DEF OtherMessage, ReceiveChoke, ReceiveUnchoke, Disconnect, Expire, MaintainForgive,
              MaintainSnub, MaintainSkip, FeedBegin, FeedSkip, EndGameSkip, UnregisterPeer,
              UnreferenceMask
<1>7. ASSUME NEW p \in Peers, NEW S \in SUBSET Pieces,
             ReceiveBitfield(p, S)
      PROVE  dirty' \subseteq scheduled'
  BY <1>7 DEF ReceiveBitfield, ReferenceMask
<1>8. ASSUME NEW p \in Peers, NEW i \in Pieces,
             ReceiveHave(p, i)
      PROVE  dirty' \subseteq scheduled'
  BY <1>8 DEF ReceiveHave, Reference
<1>9. ASSUME NEW p \in Peers, NEW b \in Blocks,
             ReceiveBlock(p, b)
      PROVE  dirty' \subseteq scheduled'
  BY <1>9 DEF ReceiveBlock
<1>10. CASE StoreBlock \/ BeginExecute \/ MaintainDone \/ PumpDone \/ DeferDone \/ FeedEnd
        \/ FeedDone \/ EndGameDone \/ FlushPendingPieces \/ SaveState
  BY <1>10 DEF StoreBlock, BeginExecute, MaintainDone, PumpDone, DeferDone, FeedEnd, FeedDone,
               EndGameDone, FlushPendingPieces, SaveState, Store, FlushComplete
<1>11. ASSUME NEW i \in Pieces,
             DeferDemote(i) \/ SettleFailed(i) \/ WritePiece(i) \/ WriteFails(i) \/
             VerifyPiece(i)
      PROVE  dirty' \subseteq scheduled'
  BY <1>11 DEF DeferDemote, SettleFailed, WritePiece, WriteFails, VerifyPiece
<1>12. ASSUME NEW i \in Pieces, NEW f \in [PendingOf(i) -> Holders(i) \cup {NoPeer}],
             DeferSend(i, f)
      PROVE  dirty' \subseteq scheduled'
  BY <1>12 DEF DeferSend
<1>13. ASSUME NEW i \in Pieces, NEW S \in SUBSET BlocksOf(i),
             FeedDirty(i, S)
      PROVE  dirty' \subseteq scheduled'
  BY <1>13 DEF FeedDirty
<1>14. ASSUME NEW p \in Peers, NEW S \in SUBSET Blocks,
             EndGameFill(p, S)
      PROVE  dirty' \subseteq scheduled'
  BY <1>14 DEF EndGameFill
<1>15. ASSUME NEW joining \in SUBSET (Peers \ conn),
             FinishCommand(joining)
      PROVE  dirty' \subseteq scheduled'
  BY <1>15 DEF FinishCommand, RegisterPeers
<1>16. CASE UNCHANGED vars
  BY <1>16 DEF vars
<1>. QED
  BY <1>1, <1>2, <1>3, <1>4, <1>5, <1>6, <1>7, <1>8, <1>9, <1>10, <1>11, <1>12, <1>13,
     <1>14, <1>15, <1>16 DEF Next, PeerNext, FeedNext, ExecuteNext, CommandNext, DiskNext

\* An empty schedule leaves no dirty piece, so none in the cache, so no block.
LEMMA DrainedWhenDoneStep ==
  ASSUME IInv, [Next]_vars, TypeOK', Control', DirtyExact', BlocksConserved'
  PROVE  DrainedWhenDone'
<1>1. dirty' \subseteq scheduled' /\ scheduled' \cap available' = {}
  BY DirtyScheduledStep DEF Control
<1>2. ASSUME scheduled' = {}
      PROVE  pending' = {} /\ \A b \in Blocks : downloading'[b] = {}
  <2>1. reserved' = {}
    BY <1>1, <1>2 DEF DirtyExact
  <2>. QED
    BY <2>1 DEF BlocksConserved, TypeOK
<1>. QED
  BY <1>1, <1>2 DEF DrainedWhenDone

\* The block that completes a piece takes its prioritized slot away.
LEMMA PrioritizedIncompleteStep ==
  ASSUME IInv, [Next]_vars
  PROVE  PrioritizedIncomplete'
<1>. USE DEF IInv, TypeOK, PrioritizedIncomplete, Complete
<1>1. CASE StoreBlock
  BY <1>1, SetAssumption, BlocksFinite DEF StoreBlock, DirtyExact, Downloadable, Control, Store
<1>2. CASE FlushPendingPieces
  BY <1>2, SetAssumption, BlocksFinite DEF FlushPendingPieces, DirtyExact, Downloadable, Control,
         FlushComplete
<1>3. CASE Restart
  BY <1>3, SetAssumption, BlocksFinite DEF Restart, DirtyExact, Downloadable, Control
<1>4. ASSUME NEW i \in Pieces, PumpPiece(i)
      PROVE  PrioritizedIncomplete'
  BY <1>4, SetAssumption, BlocksFinite DEF PumpPiece, ReservePiece, DirtyExact, Downloadable,
         Control, Reserve, MarkDirty
<1>5. ASSUME NEW i \in Pieces, DeferDemote(i)
      PROVE  PrioritizedIncomplete'
  BY <1>5, SetAssumption, BlocksFinite DEF DeferDemote, DirtyExact, Downloadable, Control
<1>6. ASSUME NEW i \in Pieces, NEW S \in SUBSET BlocksOf(i), FeedClean(i, S)
      PROVE  PrioritizedIncomplete'
  BY <1>6, SetAssumption, BlocksFinite DEF FeedClean, ReservePiece, SendRequests, DirtyExact,
         Downloadable, Control, Reserve, MarkDirty
<1>7. ASSUME NEW p \in Peers,
             OtherMessage(p) \/ ReceiveChoke(p) \/ ReceiveUnchoke(p) \/ Disconnect(p) \/
             Expire(p) \/ MaintainForgive(p) \/ MaintainSnub(p) \/ MaintainSkip(p) \/
             FeedBegin(p) \/ FeedSkip(p) \/ EndGameSkip(p)
      PROVE  PrioritizedIncomplete'
  BY <1>7 DEF OtherMessage, ReceiveChoke, ReceiveUnchoke, Disconnect, Expire, MaintainForgive,
              MaintainSnub, MaintainSkip, FeedBegin, FeedSkip, EndGameSkip, UnregisterPeer,
              UnreferenceMask
<1>8. ASSUME NEW p \in Peers, NEW S \in SUBSET Pieces,
             ReceiveBitfield(p, S)
      PROVE  PrioritizedIncomplete'
  BY <1>8 DEF ReceiveBitfield, ReferenceMask
<1>9. ASSUME NEW p \in Peers, NEW i \in Pieces,
             ReceiveHave(p, i)
      PROVE  PrioritizedIncomplete'
  BY <1>9 DEF ReceiveHave, Reference
<1>10. ASSUME NEW p \in Peers, NEW b \in Blocks,
             ReceiveBlock(p, b)
      PROVE  PrioritizedIncomplete'
  BY <1>10 DEF ReceiveBlock
<1>11. CASE BeginExecute \/ MaintainDone \/ PumpDone \/ DeferDone \/ FeedEnd \/ FeedDone \/
        EndGameDone \/ SaveState
  BY <1>11 DEF BeginExecute, MaintainDone, PumpDone, DeferDone, FeedEnd, FeedDone,
     EndGameDone, SaveState
<1>12. ASSUME NEW i \in Pieces,
             SettleGood(i) \/ SettleBad(i) \/ SettleFailed(i) \/ WritePiece(i) \/
             WriteFails(i) \/ VerifyPiece(i)
      PROVE  PrioritizedIncomplete'
  BY <1>12 DEF SettleGood, SettleBad, SettleFailed, WritePiece, WriteFails, VerifyPiece,
               MarkPieceAsAvailable, MarkClean
<1>13. ASSUME NEW i \in Pieces, NEW f \in [PendingOf(i) -> Holders(i) \cup {NoPeer}],
             DeferSend(i, f)
      PROVE  PrioritizedIncomplete'
  BY <1>13 DEF DeferSend
<1>14. ASSUME NEW i \in Pieces, NEW S \in SUBSET BlocksOf(i),
             FeedDirty(i, S)
      PROVE  PrioritizedIncomplete'
  BY <1>14 DEF FeedDirty
<1>15. ASSUME NEW p \in Peers, NEW S \in SUBSET Blocks,
             EndGameFill(p, S)
      PROVE  PrioritizedIncomplete'
  BY <1>15 DEF EndGameFill
<1>16. ASSUME NEW joining \in SUBSET (Peers \ conn),
             FinishCommand(joining)
      PROVE  PrioritizedIncomplete'
  BY <1>16 DEF FinishCommand, RegisterPeers
<1>17. CASE UNCHANGED vars
  BY <1>17 DEF vars
<1>. QED
  BY <1>1, <1>2, <1>3, <1>4, <1>5, <1>6, <1>7, <1>8, <1>9, <1>10, <1>11, <1>12, <1>13,
     <1>14, <1>15, <1>16, <1>17 DEF Next, PeerNext, FeedNext, ExecuteNext, CommandNext,
     DiskNext

\* Whoever gains or loses pieces is counted, once for each piece.
LEMMA ReferencesExactStep ==
  ASSUME IInv, [Next]_vars
  PROVE  ReferencesExact'
<1>. USE DEF IInv, TypeOK
<1>1. ASSUME NEW p \in Peers, Disconnect(p)
      PROVE  ReferencesExact'
  <2>. SUFFICES ASSUME NEW i \in Pieces
                PROVE  references'[i] = Cardinality(Having(i)')
    BY DEF ReferencesExact, Having
  <2>0. references[i] = Cardinality(Having(i)) /\ IsFiniteSet(Having(i))
    BY HavingFinite DEF ReferencesExact, Having
  <2>1. CASE i \in has[p]
    <3>1. Having(i)' = Having(i) \ {p} /\ p \in Having(i)
      BY <1>1, <2>1 DEF Disconnect, Having, UnregisterPeer, UnreferenceMask
    <3>2. Cardinality(Having(i)') = Cardinality(Having(i)) - 1
      BY ONLY <2>0, <3>1, CardinalitySteps
    <3>3. references'[i] = references[i] - 1
      BY <1>1, <2>1 DEF Disconnect, UnregisterPeer, UnreferenceMask
    <3>. QED
      BY <2>0, <3>2, <3>3
  <2>2. CASE ~(i \in has[p])
    <3>1. Having(i)' = Having(i)
      BY <1>1, <2>2 DEF Disconnect, Having, UnregisterPeer, UnreferenceMask
    <3>. QED
      BY <1>1, <2>0, <2>2, <3>1 DEF Disconnect, UnregisterPeer, UnreferenceMask
  <2>. QED
    BY <2>1, <2>2
<1>2. ASSUME NEW p \in Peers, NEW S \in SUBSET Pieces, ReceiveBitfield(p, S)
      PROVE  ReferencesExact'
  <2>. SUFFICES ASSUME NEW i \in Pieces
                PROVE  references'[i] = Cardinality(Having(i)')
    BY DEF ReferencesExact, Having
  <2>0. references[i] = Cardinality(Having(i)) /\ IsFiniteSet(Having(i))
    BY HavingFinite DEF ReferencesExact, Having
  <2>1. CASE i \in S
    <3>1. Having(i)' = Having(i) \cup {p} /\ p \notin Having(i)
      BY <1>2, <2>1 DEF ReceiveBitfield, Having, Control, Heard, ReferenceMask
    <3>2. Cardinality(Having(i)') = Cardinality(Having(i)) + 1
      BY ONLY <2>0, <3>1, CardinalitySteps
    <3>3. references'[i] = references[i] + 1
      BY <1>2, <2>1 DEF ReceiveBitfield, ReferenceMask
    <3>. QED
      BY <2>0, <3>2, <3>3
  <2>2. CASE ~(i \in S)
    <3>1. Having(i)' = Having(i)
      BY <1>2, <2>2 DEF ReceiveBitfield, Having, Control, Heard, ReferenceMask
    <3>. QED
      BY <1>2, <2>0, <2>2, <3>1 DEF ReceiveBitfield, ReferenceMask
  <2>. QED
    BY <2>1, <2>2
<1>3. ASSUME NEW p \in Peers, NEW j \in Pieces, ReceiveHave(p, j)
      PROVE  ReferencesExact'
  <2>. SUFFICES ASSUME NEW i \in Pieces
                PROVE  references'[i] = Cardinality(Having(i)')
    BY DEF ReferencesExact, Having
  <2>0. references[i] = Cardinality(Having(i)) /\ IsFiniteSet(Having(i))
    BY HavingFinite DEF ReferencesExact, Having
  <2>1. CASE i = j
    <3>1. Having(i)' = Having(i) \cup {p} /\ p \notin Having(i)
      BY <1>3, <2>1 DEF ReceiveHave, Having, Heard, Reference
    <3>2. Cardinality(Having(i)') = Cardinality(Having(i)) + 1
      BY ONLY <2>0, <3>1, CardinalitySteps
    <3>3. references'[i] = references[i] + 1
      BY <1>3, <2>1 DEF ReceiveHave, Reference
    <3>. QED
      BY <2>0, <3>2, <3>3
  <2>2. CASE ~(i = j)
    <3>1. Having(i)' = Having(i)
      BY <1>3, <2>2 DEF ReceiveHave, Having, Heard, Reference
    <3>. QED
      BY <1>3, <2>0, <2>2, <3>1 DEF ReceiveHave, Reference
  <2>. QED
    BY <2>1, <2>2
<1>4. CASE Restart
  <2>. SUFFICES ASSUME NEW i \in Pieces
                PROVE  references'[i] = Cardinality(Having(i)')
    BY DEF ReferencesExact, Having
  <2>0. references[i] = Cardinality(Having(i)) /\ IsFiniteSet(Having(i))
    BY HavingFinite DEF ReferencesExact, Having
  <2>1. Having(i)' = {}
    BY <1>4 DEF Restart, Having
  <2>. QED
    BY <1>4, <2>1, FS_EmptySet DEF Restart
<1>5. ASSUME NEW joining \in SUBSET (Peers \ conn), FinishCommand(joining)
      PROVE  ReferencesExact'
  <2>. SUFFICES ASSUME NEW i \in Pieces
                PROVE  references'[i] = Cardinality(Having(i)')
    BY DEF ReferencesExact, Having
  <2>0. references[i] = Cardinality(Having(i)) /\ IsFiniteSet(Having(i))
    BY HavingFinite DEF ReferencesExact, Having
  <2>1. Having(i)' = Having(i)
    BY <1>5 DEF FinishCommand, Having, Control, RegisterPeers
  <2>. QED
    BY <1>5, <2>0, <2>1 DEF FinishCommand, RegisterPeers
<1>6. ASSUME NEW p \in Peers,
             OtherMessage(p) \/ ReceiveChoke(p) \/ ReceiveUnchoke(p) \/ Expire(p) \/
             MaintainForgive(p) \/ MaintainSnub(p) \/ MaintainSkip(p) \/ FeedBegin(p) \/
             FeedSkip(p) \/ EndGameSkip(p)
      PROVE  ReferencesExact'
  BY <1>6 DEF ReferencesExact, OtherMessage, ReceiveChoke, ReceiveUnchoke, Expire, MaintainForgive,
     MaintainSnub, MaintainSkip, FeedBegin, FeedSkip, EndGameSkip
<1>7. ASSUME NEW p \in Peers, NEW b \in Blocks,
             ReceiveBlock(p, b)
      PROVE  ReferencesExact'
  BY <1>7 DEF ReferencesExact, ReceiveBlock
<1>8. CASE StoreBlock \/ BeginExecute \/ MaintainDone \/ PumpDone \/ DeferDone \/ FeedEnd
        \/ FeedDone \/ EndGameDone \/ FlushPendingPieces \/ SaveState
  BY <1>8 DEF ReferencesExact, StoreBlock, BeginExecute, MaintainDone, PumpDone, DeferDone,
              FeedEnd, FeedDone, EndGameDone, FlushPendingPieces, SaveState, Store, FlushComplete
<1>9. ASSUME NEW i \in Pieces,
             PumpPiece(i) \/ DeferDemote(i) \/ SettleGood(i) \/ SettleBad(i) \/
             SettleFailed(i) \/ WritePiece(i) \/ WriteFails(i) \/ VerifyPiece(i)
      PROVE  ReferencesExact'
  BY <1>9 DEF ReferencesExact, PumpPiece, DeferDemote, SettleGood, SettleBad, SettleFailed,
              WritePiece, WriteFails, VerifyPiece, MarkPieceAsAvailable, MarkClean
<1>10. ASSUME NEW i \in Pieces, NEW f \in [PendingOf(i) -> Holders(i) \cup {NoPeer}],
             DeferSend(i, f)
      PROVE  ReferencesExact'
  BY <1>10 DEF ReferencesExact, DeferSend
<1>11. ASSUME NEW i \in Pieces, NEW S \in SUBSET BlocksOf(i),
             FeedClean(i, S) \/ FeedDirty(i, S)
      PROVE  ReferencesExact'
  BY <1>11 DEF ReferencesExact, FeedClean, FeedDirty
<1>12. ASSUME NEW p \in Peers, NEW S \in SUBSET Blocks,
             EndGameFill(p, S)
      PROVE  ReferencesExact'
  BY <1>12 DEF ReferencesExact, EndGameFill
<1>13. CASE UNCHANGED vars
  BY <1>13 DEF ReferencesExact, vars
<1>. QED
  BY <1>1, <1>2, <1>3, <1>4, <1>5, <1>6, <1>7, <1>8, <1>9, <1>10, <1>11, <1>12, <1>13 DEF
     Next, PeerNext, FeedNext, ExecuteNext, CommandNext, DiskNext

\* A snub cancels everything, and nothing is requested from a peer that is ignored.
LEMMA IgnoredOwesNothingStep ==
  ASSUME IInv, [Next]_vars
  PROVE  IgnoredOwesNothing'
<1>. USE DEF IInv, TypeOK, IgnoredOwesNothing
<1>1. ASSUME NEW p \in Peers, ReceiveChoke(p)
      PROVE  IgnoredOwesNothing'
  BY <1>1, SetAssumption DEF ReceiveChoke, Heard, CancelDownload, Control, Holders, Starving
<1>2. ASSUME NEW p \in Peers, ReceiveUnchoke(p)
      PROVE  IgnoredOwesNothing'
  BY <1>2, SetAssumption DEF ReceiveUnchoke, Heard, Control, Holders, Starving
<1>3. ASSUME NEW p \in Peers, Disconnect(p)
      PROVE  IgnoredOwesNothing'
  BY <1>3, SetAssumption DEF Disconnect, CancelDownload, Control, Holders, Starving,
                             UnregisterPeer, UnreferenceMask
<1>4. ASSUME NEW p \in Peers, MaintainForgive(p)
      PROVE  IgnoredOwesNothing'
  BY <1>4, SetAssumption DEF MaintainForgive, Control, Holders, Starving
<1>5. ASSUME NEW p \in Peers, MaintainSnub(p)
      PROVE  IgnoredOwesNothing'
  BY <1>5, SetAssumption DEF MaintainSnub, CancelDownload, Control, Holders, Starving
<1>6. ASSUME NEW p \in Peers, FeedBegin(p)
      PROVE  IgnoredOwesNothing'
  BY <1>6, SetAssumption DEF FeedBegin, Control, Holders, Starving
<1>7. ASSUME NEW p \in Peers, NEW b \in Blocks, ReceiveBlock(p, b)
      PROVE  IgnoredOwesNothing'
  BY <1>7, SetAssumption DEF ReceiveBlock, Heard, Control, Holders, Starving
<1>8. CASE FeedEnd
  BY <1>8, SetAssumption DEF FeedEnd, Control, Holders, Starving
<1>9. CASE Restart
  BY <1>9, SetAssumption DEF Restart, Control, Holders, Starving
<1>10. ASSUME NEW i \in Pieces, NEW f \in [PendingOf(i) -> Holders(i) \cup {NoPeer}], DeferSend(i, f)
      PROVE  IgnoredOwesNothing'
  BY <1>10, SetAssumption DEF DeferSend, Control, Holders, Starving
<1>11. ASSUME NEW i \in Pieces, NEW S \in SUBSET BlocksOf(i), FeedClean(i, S)
      PROVE  IgnoredOwesNothing'
  BY <1>11, SetAssumption DEF FeedClean, ReservePiece, SendRequests, Control, Holders, Starving,
                              Reserve, MarkDirty
<1>12. ASSUME NEW i \in Pieces, NEW S \in SUBSET BlocksOf(i), FeedDirty(i, S)
      PROVE  IgnoredOwesNothing'
  BY <1>12, SetAssumption DEF FeedDirty, SendRequests, Control, Holders, Starving
<1>13. ASSUME NEW p \in Peers, NEW S \in SUBSET Blocks, EndGameFill(p, S)
      PROVE  IgnoredOwesNothing'
  BY <1>13, SetAssumption DEF EndGameFill, SendRequests, Control, Holders, Starving
<1>14. ASSUME NEW joining \in SUBSET (Peers \ conn), FinishCommand(joining)
      PROVE  IgnoredOwesNothing'
  BY <1>14, SetAssumption DEF FinishCommand, Control, Holders, Starving, RegisterPeers
<1>15. ASSUME NEW p \in Peers,
             OtherMessage(p) \/ Expire(p) \/ MaintainSkip(p) \/ FeedSkip(p) \/ EndGameSkip(p)
      PROVE  IgnoredOwesNothing'
  BY <1>15 DEF OtherMessage, Expire, MaintainSkip, FeedSkip, EndGameSkip
<1>16. ASSUME NEW p \in Peers, NEW S \in SUBSET Pieces,
             ReceiveBitfield(p, S)
      PROVE  IgnoredOwesNothing'
  BY <1>16 DEF ReceiveBitfield, ReferenceMask
<1>17. ASSUME NEW p \in Peers, NEW i \in Pieces,
             ReceiveHave(p, i)
      PROVE  IgnoredOwesNothing'
  BY <1>17 DEF ReceiveHave, Reference
<1>18. CASE StoreBlock \/ BeginExecute \/ MaintainDone \/ PumpDone \/ DeferDone \/ FeedDone
        \/ EndGameDone \/ FlushPendingPieces \/ SaveState
  BY <1>18 DEF StoreBlock, BeginExecute, MaintainDone, PumpDone, DeferDone, FeedDone, EndGameDone,
               FlushPendingPieces, SaveState, Store, FlushComplete
<1>19. ASSUME NEW i \in Pieces,
             PumpPiece(i) \/ DeferDemote(i) \/ SettleGood(i) \/ SettleBad(i) \/
             SettleFailed(i) \/ WritePiece(i) \/ WriteFails(i) \/ VerifyPiece(i)
      PROVE  IgnoredOwesNothing'
  BY <1>19 DEF PumpPiece, DeferDemote, SettleGood, SettleBad, SettleFailed, WritePiece,
               WriteFails, VerifyPiece, MarkPieceAsAvailable, MarkClean
<1>20. CASE UNCHANGED vars
  BY <1>20 DEF vars
<1>. QED
  BY <1>1, <1>2, <1>3, <1>4, <1>5, <1>6, <1>7, <1>8, <1>9, <1>10, <1>11, <1>12, <1>13,
     <1>14, <1>15, <1>16, <1>17, <1>18, <1>19, <1>20 DEF Next, PeerNext, FeedNext,
     ExecuteNext, CommandNext, DiskNext

\* A piece that is available is neither fetched nor written again.
LEMMA AvailableOnDiskStep ==
  ASSUME IInv, [Next]_vars
  PROVE  AvailableOnDisk'
<1>. USE DEF IInv, TypeOK, AvailableOnDisk
<1>1. CASE FlushPendingPieces
  BY <1>1, SetAssumption DEF FlushPendingPieces, DirtyExact, DrainedWhenDone, IoStages, InFlight,
                             Results, FlushComplete
<1>2. CASE SaveState
  BY <1>2, SetAssumption DEF SaveState, DirtyExact, DrainedWhenDone, IoStages, InFlight, Results
<1>3. CASE Restart
  BY <1>3, SetAssumption DEF Restart, DirtyExact, DrainedWhenDone, IoStages, InFlight, Results
<1>4. ASSUME NEW i \in Pieces, SettleGood(i)
      PROVE  AvailableOnDisk'
  BY <1>4, SetAssumption DEF SettleGood, DirtyExact, DrainedWhenDone, IoStages, InFlight, Results,
                             MarkPieceAsAvailable, MarkClean
<1>5. ASSUME NEW i \in Pieces, SettleBad(i)
      PROVE  AvailableOnDisk'
  BY <1>5, SetAssumption DEF SettleBad, DirtyExact, DrainedWhenDone, IoStages, InFlight, Results,
                             MarkClean
<1>6. ASSUME NEW i \in Pieces, WritePiece(i)
      PROVE  AvailableOnDisk'
  BY <1>6, SetAssumption DEF WritePiece, DirtyExact, DrainedWhenDone, IoStages, InFlight, Results
<1>7. ASSUME NEW i \in Pieces, WriteFails(i)
      PROVE  AvailableOnDisk'
  BY <1>7, SetAssumption DEF WriteFails, DirtyExact, DrainedWhenDone, IoStages, InFlight, Results
<1>8. ASSUME NEW i \in Pieces, VerifyPiece(i)
      PROVE  AvailableOnDisk'
  BY <1>8, SetAssumption DEF VerifyPiece, DirtyExact, DrainedWhenDone, IoStages, InFlight, Results
<1>9. ASSUME NEW joining \in SUBSET (Peers \ conn), FinishCommand(joining)
      PROVE  AvailableOnDisk'
  BY <1>9, SetAssumption DEF FinishCommand, DirtyExact, DrainedWhenDone, IoStages, InFlight,
                             Results, RegisterPeers
<1>10. ASSUME NEW p \in Peers,
             OtherMessage(p) \/ ReceiveChoke(p) \/ ReceiveUnchoke(p) \/ Disconnect(p) \/
             Expire(p) \/ MaintainForgive(p) \/ MaintainSnub(p) \/ MaintainSkip(p) \/
             FeedBegin(p) \/ FeedSkip(p) \/ EndGameSkip(p)
      PROVE  AvailableOnDisk'
  BY <1>10 DEF OtherMessage, ReceiveChoke, ReceiveUnchoke, Disconnect, Expire, MaintainForgive,
               MaintainSnub, MaintainSkip, FeedBegin, FeedSkip, EndGameSkip, UnregisterPeer,
               UnreferenceMask
<1>11. ASSUME NEW p \in Peers, NEW S \in SUBSET Pieces,
             ReceiveBitfield(p, S)
      PROVE  AvailableOnDisk'
  BY <1>11 DEF ReceiveBitfield, ReferenceMask
<1>12. ASSUME NEW p \in Peers, NEW i \in Pieces,
             ReceiveHave(p, i)
      PROVE  AvailableOnDisk'
  BY <1>12 DEF ReceiveHave, Reference
<1>13. ASSUME NEW p \in Peers, NEW b \in Blocks,
             ReceiveBlock(p, b)
      PROVE  AvailableOnDisk'
  BY <1>13 DEF ReceiveBlock
<1>14. CASE StoreBlock \/ BeginExecute \/ MaintainDone \/ PumpDone \/ DeferDone \/ FeedEnd
        \/ FeedDone \/ EndGameDone
  BY <1>14 DEF StoreBlock, BeginExecute, MaintainDone, PumpDone, DeferDone, FeedEnd, FeedDone,
               EndGameDone, Store
<1>15. ASSUME NEW i \in Pieces,
             PumpPiece(i) \/ DeferDemote(i) \/ SettleFailed(i)
      PROVE  AvailableOnDisk'
  BY <1>15 DEF PumpPiece, DeferDemote, SettleFailed
<1>16. ASSUME NEW i \in Pieces, NEW f \in [PendingOf(i) -> Holders(i) \cup {NoPeer}],
             DeferSend(i, f)
      PROVE  AvailableOnDisk'
  BY <1>16 DEF DeferSend
<1>17. ASSUME NEW i \in Pieces, NEW S \in SUBSET BlocksOf(i),
             FeedClean(i, S) \/ FeedDirty(i, S)
      PROVE  AvailableOnDisk'
  BY <1>17 DEF FeedClean, FeedDirty
<1>18. ASSUME NEW p \in Peers, NEW S \in SUBSET Blocks,
             EndGameFill(p, S)
      PROVE  AvailableOnDisk'
  BY <1>18 DEF EndGameFill
<1>19. CASE UNCHANGED vars
  BY <1>19 DEF vars
<1>. QED
  BY <1>1, <1>2, <1>3, <1>4, <1>5, <1>6, <1>7, <1>8, <1>9, <1>10, <1>11, <1>12, <1>13,
     <1>14, <1>15, <1>16, <1>17, <1>18, <1>19 DEF Next, PeerNext, FeedNext, ExecuteNext,
     CommandNext, DiskNext

----------------------------------------------------------------------------
\* The initial states satisfy it.
LEMMA InitIInv == Init => IInv
<1>. SUFFICES ASSUME Init PROVE IInv
  OBVIOUS
<1>1. TypeOK
  BY TypeInit
<1>2. Control /\ RequestsAgree /\ BlocksConserved /\ BlocksCounted
  BY SetAssumption DEF Init, Control, RequestsAgree, BlocksConserved, BlocksCounted, InitPeers,
                       InitTask, InitAdvisor, InitCache, InitState
<1>3. DirtyExact /\ DrainedWhenDone /\ PrioritizedIncomplete
  BY DEF Init, DirtyExact, DrainedWhenDone, PrioritizedIncomplete, InitPeers, InitTask,
         InitAdvisor, InitCache, InitState
<1>4. ReferencesExact
  BY FS_EmptySet DEF Init, ReferencesExact, InitPeers, InitTask, InitAdvisor, InitCache, InitState
<1>5. IgnoredOwesNothing /\ AvailableOnDisk
  BY DEF Init, IgnoredOwesNothing, AvailableOnDisk, InitPeers, InitTask, InitAdvisor, InitCache,
         InitState
<1>. QED
  BY <1>1, <1>2, <1>3, <1>4, <1>5 DEF IInv

\* IInv holds in every reachable state.
THEOREM Inductive == Spec => []IInv
<1>1. IInv /\ [Next]_vars => IInv'
  <2>. SUFFICES ASSUME IInv, [Next]_vars PROVE IInv'
    OBVIOUS
  <2>1. TypeOK' /\ Control' /\ BlocksConserved' /\ DirtyExact'
    BY TypeStep, ControlStep, BlocksConservedStep, DirtyExactStep
  <2>2. RequestsAgree' /\ BlocksCounted' /\ PrioritizedIncomplete'
    BY RequestsAgreeStep, BlocksCountedStep, PrioritizedIncompleteStep
  <2>3. DrainedWhenDone'
    BY <2>1, DrainedWhenDoneStep
  <2>4. ReferencesExact' /\ IgnoredOwesNothing' /\ AvailableOnDisk'
    BY ReferencesExactStep, IgnoredOwesNothingStep, AvailableOnDiskStep
  <2>. QED
    BY <2>1, <2>2, <2>3, <2>4 DEF IInv
<1>. QED
  BY InitIInv, <1>1, PTL DEF Spec

\* The safety properties of the runs, for every instance.

\* Every variable keeps its type; the availability of a piece is never negative.
THEOREM TypeCorrect == Spec => []TypeOK
<1>1. IInv => TypeOK
  BY DEF IInv
<1>. QED
  BY <1>1, Inductive, PTL

\* requestedBlocks and involvedPeers are always two views of one relation.
THEOREM RequestsAgreeAlways == Spec => []RequestsAgree
<1>1. IInv => RequestsAgree
  BY DEF IInv
<1>. QED
  BY <1>1, Inductive, PTL

\* A block of a cached piece is always in exactly one place.
THEOREM NoBlockLost == Spec => []BlocksConserved
<1>1. IInv => BlocksConserved
  BY DEF IInv
<1>. QED
  BY <1>1, Inductive, PTL

\* A piece is only ever flushed with all its blocks.
THEOREM BlockCountRight == Spec => []BlocksCounted
<1>1. IInv => BlocksCounted
  BY DEF IInv
<1>. QED
  BY <1>1, Inductive, PTL

\* A piece is complete exactly when each of its blocks was stored once.
THEOREM BlocksAlwaysAccounted == Spec => []BlocksAccounted
<1>1. BlocksConserved /\ BlocksCounted => BlocksAccounted
  BY DEF BlocksAccounted
<1>. QED
  BY <1>1, NoBlockLost, BlockCountRight, PTL

\* No piece is ever reserved twice, or flushed while an older copy is in flight.
THEOREM NoPieceTwice == Spec => []DirtyExact
<1>1. IInv => DirtyExact
  BY DEF IInv
<1>. QED
  BY <1>1, Inductive, PTL

\* The asserts of notifyDownloadedGoodPiece and feedUploader never fail.
THEOREM NothingLeftBehind == Spec => []DrainedWhenDone
<1>1. IInv => DrainedWhenDone
  BY DEF IInv
<1>. QED
  BY <1>1, Inductive, PTL

\* A prioritized slot is never held by a complete piece.
THEOREM SlotsNotClogged == Spec => []PrioritizedIncomplete
<1>1. IInv => PrioritizedIncomplete
  BY DEF IInv
<1>. QED
  BY <1>1, Inductive, PTL

\* The availability of a piece is always the number of its holders.
THEOREM AvailabilityRight == Spec => []ReferencesExact
<1>1. IInv => ReferencesExact
  BY DEF IInv
<1>. QED
  BY <1>1, Inductive, PTL

\* An ignored peer is never asked for anything.
THEOREM SnubbedIsLeftAlone == Spec => []IgnoredOwesNothing
<1>1. IInv => IgnoredOwesNothing
  BY DEF IInv
<1>. QED
  BY <1>1, Inductive, PTL

\* Requests are right for all peers, the ignored ones included.
THEOREM RequestsAlwaysOwed == Spec => []RequestsOwed
<1>1. RequestsAgree /\ IgnoredOwesNothing => RequestsOwed
  BY DEF RequestsOwed
<1>. QED
  BY <1>1, RequestsAgreeAlways, SnubbedIsLeftAlone, PTL

\* What is or will be recorded as available is always good on disk.
THEOREM AvailableIsOnDisk == Spec => []AvailableOnDisk
<1>1. IInv => AvailableOnDisk
  BY DEF IInv
<1>. QED
  BY <1>1, Inductive, PTL

----------------------------------------------------------------------------
\* The refinement.  The queued snapshots grow from what the file says to what is
\* available now, so writing the oldest of them never takes anything back.

SnapshotsGrow ==
    \A n \in DOMAIN snapshots :
        /\ saved \subseteq snapshots[n]
        /\ \A m \in 1..n : snapshots[m] \subseteq snapshots[n]

LEMMA SnapshotsGrowStep ==
  ASSUME IInv, SnapshotsGrow, [Next]_vars
  PROVE  SnapshotsGrow'
<1>. USE DEF IInv, TypeOK, SnapshotsGrow
<1>1. CASE SaveState
  <2>1. \A n \in DOMAIN snapshots' : snapshots'[n] = snapshots[n + 1] /\ n + 1 \in DOMAIN snapshots
    BY <1>1 DEF SaveState
  <2>2. saved' = snapshots[1] /\ 1 \in DOMAIN snapshots
    BY <1>1 DEF SaveState
  <2>3. DOMAIN snapshots' = 1..(Len(snapshots) - 1) /\ DOMAIN snapshots = 1..Len(snapshots)
    BY <1>1 DEF SaveState
  <2>4. Len(snapshots) \in Nat
    OBVIOUS
  <2>5. ASSUME NEW n \in DOMAIN snapshots'
        PROVE  saved' \subseteq snapshots'[n]
    <3>1. n + 1 \in DOMAIN snapshots /\ 1 \in 1..(n + 1)
      BY <2>3, <2>4, <2>5
    <3>. QED
      BY <2>1, <2>2, <2>5, <3>1
  <2>6. ASSUME NEW n \in DOMAIN snapshots', NEW m \in 1..n
        PROVE  snapshots'[m] \subseteq snapshots'[n]
    <3>1. /\ n + 1 \in DOMAIN snapshots /\ m + 1 \in 1..(n + 1)
          /\ m \in DOMAIN snapshots'
      BY <2>3, <2>4, <2>6
    <3>. QED
      BY <2>1, <2>6, <3>1
  <2>. QED
    BY <2>5, <2>6
<1>2. CASE Restart
  BY <1>2 DEF Restart
<1>3. ASSUME NEW joining \in SUBSET (Peers \ conn), FinishCommand(joining)
      PROVE  SnapshotsGrow'
  <2>1. CASE successes
    <3>1. snapshots' = Append(snapshots, available)
      BY <1>3, <2>1 DEF FinishCommand, RegisterPeers
    <3>2. saved' = saved
      BY <1>3 DEF FinishCommand, RegisterPeers
    <3>3. \A n \in DOMAIN snapshots : snapshots[n] \subseteq available
      BY DEF AvailableOnDisk
    <3>4. saved \subseteq available
      BY DEF AvailableOnDisk
    <3>. QED
      BY <3>1, <3>2, <3>3, <3>4
  <2>2. CASE ~successes
    BY <1>3, <2>2 DEF FinishCommand, RegisterPeers
  <2>. QED
    BY <2>1, <2>2
<1>4. ASSUME NEW p \in Peers,
             OtherMessage(p) \/ ReceiveChoke(p) \/ ReceiveUnchoke(p) \/ Disconnect(p) \/
             Expire(p) \/ MaintainForgive(p) \/ MaintainSnub(p) \/ MaintainSkip(p) \/
             FeedBegin(p) \/ FeedSkip(p) \/ EndGameSkip(p)
      PROVE  SnapshotsGrow'
  BY <1>4 DEF OtherMessage, ReceiveChoke, ReceiveUnchoke, Disconnect, Expire, MaintainForgive,
              MaintainSnub, MaintainSkip, FeedBegin, FeedSkip, EndGameSkip, UnregisterPeer,
              UnreferenceMask
<1>5. ASSUME NEW p \in Peers, NEW S \in SUBSET Pieces,
             ReceiveBitfield(p, S)
      PROVE  SnapshotsGrow'
  BY <1>5 DEF ReceiveBitfield, ReferenceMask
<1>6. ASSUME NEW p \in Peers, NEW i \in Pieces,
             ReceiveHave(p, i)
      PROVE  SnapshotsGrow'
  BY <1>6 DEF ReceiveHave, Reference
<1>7. ASSUME NEW p \in Peers, NEW b \in Blocks,
             ReceiveBlock(p, b)
      PROVE  SnapshotsGrow'
  BY <1>7 DEF ReceiveBlock
<1>8. CASE StoreBlock \/ BeginExecute \/ MaintainDone \/ PumpDone \/ DeferDone \/ FeedEnd
        \/ FeedDone \/ EndGameDone \/ FlushPendingPieces
  BY <1>8 DEF StoreBlock, BeginExecute, MaintainDone, PumpDone, DeferDone, FeedEnd, FeedDone,
              EndGameDone, FlushPendingPieces, Store, FlushComplete
<1>9. ASSUME NEW i \in Pieces,
             PumpPiece(i) \/ DeferDemote(i) \/ SettleGood(i) \/ SettleBad(i) \/
             SettleFailed(i) \/ WritePiece(i) \/ WriteFails(i) \/ VerifyPiece(i)
      PROVE  SnapshotsGrow'
  BY <1>9 DEF PumpPiece, DeferDemote, SettleGood, SettleBad, SettleFailed, WritePiece, WriteFails,
              VerifyPiece, MarkPieceAsAvailable, MarkClean
<1>10. ASSUME NEW i \in Pieces, NEW f \in [PendingOf(i) -> Holders(i) \cup {NoPeer}],
             DeferSend(i, f)
      PROVE  SnapshotsGrow'
  BY <1>10 DEF DeferSend
<1>11. ASSUME NEW i \in Pieces, NEW S \in SUBSET BlocksOf(i),
             FeedClean(i, S) \/ FeedDirty(i, S)
      PROVE  SnapshotsGrow'
  BY <1>11 DEF FeedClean, FeedDirty
<1>12. ASSUME NEW p \in Peers, NEW S \in SUBSET Blocks,
             EndGameFill(p, S)
      PROVE  SnapshotsGrow'
  BY <1>12 DEF EndGameFill
<1>13. CASE UNCHANGED vars
  BY <1>13 DEF vars
<1>. QED
  BY <1>1, <1>2, <1>3, <1>4, <1>5, <1>6, <1>7, <1>8, <1>9, <1>10, <1>11, <1>12, <1>13 DEF
     Next, PeerNext, FeedNext, ExecuteNext, CommandNext, DiskNext

\* Every step of Download is a step of PieceLife or changes nothing there.
LEMMA LifeStep ==
  ASSUME IInv, SnapshotsGrow, [Next]_vars
  PROVE  [Life!LifeNext]_(Life!pieceVars)
<1>. USE DEF IInv, TypeOK, Control, Life!pieceVars
<1>1. CASE SaveState
  <2>1. 1 \in DOMAIN snapshots /\ saved' = snapshots[1]
    BY <1>1 DEF SaveState
  <2>2. saved \subseteq saved' /\ saved' \subseteq available
    BY <2>1 DEF SnapshotsGrow, AvailableOnDisk
  <2>3. Life!Record(saved')
    BY <1>1, <2>2 DEF SaveState, Life!Record
  <2>. QED
    BY <2>2, <2>3 DEF Life!LifeNext
<1>2. CASE Restart
  <2>1. Life!Reload
    BY <1>2 DEF Restart, Life!Reload
  <2>. QED
    BY <2>1 DEF Life!LifeNext
<1>3. ASSUME NEW i \in Pieces, PumpPiece(i)
      PROVE  [Life!LifeNext]_(Life!pieceVars)
  <2>1. Life!Fetch(i)
    BY <1>3 DEF PumpPiece, ReservePiece, Downloadable, Life!Fetch, Reserve, MarkDirty
  <2>. QED
    BY <2>1 DEF Life!LifeNext
<1>4. ASSUME NEW i \in Pieces, SettleGood(i)
      PROVE  [Life!LifeNext]_(Life!pieceVars)
  <2>1. i \in dirty
    BY <1>4 DEF SettleGood, DirtyExact, MarkPieceAsAvailable, MarkClean
  <2>2. Life!Complete(i)
    BY <1>4, <2>1 DEF SettleGood, Life!Complete, MarkPieceAsAvailable, MarkClean
  <2>. QED
    BY <2>2 DEF Life!LifeNext
<1>5. ASSUME NEW i \in Pieces, SettleBad(i)
      PROVE  [Life!LifeNext]_(Life!pieceVars)
  <2>1. i \in dirty
    BY <1>5 DEF SettleBad, DirtyExact, MarkClean
  <2>2. Life!Reject(i)
    BY <1>5, <2>1 DEF SettleBad, Life!Reject, MarkClean
  <2>. QED
    BY <2>2 DEF Life!LifeNext
<1>6. ASSUME NEW i \in Pieces, NEW S \in SUBSET BlocksOf(i), FeedClean(i, S)
      PROVE  [Life!LifeNext]_(Life!pieceVars)
  <2>1. Life!Fetch(i)
    BY <1>6 DEF FeedClean, ReservePiece, Life!Fetch, Reserve, MarkDirty
  <2>. QED
    BY <2>1 DEF Life!LifeNext
<1>7. ASSUME NEW p \in Peers,
             OtherMessage(p) \/ ReceiveChoke(p) \/ ReceiveUnchoke(p) \/ Disconnect(p) \/
             Expire(p) \/ MaintainForgive(p) \/ MaintainSnub(p) \/ MaintainSkip(p) \/
             FeedBegin(p) \/ FeedSkip(p) \/ EndGameSkip(p)
      PROVE  [Life!LifeNext]_(Life!pieceVars)
  BY <1>7 DEF OtherMessage, ReceiveChoke, ReceiveUnchoke, Disconnect, Expire, MaintainForgive,
              MaintainSnub, MaintainSkip, FeedBegin, FeedSkip, EndGameSkip, UnregisterPeer,
              UnreferenceMask
<1>8. ASSUME NEW p \in Peers, NEW S \in SUBSET Pieces,
             ReceiveBitfield(p, S)
      PROVE  [Life!LifeNext]_(Life!pieceVars)
  BY <1>8 DEF ReceiveBitfield, ReferenceMask
<1>9. ASSUME NEW p \in Peers, NEW i \in Pieces,
             ReceiveHave(p, i)
      PROVE  [Life!LifeNext]_(Life!pieceVars)
  BY <1>9 DEF ReceiveHave, Reference
<1>10. ASSUME NEW p \in Peers, NEW b \in Blocks,
             ReceiveBlock(p, b)
      PROVE  [Life!LifeNext]_(Life!pieceVars)
  BY <1>10 DEF ReceiveBlock
<1>11. CASE StoreBlock \/ BeginExecute \/ MaintainDone \/ PumpDone \/ DeferDone \/ FeedEnd
        \/ FeedDone \/ EndGameDone \/ FlushPendingPieces
  BY <1>11 DEF StoreBlock, BeginExecute, MaintainDone, PumpDone, DeferDone, FeedEnd, FeedDone,
               EndGameDone, FlushPendingPieces, Store, FlushComplete
<1>12. ASSUME NEW i \in Pieces,
             DeferDemote(i) \/ SettleFailed(i) \/ WritePiece(i) \/ WriteFails(i) \/
             VerifyPiece(i)
      PROVE  [Life!LifeNext]_(Life!pieceVars)
  BY <1>12 DEF DeferDemote, SettleFailed, WritePiece, WriteFails, VerifyPiece
<1>13. ASSUME NEW i \in Pieces, NEW f \in [PendingOf(i) -> Holders(i) \cup {NoPeer}],
             DeferSend(i, f)
      PROVE  [Life!LifeNext]_(Life!pieceVars)
  BY <1>13 DEF DeferSend
<1>14. ASSUME NEW i \in Pieces, NEW S \in SUBSET BlocksOf(i),
             FeedDirty(i, S)
      PROVE  [Life!LifeNext]_(Life!pieceVars)
  BY <1>14 DEF FeedDirty
<1>15. ASSUME NEW p \in Peers, NEW S \in SUBSET Blocks,
             EndGameFill(p, S)
      PROVE  [Life!LifeNext]_(Life!pieceVars)
  BY <1>15 DEF EndGameFill
<1>16. ASSUME NEW joining \in SUBSET (Peers \ conn),
             FinishCommand(joining)
      PROVE  [Life!LifeNext]_(Life!pieceVars)
  BY <1>16 DEF FinishCommand, RegisterPeers
<1>17. CASE UNCHANGED vars
  BY <1>17 DEF vars
<1>. QED
  BY <1>1, <1>2, <1>3, <1>4, <1>5, <1>6, <1>7, <1>8, <1>9, <1>10, <1>11, <1>12, <1>13,
     <1>14, <1>15, <1>16, <1>17 DEF Next, PeerNext, FeedNext, ExecuteNext, CommandNext,
     DiskNext

\* Download implements PieceLife.
THEOREM Refinement == Spec => ImplementsPieceLife
<1>1. Init => Life!LifeInit /\ SnapshotsGrow
  BY DEF Init, Life!LifeInit, SnapshotsGrow, InitPeers, InitTask, InitAdvisor, InitCache,
         InitState
<1>2. IInv /\ SnapshotsGrow /\ [Next]_vars => SnapshotsGrow'
  BY SnapshotsGrowStep
<1>3. IInv /\ SnapshotsGrow /\ [Next]_vars => [Life!LifeNext]_(Life!pieceVars)
  BY LifeStep
<1>. QED
  BY <1>1, <1>2, <1>3, Inductive, PTL DEF Spec, ImplementsPieceLife, Life!LifeSpec
=============================================================================

----------------------------- MODULE MCDownload -----------------------------
EXTENDS DownloadRefinement, TLC

CONSTANTS p1, p2, i1, i2, a1, a2, c1

MCPieceOf == (a1 :> i1) @@ (a2 :> i1) @@ (c1 :> i2)
MCTwoPieces == (a1 :> i1) @@ (c1 :> i2)
MCThreeBlocks == (a1 :> i1) @@ (a2 :> i1) @@ (c1 :> i1)

\* Bound: a peer first tells what it has, one peer all the pieces, the other one of them.
BitfieldsFirst ==
    /\ \A p \in Peers : fresh[p] \/ has[p] # {}
    /\ has[p1] \in {{}, Pieces} /\ has[p2] \subseteq {i2}

\* Whatever the other one does: the peer that has all pieces is enough to complete the
\* download, the peer that has one of them is enough for this piece to be begun, and
\* what was downloaded outlives the program (DownloadTask::execute, CommandTask::execute).
CompletesAndSaves == Completes(p1) /\ BegunWhenServed(p2, i2) /\ EventuallySaved

Symmetry == Permutations(Peers) \cup Permutations({a1, a2})
=============================================================================

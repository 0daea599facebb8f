----------------------------- MODULE PieceLife -----------------------------
(***************************************************************************)
(* What the download side of hypergrace promises about the pieces of one   *)
(* torrent, with nothing of how it is done: no peers, no blocks, no disk.  *)
(* A piece is missing, being fetched, or available.  Only a piece that was *)
(* being fetched can become available, or be thrown back when its checksum *)
(* is wrong.  The state file trails behind: it names pieces that are       *)
(* available, and a restart brings the torrent back to what the file says, *)
(* losing what was being fetched and what had not reached the file yet.    *)
(*                                                                         *)
(* Module Download implements this specification (see DownloadRefinement). *)
(***************************************************************************)
CONSTANTS Pieces, Wanted

VARIABLES fetching,     \* pieces whose blocks are requested, cached or on their way to disk
          available,    \* pieces that were written and verified
          recorded      \* pieces the state file on disk says are available

pieceVars == <<fetching, available, recorded>>

LifeInit ==
    /\ fetching = {}
    /\ available = {}
    /\ recorded = {}

\* A wanted piece that is neither available nor in progress is taken up.
Fetch(i) ==
    /\ i \in Wanted \ (available \cup fetching)
    /\ fetching' = fetching \cup {i}
    /\ UNCHANGED <<available, recorded>>

\* The piece on disk has the right checksum.
Complete(i) ==
    /\ i \in fetching
    /\ fetching' = fetching \ {i}
    /\ available' = available \cup {i}
    /\ UNCHANGED recorded

\* The piece on disk has a wrong checksum: it is fetched anew some day.
Reject(i) ==
    /\ i \in fetching
    /\ fetching' = fetching \ {i}
    /\ UNCHANGED <<available, recorded>>

\* The state file reaches the disk; it never forgets a piece.
Record(S) ==
    /\ recorded \subseteq S
    /\ S \subseteq available
    /\ recorded' = S
    /\ UNCHANGED <<fetching, available>>

\* The program dies and is started again.
Reload ==
    /\ fetching' = {}
    /\ available' = recorded
    /\ UNCHANGED recorded

LifeNext ==
    \/ \E i \in Pieces : Fetch(i) \/ Complete(i) \/ Reject(i)
    \/ \E S \in SUBSET Pieces : Record(S)
    \/ Reload

LifeSpec == LifeInit /\ [][LifeNext]_pieceVars
=============================================================================

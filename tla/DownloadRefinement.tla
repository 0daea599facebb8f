------------------------- MODULE DownloadRefinement -------------------------
(***************************************************************************)
(* Download implements PieceLife: a piece is being fetched while the       *)
(* advisor holds it dirty, and the file says what was saved last.          *)
(***************************************************************************)
EXTENDS Download

Life == INSTANCE PieceLife WITH fetching <- dirty, recorded <- saved

\* Whatever peers, disk and crashes do, a piece is fetched only while it is
\* missing, becomes available only after it was fetched, and the state file
\* names available pieces only and never forgets one.
ImplementsPieceLife == Life!LifeSpec
=============================================================================

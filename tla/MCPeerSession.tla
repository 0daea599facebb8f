--------------------------- MODULE MCPeerSession ---------------------------
(***************************************************************************)
(* PeerSession for TLC.  Peers and pieces are interchangeable: no          *)
(* definition and no property tells one from another.                      *)
(***************************************************************************)
EXTENDS PeerSession, PeerWire, TLC

\* The bytes of a peer are understood (PeerWire); they do not depend on the state.
MessagesUnderstood == conn = {} => WireUnderstood

MCProtocol == <<2, 6>>
SessionSymmetry == Permutations(Peers) \cup Permutations(Pieces)
=============================================================================

----------------------------- MODULE MCNetwork -----------------------------
(***************************************************************************)
(* Network for TLC: one tracker and one address, which is our own (trackers *)
(* tell it too), so that one of the two incoming connections is our own.   *)
(***************************************************************************)
EXTENDS Network, TLC

CONSTANTS t1, i1, i2

MCAddresses == {1}
MCIdOf == (1 :> "ours") @@ (i1 :> "ours") @@ (i2 :> "two")
=============================================================================

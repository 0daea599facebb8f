------------------------------ MODULE MCUpload ------------------------------
(***************************************************************************)
(* UploadStream for TLC: uploads are switched off, or limited to as many   *)
(* parts in a second as one piece message has.                             *)
(***************************************************************************)
EXTENDS UploadStream, TLC

CONSTANTS b1, b2

MCLimits == {0, 2}

UploadSymmetry == Permutations({b1, b2})
=============================================================================

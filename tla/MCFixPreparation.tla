--------------------------- MODULE MCFixPreparation ---------------------------
(* Small instances of FixPreparation for TLC: a run under YOLO, reproduced in
   its second attempt, and one that is only prepared by hand. *)
EXTENDS FixPreparation, TLC

CONSTANTS r1, r2

SecondAndFirst == (r1 :> 2) @@ (r2 :> 1)
=============================================================================

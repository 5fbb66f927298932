--------------------------- MODULE MCPublication ---------------------------
(* Small instances of Publication for TLC: a YOLO plan and a second plan,
   prepared for the same run. *)
EXTENDS Publication, TLC

CONSTANTS p1, p2, r1, c1, c2

SameRun == (p1 :> r1) @@ (p2 :> r1)

(* Every run was reproduced on the first commit of the base branch. *)
FirstCommit == [r \in RunIds |-> 0]
=============================================================================

---------------------------- MODULE MCJobStream ----------------------------
(* Small instances of JobStream for TLC. *)
EXTENDS JobStream, TLC

CONSTANTS j1, j2, r1, r2

(* A client for each of two jobs, who are woken by each other's events; the
   second one starts late. *)
OwnJob == (r1 :> j1) @@ (r2 :> j2)
OneLate == (r1 :> 0) @@ (r2 :> 2)
=============================================================================

---------------------------- MODULE MCJiraIntake ----------------------------
(* A small instance of JiraIntake for TLC: an issue of a publishable project,
   delivered up to twice, and one of no configured project, delivered once. *)
EXTENDS JiraIntake, TLC

CONSTANTS i1, i2

TwiceOnce == (i1 :> 2) @@ (i2 :> 1)
=============================================================================

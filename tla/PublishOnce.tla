---------------------------- MODULE PublishOnce ----------------------------
(***************************************************************************)
(* What draft-PR publication promises: at most one pull request is ever    *)
(* opened for a run, whatever is retried, raced or restarted, and a        *)
(* publication is announced (recorded, linked from Jira) only for a plan   *)
(* whose pull request is open.  Announcements are never taken back.        *)
(***************************************************************************)
EXTENDS Sequences

CONSTANTS Plans, RunOf

VARIABLES
  pulls,      \* the plans of the pull requests opened so far
  announced   \* the plans announced as published

Opened == { pulls[i] : i \in DOMAIN pulls }

Init == pulls = <<>> /\ announced = {}

Open(p) ==
  /\ \A q \in Opened : RunOf[q] # RunOf[p]
  /\ pulls' = Append(pulls, p)
  /\ UNCHANGED announced

Announce(p) ==
  /\ p \in Opened
  /\ announced' = announced \cup {p}
  /\ UNCHANGED pulls

Next == \E p \in Plans : Open(p) \/ Announce(p)

Spec == Init /\ [][Next]_<<pulls, announced>>
=============================================================================

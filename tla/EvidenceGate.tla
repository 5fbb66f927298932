---------------------------- MODULE EvidenceGate ----------------------------
(***************************************************************************)
(* What an investigation promises its reader, without the orchestrator or  *)
(* the rubric: it collects isolated runs that agree with each other, may   *)
(* throw them away at any time, and concludes once.  It may conclude       *)
(* REPRODUCED only while it holds three agreeing runs of one test: the     *)
(* candidate run and two clean replays.                                    *)
(***************************************************************************)
EXTENDS Integers

CONSTANTS Negative  \* conclusions that need no evidence, raising included

VARIABLES
  agreed,   \* agreeing clean runs currently held
  outcome   \* "open", then the conclusion

Required == 3

Init == agreed = 0 /\ outcome = "open"

Agree   == outcome = "open" /\ agreed < Required /\ agreed' = agreed + 1 /\ UNCHANGED outcome
Discard == outcome = "open" /\ agreed' = 0 /\ UNCHANGED outcome

Conclude(o) ==
  /\ outcome = "open"
  /\ o = "REPRODUCED" => agreed = Required
  /\ outcome' = o
  /\ UNCHANGED agreed

Next == Agree \/ Discard \/ \E o \in Negative \cup {"REPRODUCED"} : Conclude(o)

Spec == Init /\ [][Next]_<<agreed, outcome>>
=============================================================================

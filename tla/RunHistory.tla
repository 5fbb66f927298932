----------------------------- MODULE RunHistory -----------------------------
(***************************************************************************)
(* What the run store promises of a bundle: it becomes visible as a whole, *)
(* stays as it is until it is deleted, and never comes back.               *)
(***************************************************************************)
CONSTANT Runs

VARIABLE state  \* "absent", "present" or "removed" for each run

Init == state = [r \in Runs |-> "absent"]

Publish(r) == state[r] = "absent" /\ state' = [state EXCEPT ![r] = "present"]

Remove(r) == state[r] = "present" /\ state' = [state EXCEPT ![r] = "removed"]

Next == \E r \in Runs : Publish(r) \/ Remove(r)

Spec == Init /\ [][Next]_state
=============================================================================

--------------------------- MODULE TicketWorkflow ---------------------------
(***************************************************************************)
(* What Jira intake promises of a ticket: within one life of the process   *)
(* it is accepted once, with a consent that is fixed then; its issue gets  *)
(* one evidence comment when the investigation ends, unless that failed;   *)
(* and only then does a reproduced ticket with consent go on to a fix or   *)
(* tell its issue that it stops.  A comment may get lost on its way.       *)
(***************************************************************************)
EXTENDS Sequences

CONSTANT Issues

VARIABLES
  phase,     \* how far each ticket has come
  consent,   \* the consent each ticket was accepted with
  comments   \* the comments on each issue

Init ==
  /\ phase = [i \in Issues |-> "new"]
  /\ consent = [i \in Issues |-> FALSE]
  /\ comments = [i \in Issues |-> <<>>]

Move(i, from, to) == phase[i] = from /\ phase' = [phase EXCEPT ![i] = to]

Post(i, what) == comments' \in {comments, [comments EXCEPT ![i] = Append(@, what)]}

Accept(i) ==
  /\ Move(i, "new", "accepted")
  /\ \E c \in BOOLEAN : consent' = [consent EXCEPT ![i] = c]
  /\ UNCHANGED comments

Fail(i) == Move(i, "accepted", "failed") /\ UNCHANGED <<consent, comments>>

Report(i) ==
  /\ \E verdict \in {"reproduced", "unreproduced"} : Move(i, "accepted", verdict)
  /\ Post(i, "evidence")
  /\ UNCHANGED consent

HandOver(i) ==
  /\ consent[i]
  /\ Move(i, "reproduced", "handed")
  /\ UNCHANGED <<consent, comments>>

TellStopped(i) ==
  /\ consent[i]
  /\ Move(i, "reproduced", "stopped")
  /\ Post(i, "stopped")
  /\ UNCHANGED consent

Close(i) ==
  /\ Move(i, "unreproduced", "closed") \/ (~consent[i] /\ Move(i, "reproduced", "closed"))
  /\ UNCHANGED <<consent, comments>>

(* The process ends, and what it held in memory with it. *)
Forget ==
  /\ phase' = [i \in Issues |-> "new"]
  /\ consent' = [i \in Issues |-> FALSE]
  /\ UNCHANGED comments

Next ==
  \/ \E i \in Issues : Accept(i) \/ Fail(i) \/ Report(i) \/ HandOver(i) \/ TellStopped(i) \/ Close(i)
  \/ Forget

Spec == Init /\ [][Next]_<<phase, consent, comments>>
=============================================================================

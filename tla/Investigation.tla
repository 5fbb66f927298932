--------------------------- MODULE Investigation ---------------------------
(***************************************************************************)
(* One call of InvestigationOrchestrator.investigate                       *)
(* (bugagent/agent/orchestrator.py): validate the ticket, then ask the     *)
(* model for a candidate test, run it in the sandbox, replay a clean       *)
(* failure twice, score the evidence, and either return a bundle or feed   *)
(* the score back into the next attempt.                                   *)
(*                                                                         *)
(* The model client and the sandbox are the environment: which candidate   *)
(* is proposed and how each isolated run ends is nondeterministic.  The    *)
(* feedback text only steers the model, so it is left out.                 *)
(***************************************************************************)
EXTENDS Scoring

CONSTANTS
  Candidates,   \* candidate tests the model may propose
  Runs,         \* ways one isolated sandbox run may end
  MaxAttempts   \* the attempt budget

ASSUME InvestigationAssumption ==
  /\ Candidates \subseteq Candidate
  /\ Runs \subseteq SandboxRun
  /\ None \notin Evidence \cup Verdict
  /\ MaxAttempts \in Nat \ {0}

VARIABLES
  pc,                 \* where investigate() is
  attempt,            \* the loop variable
  candidates,         \* validated candidates so far
  evidence,           \* every evidence record so far
  candidateEvidence,  \* this attempt's candidate run, None before it
  replays,            \* this attempt's replay runs
  lastVerdict,        \* verdict of the last assessed attempt, None before
  verdict,            \* the returned bundle's verdict, None until then
  timeline            \* kinds of the recorded run events

vars == <<pc, attempt, candidates, evidence, candidateEvidence, replays,
          lastVerdict, verdict, timeline>>

InLoop == {"propose", "candidate", "replay_1", "replay_2", "assess"}

Init ==
  /\ pc = "validate"
  /\ attempt = 0
  /\ candidates = <<>>
  /\ evidence = <<>>
  /\ candidateEvidence = None
  /\ replays = <<>>
  /\ lastVerdict = None
  /\ verdict = None
  /\ timeline = <<>>

Log(kinds) == timeline' = timeline \o kinds

(* A complete ticket opens the loop. *)
AcceptTicket ==
  /\ pc = "validate"
  /\ pc' = "propose"
  /\ attempt' = 1
  /\ Log(<<"INPUT_VALIDATED">>)
  /\ UNCHANGED <<candidates, evidence, candidateEvidence, replays, lastVerdict, verdict>>

(* A ticket without title, body or repository returns before any work. *)
NeedInfo ==
  /\ pc = "validate"
  /\ pc' = "returned"
  /\ verdict' = [status |-> "NEED_INFO", score |-> 0]
  /\ Log(<<"INPUT_VALIDATED", "VERDICT_EMITTED">>)
  /\ UNCHANGED <<attempt, candidates, evidence, candidateEvidence, replays, lastVerdict>>

(* The model proposes a candidate and the safety validator accepts it. *)
Propose(c) ==
  /\ pc = "propose"
  /\ pc' = "candidate"
  /\ candidates' = Append(candidates, c)
  /\ UNCHANGED <<attempt, evidence, candidateEvidence, replays, lastVerdict, verdict, timeline>>

Refuse ==
  /\ pc' = "returned"
  /\ verdict' = [status |-> "INCONCLUSIVE", score |-> 0]
  /\ Log(<<"CANDIDATE_EVALUATED", "VERDICT_EMITTED">>)
  /\ UNCHANGED <<attempt, evidence, candidateEvidence, replays, lastVerdict>>

(* Mutation: the refused candidate is recorded as well. *)
RejectCandidate_Recorded ==
  pc = "propose" /\ Refuse /\ candidates' = Append(candidates, CHOOSE c \in Candidates : TRUE)

(* CandidateValidationError: the whole investigation returns a refusal. *)
RejectCandidate == pc = "propose" /\ Refuse /\ UNCHANGED candidates

CurrentCandidate == candidates[Len(candidates)]

RunCandidate(run) ==
  LET e == EvidenceFromRun(run, attempt, "CANDIDATE", CurrentCandidate) IN
  /\ pc = "candidate"
  /\ pc' = IF Replayable(e) THEN "replay_1" ELSE "assess"
  /\ evidence' = Append(evidence, e)
  /\ candidateEvidence' = e
  /\ UNCHANGED <<attempt, candidates, replays, lastVerdict, verdict, timeline>>

(* Replays enter the evidence list together, once the second one is done. *)
RunFirstReplay(run) ==
  /\ pc = "replay_1"
  /\ pc' = "replay_2"
  /\ replays' = <<EvidenceFromRun(run, attempt, "REPLAY", CurrentCandidate)>>
  /\ UNCHANGED <<attempt, candidates, evidence, candidateEvidence, lastVerdict, verdict, timeline>>

RunSecondReplay(run) ==
  LET both == Append(replays, EvidenceFromRun(run, attempt + 1, "REPLAY", CurrentCandidate)) IN
  /\ pc = "replay_2"
  /\ pc' = "assess"
  /\ replays' = both
  /\ evidence' = evidence \o both
  /\ Log(<<"REPLAY_EVALUATED">>)
  /\ UNCHANGED <<attempt, candidates, candidateEvidence, lastVerdict, verdict>>

Assessment == AssessEvidence(candidateEvidence, replays)

ReturnAssessment ==
  /\ pc' = "returned"
  /\ lastVerdict' = Assessment
  /\ verdict' = Assessment
  /\ Log(<<"CANDIDATE_EVALUATED", "VERDICT_EMITTED">>)
  /\ UNCHANGED <<attempt, candidates, evidence, candidateEvidence, replays>>

NextAttempt ==
  /\ pc' = "propose"
  /\ attempt' = attempt + 1
  /\ candidateEvidence' = None
  /\ replays' = <<>>
  /\ lastVerdict' = Assessment
  /\ Log(<<"CANDIDATE_EVALUATED">>)
  /\ UNCHANGED <<candidates, evidence, verdict>>

NotReproduced == pc = "assess" /\ Assessment.status # "REPRODUCED"

(* A verified reproduction is returned at once. *)
ReturnReproduced == pc = "assess" /\ Assessment.status = "REPRODUCED" /\ ReturnAssessment

(* Anything else is fed back into the next attempt ... *)
Retry == NotReproduced /\ attempt < MaxAttempts /\ NextAttempt

(* ... until the budget is exhausted and the last verdict is returned. *)
ReturnExhausted == NotReproduced /\ attempt = MaxAttempts /\ ReturnAssessment

(* The model client or the sandbox raises anything else: no bundle. *)
Raise ==
  /\ pc \in {"propose", "candidate", "replay_1", "replay_2"}
  /\ pc' = "raised"
  /\ UNCHANGED <<attempt, candidates, evidence, candidateEvidence, replays,
                 lastVerdict, verdict, timeline>>

Next ==
  \/ AcceptTicket
  \/ NeedInfo
  \/ \E c \in Candidates : Propose(c)
  \/ RejectCandidate
  \/ \E run \in Runs : RunCandidate(run)
  \/ \E run \in Runs : RunFirstReplay(run)
  \/ \E run \in Runs : RunSecondReplay(run)
  \/ ReturnReproduced
  \/ Retry
  \/ ReturnExhausted
  \/ Raise

(* Model calls and sandbox runs have timeouts, so every step ends. *)
Spec == Init /\ [][Next]_vars /\ WF_vars(Next)

-----------------------------------------------------------------------------
EventKind == {"INPUT_VALIDATED", "CANDIDATE_EVALUATED", "REPLAY_EVALUATED", "VERDICT_EMITTED"}

(* Every variable has its type; the score of a verdict stays within the
   100-point rubric of bugagent/scoring.py. *)
TypeOK ==
  /\ pc \in InLoop \cup {"validate", "returned", "raised"}
  /\ attempt \in 0..MaxAttempts
  /\ candidates \in Seq(Candidate)
  /\ evidence \in Seq(Evidence)
  /\ candidateEvidence \in Evidence \cup {None}
  /\ replays \in Seq(Evidence)
  /\ lastVerdict \in Verdict \cup {None}
  /\ verdict \in Verdict \cup {None}
  /\ timeline \in Seq(EventKind)

(* A candidate run that can carry a proof: a clean failure whose cause is
   repository code or a verified wrong output of a claimed public API. *)
Qualifies(c) ==
  /\ c.setupValid /\ c.testFailed /\ ~c.timedOut
  /\ c.claimed => c.probeVerified
  /\ IF c.probeVerified THEN c.api ELSE c.origin = "repository"

(* A replay that confirms it: the same clean failure for the same reason. *)
Confirms(c, r) ==
  /\ r.setupValid /\ r.testFailed /\ ~r.timedOut
  /\ IF c.probeVerified THEN r.probeVerified /\ r.mismatch = c.mismatch
                        ELSE r.origin = "repository" /\ r.signature = c.signature

(* The evidence list holds a proof at position i. *)
ProofAt(i) ==
  /\ i + 2 \in DOMAIN evidence
  /\ evidence[i].phase = "CANDIDATE" /\ Qualifies(evidence[i])
  /\ \A k \in {i + 1, i + 2} : evidence[k].phase = "REPLAY" /\ Confirms(evidence[i], evidence[k])

(* A returned bundle says REPRODUCED exactly when its own evidence holds a
   candidate run confirmed by two replays, and then the proof is the last
   thing it ran: the scorer neither announces a reproduction without a
   proof nor loses one to a later attempt (assess_evidence, investigate). *)
ReproducedIffProven ==
  pc = "returned" =>
    /\ verdict.status = "REPRODUCED" <=> \E i \in DOMAIN evidence : ProofAt(i)
    /\ \A i \in DOMAIN evidence : ProofAt(i) => i + 2 = Len(evidence)

Phase(p) == { i \in DOMAIN evidence : evidence[i].phase = p }

(* A returned bundle is consistent: every validated candidate, and no
   rejected one, was executed exactly once; replays come in pairs, each pair
   after a clean failure; and the timeline reports one assessment for each
   candidate, plus one for a refusal, and one event per replay pair; and
   there are no more candidates than the budget allows. *)
BundleConsistent ==
  pc = "returned" =>
    LET events(k) == { i \in DOMAIN timeline : timeline[i] = k }
        refused   == IF verdict.status = "INCONCLUSIVE" /\ Len(candidates) < attempt THEN 1 ELSE 0
    IN /\ Cardinality(Phase("CANDIDATE")) = Len(candidates)
       /\ Cardinality(Phase("REPLAY")) = 2 * Cardinality(events("REPLAY_EVALUATED"))
       /\ \A i \in Phase("CANDIDATE") :
            Replayable(evidence[i]) <=> i + 2 \in Phase("REPLAY") /\ i + 1 \in Phase("REPLAY")
       /\ Cardinality(events("CANDIDATE_EVALUATED")) = Len(candidates) + refused
       /\ Len(candidates) <= MaxAttempts

-----------------------------------------------------------------------------
(* The refinement of EvidenceGate: the runs held are those of the attempt
   in progress, as far as they agree. *)
AgreedRuns ==
  IF candidateEvidence = None THEN 0
  ELSE IF ~Qualifies(candidateEvidence) THEN 0
  ELSE 1 + Cardinality({ i \in DOMAIN replays : Confirms(candidateEvidence, replays[i]) })

Outcome ==
  CASE pc = "returned" -> verdict.status
    [] pc = "raised"   -> "raised"
    [] OTHER           -> "open"

Gate == INSTANCE EvidenceGate WITH
          agreed   <- AgreedRuns,
          outcome  <- Outcome,
          Negative <- {"NEED_INFO", "NOT_REPRODUCED", "INCONCLUSIVE", "raised"}

(* The orchestrator and the rubric implement the evidence gate. *)
ImplementsGate == Gate!Spec
=============================================================================

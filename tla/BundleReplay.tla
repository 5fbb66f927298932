---------------------------- MODULE BundleReplay ----------------------------
(***************************************************************************)
(* The independent audit of a returned bundle: replay_bundle               *)
(* (bugagent/replay.py) re-runs a recorded candidate twice and compares    *)
(* the signatures with the recorded one.  The bundle is the one the        *)
(* investigation of module Investigation returned; its hashes are intact   *)
(* and the supplied checkout is the pinned one.                            *)
(***************************************************************************)
EXTENDS Investigation

VARIABLE report   \* None, then [runs, passed]

replayVars == <<vars, report>>

ReplayInit == Init /\ report = None

(* The candidate and the expected signature are both the first recorded. *)
ReplayedCandidate == candidates[1]

CandidateSignature ==
  IF Phase("CANDIDATE") = {} THEN None
  ELSE evidence[CHOOSE i \in Phase("CANDIDATE") : \A j \in Phase("CANDIDATE") : i <= j].signature

CleanFailure(run) == SetupValid(run) /\ TestFailed(run) /\ ~TimedOut(run)

(* Mutation: the replays only have to agree with each other. *)
ReplayPasses_Unrecorded(first, second) ==
  CleanFailure(first) /\ CleanFailure(second) /\ first.signature = second.signature

ReplayPasses(first, second) ==
  /\ CleanFailure(first) /\ CleanFailure(second)
  /\ first.signature = second.signature
  /\ CandidateSignature # None =>
       first.signature = CandidateSignature /\ second.signature = CandidateSignature

ReplayBundle(first, second) ==
  /\ pc = "returned" /\ report = None
  /\ candidates # <<>>           \* BundleIntegrityError otherwise
  /\ report' = [runs |-> <<first, second>>, passed |-> ReplayPasses(first, second)]
  /\ UNCHANGED vars

ReplayNext ==
  \/ Next /\ UNCHANGED report
  \/ \E first, second \in Runs : ReplayBundle(first, second)

(* The investigation is as fair as in its own module; an audit may not come. *)
ReplaySpec == ReplayInit /\ [][ReplayNext]_replayVars /\ WF_replayVars(Next /\ UNCHANGED report)

-----------------------------------------------------------------------------
(* Re-running a candidate behaves as it did during the investigation. *)
BehavesAsRecorded(run) ==
  EvidenceFromRun(run, evidence[1].attempt, "CANDIDATE", ReplayedCandidate) = evidence[1]

Audited == report # None /\ verdict.status = "REPRODUCED"

(* A reproduction that took one attempt is replayable: a product that still
   behaves as recorded passes the audit, and passing means two more runs
   with the recorded failure of the very test that was proven. *)
FirstAttemptReplayable ==
  Audited /\ Len(candidates) = 1 =>
    /\ (\A k \in 1..2 : BehavesAsRecorded(report.runs[k])) => report.passed
    /\ report.passed => \A k \in 1..2 : /\ TestFailed(report.runs[k])
                                        /\ evidence[1].signature # None =>
                                             report.runs[k].signature = evidence[1].signature
=============================================================================

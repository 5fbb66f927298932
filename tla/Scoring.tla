------------------------------ MODULE Scoring ------------------------------
(***************************************************************************)
(* The deterministic evidence scorer (bugagent/scoring.py) and the facts   *)
(* it reads: one sandbox run (sandbox/docker.py), and the evidence record  *)
(* the orchestrator derives from it (agent/orchestrator.py).               *)
(*                                                                         *)
(* Text is abstracted to what the scorer tells apart.  A normalised        *)
(* failure signature is a text together with the two facts derived from    *)
(* it: whether it contains the expected symptom, and whether its frame is  *)
(* a repository file.  A structured observation of a silent-output probe   *)
(* is the wrong value it reported; a missing observation and a value equal *)
(* to the oracle's are both None, because the code treats them alike.      *)
(***************************************************************************)
EXTENDS Integers, FiniteSets, Sequences

CONSTANTS
  Texts,       \* texts of normalised failure signatures
  Mismatches,  \* wrong product values a probe can observe
  None         \* Python's None

Signature == [text : Texts, symptom : BOOLEAN, repository : BOOLEAN]

ASSUME NoneAssumption == None \notin Signature \cup Mismatches

(* A candidate test: does it claim a public API, and does its silent-output
   claim (if any) survive grounding and probe verification? *)
Candidate == [api : BOOLEAN, claim : {"none", "rejected", "grounded"}]

(* One isolated run: preflight collection, then execution if it succeeded.
   "failed" is pytest's exit code 1, "error" any other non-zero code. *)
SandboxRun ==
  { r \in [ preflight : {"ok", "failed", "timeout"},
            execution : {"none", "passed", "failed", "error", "timeout"},
            signature : Signature \cup {None},
            mismatch  : Mismatches \cup {None} ] :
      /\ (r.execution = "none") <=> (r.preflight # "ok")
      /\ (r.execution = "none") => (r.signature = None)
      /\ (r.execution # "failed") => (r.mismatch = None) }

SetupValid(run) == run.preflight = "ok"
TestFailed(run) == run.execution = "failed"
TimedOut(run)   == run.preflight = "timeout" \/ run.execution = "timeout"

(* The silent-output evidence of a run is verified only when the claim is
   grounded, the probe failed and it reported a value other than the oracle's. *)
ProbeVerified(run, candidate) ==
  /\ candidate.claim = "grounded"
  /\ TestFailed(run)
  /\ run.mismatch # None

RepositoryFrame(run) == run.signature # None /\ run.signature.repository
SymptomMatches(run)  == run.signature # None /\ run.signature.symptom

FailureOrigin(run) ==
  IF RepositoryFrame(run) THEN "repository"
  ELSE IF TestFailed(run) THEN "generated_test" ELSE "unknown"

EvidenceFromRun(run, attempt, phase, candidate) ==
  [ attempt       |-> attempt,
    phase         |-> phase,
    timedOut      |-> TimedOut(run),
    setupValid    |-> SetupValid(run),
    testFailed    |-> TestFailed(run),
    signature     |-> run.signature,
    symptom       |-> SymptomMatches(run),
    frame         |-> RepositoryFrame(run),
    api           |-> candidate.api,
    origin        |-> FailureOrigin(run),
    claimed       |-> candidate.claim # "none",
    probeVerified |-> ProbeVerified(run, candidate),
    mismatch      |-> IF candidate.claim = "grounded" THEN run.mismatch ELSE None ]

Evidence ==
  [ attempt       : Nat,
    phase         : {"CANDIDATE", "REPLAY"},
    timedOut      : BOOLEAN,
    setupValid    : BOOLEAN,
    testFailed    : BOOLEAN,
    signature     : Signature \cup {None},
    symptom       : BOOLEAN,
    frame         : BOOLEAN,
    api           : BOOLEAN,
    origin        : {"repository", "generated_test", "unknown"},
    claimed       : BOOLEAN,
    probeVerified : BOOLEAN,
    mismatch      : Mismatches \cup {None} ]

-----------------------------------------------------------------------------
(* The orchestrator replays a candidate only after a clean failure. *)
Replayable(e) == e.testFailed /\ e.setupValid /\ ~e.timedOut

(* Mutation: any clean failure counts as a matching replay. *)
CleanMatch_AnyFailure(c, r) == r.setupValid /\ r.testFailed /\ ~r.timedOut

(* One replay agrees with its candidate: on the grounded value mismatch for a
   verified silent output, on the repository-owned signature otherwise. *)
CleanMatch(c, r) ==
  /\ r.setupValid /\ r.testFailed /\ ~r.timedOut
  /\ IF c.probeVerified
       THEN r.probeVerified /\ r.mismatch = c.mismatch
       ELSE r.origin # "generated_test" /\ r.signature = c.signature

(* Mutation: the candidate run counts as its own first replay. *)
MatchingCleanReplays_SelfMatch(c, replays) ==
  1 + Cardinality({ i \in DOMAIN replays : CleanMatch(c, replays[i]) })

MatchingCleanReplays(c, replays) ==
  Cardinality({ i \in DOMAIN replays : CleanMatch(c, replays[i]) })

Disqualified(c, replays) ==
  \/ c.timedOut
  \/ ~c.setupValid
  \/ ~c.testFailed
  \/ c.origin = "generated_test" /\ ~c.probeVerified
  \/ c.claimed /\ ~c.probeVerified
  \/ c.probeVerified /\ ~c.api
  \/ Len(replays) >= 2 /\ MatchingCleanReplays(c, replays) < 2

(* Mutation: every weight of the rubric is doubled. *)
Points_Doubled(signal, n) == IF signal THEN 2 * n ELSE 0

Points(signal, n) == IF signal THEN n ELSE 0

(* The 100-point rubric before the replay bonus; test_collected is
   setup_valid in SandboxRun. *)
BaseScore(c) ==
  IF c.probeVerified
    THEN Points(c.setupValid, 20) + Points(c.testFailed, 10) + Points(c.api, 15) + 25 + 20
    ELSE Points(c.setupValid, 20) + Points(c.testFailed, 20) + Points(c.symptom, 25)
         + Points(c.frame, 20) + Points(c.api, 5)

Verdict == [ status : {"NEED_INFO", "NOT_REPRODUCED", "INCONCLUSIVE", "REPRODUCED"},
             score  : 0..100 ]

AssessEvidence(c, replays) ==
  IF Disqualified(c, replays)
    THEN [ status |-> IF c.setupValid /\ c.testFailed THEN "INCONCLUSIVE" ELSE "NOT_REPRODUCED",
           score  |-> 0 ]
  ELSE IF MatchingCleanReplays(c, replays) >= 2
    THEN [ status |-> "REPRODUCED", score |-> BaseScore(c) + 10 ]
  ELSE [ status |-> IF c.probeVerified \/ BaseScore(c) >= 85 THEN "INCONCLUSIVE" ELSE "NOT_REPRODUCED",
         score  |-> BaseScore(c) ]
=============================================================================

----------------------- MODULE InvestigationProgress -----------------------
(***************************************************************************)
(* An investigation as a live job runs it: the orchestrator of module      *)
(* Investigation behind the two adapters of bugagent/api_progress.py,      *)
(* which observe the model client and the sandbox and emit stage events.   *)
(* The adapters are not told which attempt or phase the orchestrator is    *)
(* in: the reporter counts calls.  Around the call are the steps of        *)
(* _live_runner and _run_job (bugagent/api.py): the checkout before it,    *)
(* and the bundle, the Jira callback and the end of the job after it.      *)
(***************************************************************************)
EXTENDS Investigation

VARIABLES
  reported,        \* the reporter's own attempt counter
  sandboxCalls,    \* sandbox calls since the last hypothesis
  verdictStarted,  \* has verdict/started been emitted
  step,            \* where _run_job is
  job,             \* "running", then "done" or "failed"
  stages           \* emitted stage events, in order

progressVars == <<reported, sandboxCalls, verdictStarted, step, job, stages>>
allVars == <<vars, progressVars>>

(* Queued, cloning from GitHub, with the checkout, with the bundle stored,
   with the evidence comment tried, with the follow-through decided. *)
Steps == {"start", "cloning", "running", "stored", "commented", "automated"}

Stages == {"github_checkout", "form_hypothesis", "candidate_sandbox", "replay_1", "replay_2",
           "verdict", "jira_comment", "yolo"}
States == {"started", "completed", "failed", "skipped"}
StageEvent == [stage : Stages, state : States, attempt : Nat]  \* attempt 0: not given

Event(stage, state, n) == [stage |-> stage, state |-> state, attempt |-> n]
Emit(events) == stages' = stages \o events

ProgressInit ==
  /\ Init
  /\ reported = 0
  /\ sandboxCalls = 0
  /\ verdictStarted = FALSE
  /\ step = "start"
  /\ job = "running"
  /\ stages = <<>>

BeginHypothesis(state) ==
  /\ reported' = reported + 1
  /\ Emit(<<Event("form_hypothesis", "started", reported + 1),
            Event("form_hypothesis", state, reported + 1)>>)
  /\ UNCHANGED <<verdictStarted, step, job>>

(* Mutation: a new hypothesis does not reset the call counter. *)
ReportHypothesis_NoReset(state) == BeginHypothesis(state) /\ UNCHANGED sandboxCalls

(* begin_hypothesis, the delegate's answer, then complete or fail. *)
ReportHypothesis(state) == BeginHypothesis(state) /\ sandboxCalls' = 0

StageOfCall(n) == CASE n = 1 -> "candidate_sandbox"
                    [] n = 2 -> "replay_1"
                    [] n = 3 -> "replay_2"
                    [] OTHER -> "candidate_sandbox"

NextSandboxStage == StageOfCall(sandboxCalls + 1)

SandboxStage(state, ended) ==
  LET announces == state = "completed" /\ NextSandboxStage = "replay_2" /\ ~verdictStarted IN
  /\ sandboxCalls' = sandboxCalls + 1
  /\ verdictStarted' = (verdictStarted \/ announces)
  /\ Emit(<<Event(NextSandboxStage, "started", reported)>> \o ended
          \o IF announces THEN <<Event("verdict", "started", reported)>> ELSE <<>>)
  /\ UNCHANGED <<reported, step, job>>

SandboxEnd(state) == <<Event(NextSandboxStage, state, reported)>>

(* Mutation: a sandbox that raises is not reported as failed. *)
ReportSandbox_NoFailure(state) ==
  SandboxStage(state, IF state = "failed" THEN <<>> ELSE SandboxEnd(state))

(* A finished second replay announces the verdict, once per job. *)
ReportSandbox(state) == SandboxStage(state, SandboxEnd(state))

Silent == UNCHANGED progressVars

(* The sandbox or the client raises inside its adapter, or the orchestrator
   raises outside both (building the context, copying the worktree). *)
RaiseInSandbox ==
  /\ pc \in {"candidate", "replay_1", "replay_2"}
  /\ Raise
  /\ ReportSandbox("failed")

RaiseInClient == pc = "propose" /\ Raise /\ ReportHypothesis("failed")

RaiseUnobserved ==
  /\ pc = "candidate" \/ (pc = "propose" /\ attempt = 1)
  /\ Raise
  /\ Silent

(* Steps of the job's thread outside investigate(). *)
JobStep(from, to, events) ==
  /\ job = "running" /\ step = from /\ step' = to
  /\ Emit(events)
  /\ UNCHANGED <<vars, reported, sandboxCalls, verdictStarted, job>>

(* A GitHub source is cloned and pinned to a commit; a local one is used as
   it is and has no stage. *)
BeginClone == JobStep("start", "cloning", <<Event("github_checkout", "started", 0)>>)
PinClone   == JobStep("cloning", "running", <<Event("github_checkout", "completed", 0)>>)
UseLocal   == JobStep("start", "running", <<>>)

(* begin_verdict, if nothing has announced the verdict of a returned bundle. *)
Announcement ==
  IF pc # "returned" \/ verdictStarted THEN <<>> ELSE <<Event("verdict", "started", reported)>>

(* mark_done or mark_failed. *)
Close(outcome) ==
  /\ job = "running" /\ job' = outcome
  /\ Emit(Announcement \o <<Event("verdict", IF outcome = "done" THEN "completed" ELSE "failed", 0)>>)
  /\ verdictStarted' = (verdictStarted \/ pc = "returned")
  /\ UNCHANGED <<vars, reported, sandboxCalls, step>>

(* The clone fails, or a local directory has gone: the exception passes by
   the stage, which nothing ends. *)
FailCheckout == step \in {"start", "cloning"} /\ Close("failed")

(* The model client cannot be built, so investigate() is never called. *)
FailBeforeInvestigation == pc = "validate" /\ step = "running" /\ Close("failed")

(* Mutation: only failures inside the sandbox fail the job. *)
FailJob_SandboxOnly == pc = "raised" /\ sandboxCalls > 0 /\ Close("failed")

(* investigate() raised. *)
FailJob == pc = "raised" /\ Close("failed")

(* investigate() returned: announce the verdict, store the bundle ... *)
StoreBundle ==
  /\ pc = "returned" /\ job = "running" /\ step = "running" /\ step' = "stored"
  /\ Emit(Announcement)
  /\ verdictStarted' = TRUE
  /\ UNCHANGED <<vars, reported, sandboxCalls, job>>

(* ... or fail the job: storing it failed, or removing the clone did. *)
FailToStore == pc = "returned" /\ step = "running" /\ Close("failed")

(* A ticket from Jira gets its evidence ... *)
PostEvidence ==
  \E state \in {"completed", "failed"} :
    JobStep("stored", "commented", <<Event("jira_comment", "started", 0), Event("jira_comment", state, 0)>>)

(* ... and is continued or not: not asked for, not possible, queued, or begun
   and failed. *)
FollowThrough ==
  \E states \in {<<"skipped">>, <<"failed">>, <<"started", "completed">>, <<"started", "failed">>} :
    JobStep("commented", "automated", [i \in DOMAIN states |-> Event("yolo", states[i], 0)])

(* An investigation without an issue ends when its bundle is stored. *)
FinishJob == step \in {"stored", "automated"} /\ Close("done")

ProgressNext ==
  \/ BeginClone \/ PinClone \/ UseLocal \/ FailCheckout
  \/ job = "running" /\ step = "running" /\ (AcceptTicket \/ NeedInfo) /\ Silent
  \/ (ReturnReproduced \/ Retry \/ ReturnExhausted) /\ Silent
  \/ (RejectCandidate \/ \E c \in Candidates : Propose(c)) /\ ReportHypothesis("completed")
  \/ (\E run \in Runs : RunCandidate(run) \/ RunFirstReplay(run) \/ RunSecondReplay(run))
     /\ ReportSandbox("completed")
  \/ RaiseInSandbox
  \/ RaiseInClient
  \/ RaiseUnobserved
  \/ FailBeforeInvestigation
  \/ StoreBundle \/ FailToStore
  \/ PostEvidence \/ FollowThrough
  \/ FinishJob
  \/ FailJob

ProgressSpec == ProgressInit /\ [][ProgressNext]_allVars /\ WF_allVars(ProgressNext)

-----------------------------------------------------------------------------
(* The stage the reporter infers by counting sandbox calls is the phase the
   orchestrator is in, and its attempt number is the orchestrator's: the
   label a user sees next to a running container is the true one. *)
LabelsMatchPhase ==
  /\ pc = "candidate" => NextSandboxStage = "candidate_sandbox"
  /\ pc \in {"replay_1", "replay_2"} => NextSandboxStage = pc
  /\ pc \in {"candidate", "replay_1", "replay_2", "assess"} => reported = attempt

Starts(stage) == { i \in DOMAIN stages : stages[i].stage = stage /\ stages[i].state = "started" }
Ends(stage)   == { i \in DOMAIN stages : stages[i].stage = stage /\ stages[i].state # "started" }

Unended(stage) == Cardinality(Starts(stage)) - Cardinality(Ends(stage))

(* A job that is over reads as over: verdict is the last stage reported, it
   ended exactly once, and every other stage that started has ended.  The
   exception is what _run_job does when the clone fails: github_checkout
   stays as started (the follow-through, yolo, may also end without having
   been announced). *)
FinishedJobClosesStages ==
  job # "running" =>
    /\ stages[Len(stages)] = Event("verdict", IF job = "done" THEN "completed" ELSE "failed", 0)
    /\ Cardinality(Ends("verdict")) = 1
    /\ \A s \in Stages \ {"verdict", "yolo"} :
         Unended(s) = IF s = "github_checkout" /\ step = "cloning" THEN 1 ELSE 0
    /\ Unended("yolo") <= 0

(* Every job ends. *)
JobEnds == <>(job # "running")
=============================================================================

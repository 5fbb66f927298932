--------------------------- MODULE FixPreparation ---------------------------
(***************************************************************************)
(* Preparation of validated fixes: the HTTP handler and the YOLO hand-over *)
(* that queue fix jobs, their registry and one-thread executor             *)
(* (bugagent/api.py, fix_jobs.py), the bounded correction loop and the     *)
(* validator's chain of gates (bugagent/fix.py), the plan and failure      *)
(* files, and the hand-off of an autonomous plan to publication.           *)
(*                                                                         *)
(* The process can shut down in two steps: the application's lifespan ends *)
(* and the executors refuse work (Close), queued work still runs, and then *)
(* the process is gone (Stop).  It can also just be killed.                *)
(***************************************************************************)
EXTENDS Integers, Sequences, FiniteSets

CONSTANTS
  Runs,            \* stored runs with verdict REPRODUCED
  ProvenBy,        \* position of the candidate each run's verdict rests on
  Yolo,            \* runs whose Jira ticket was accepted in YOLO mode
  MaxFixAttempts,  \* MAX_FIX_ATTEMPTS
  MaxJobs,         \* bound: fix jobs of one process
  MaxStops         \* bound: stops of the process

ASSUME FixPreparationAssumption ==
  /\ ProvenBy \in [Runs -> Nat \ {0}]
  /\ Yolo \subseteq Runs
  /\ MaxFixAttempts \in Nat \ {0}
  /\ MaxJobs \in Nat /\ MaxStops \in Nat

VARIABLES
  bundles,      \* runs in the store
  plans,        \* prepared plan files: [run, regression, passed]; passed is
                \* history, the gates the plan's own patch went through
  failureFile,  \* runs with a persisted failed-fix status
  branchMoved,  \* has the target branch left the reproduced commit
  handover,     \* YOLO runs whose completed investigation is to continue
  jobs,         \* the registry: [run, autonomous, status, failures]; failures
                \* says of each failed attempt whether a proposal can correct it
  unsubmitted,  \* jobs created but not yet submitted to the executor
  queue,        \* jobs submitted to the executor
  worker,       \* [job, pc, passed] of the executor's thread
  accepting,    \* do the executors accept work
  answered,     \* history: how each YOLO run's issue was answered
  stops         \* history: stops of the process

disk   == <<bundles, plans, failureFile>>
memory == <<handover, jobs, unsubmitted, queue, worker, accepting>>
vars   == <<disk, branchMoved, memory, answered, stops>>

AllGates == {"request", "build", "preflight", "regression_before", "apply", "regression_after", "suite"}

(* The gates whose failures propose_and_validate_fix feeds back: proposal
   parsing, preflight application and post-patch validation. *)
Correctable == {"build", "preflight", "regression_after", "suite"}

Idle == [job |-> 0, pc |-> "idle", passed |-> {}]

Init ==
  /\ bundles = Runs
  /\ plans = <<>>
  /\ failureFile = {}
  /\ branchMoved = FALSE
  /\ handover = Yolo
  /\ jobs = <<>>
  /\ unsubmitted = {}
  /\ queue = <<>>
  /\ worker = Idle
  /\ accepting = TRUE
  /\ answered = [r \in Runs |-> <<>>]
  /\ stops = 0

Answer(r, how) == answered' = [answered EXCEPT ![r] = Append(@, how)]

-----------------------------------------------------------------------------
(* Intake.  Creating a job and submitting it are two steps. *)

Create(r, autonomous) ==
  /\ Len(jobs) < MaxJobs
  /\ jobs' = Append(jobs, [run |-> r, autonomous |-> autonomous, status |-> "queued", failures |-> <<>>])
  /\ unsubmitted' = unsubmitted \cup {Len(jobs) + 1}

(* POST /runs/{run_id}/fixes, for a stored reproduced run. *)
PrepareFix(r) ==
  /\ accepting
  /\ r \in bundles
  /\ Create(r, FALSE)
  /\ UNCHANGED <<disk, branchMoved, handover, queue, worker, accepting, answered, stops>>

(* The YOLO continuation of a reproduced investigation loads its bundle
   again, and stops with a comment when the bundle is gone or GitHub
   publication is not set up for its project. *)
ContinueYolo(r) ==
  /\ r \in handover
  /\ handover' = handover \ {r}
  /\ \/ r \in bundles /\ Create(r, TRUE) /\ UNCHANGED answered
     \/ Answer(r, "told") /\ UNCHANGED <<jobs, unsubmitted>>
  /\ UNCHANGED <<disk, branchMoved, queue, worker, accepting, stops>>

(* executor.submit raises once the executor has been shut down: the hand-over
   catches it and tells the issue; the HTTP handler answers with an error. *)
SubmitJob(j) ==
  /\ j \in unsubmitted
  /\ unsubmitted' = unsubmitted \ {j}
  /\ IF accepting THEN queue' = Append(queue, j) /\ UNCHANGED answered
     ELSE /\ IF jobs[j].autonomous THEN Answer(jobs[j].run, "told") ELSE UNCHANGED answered
          /\ UNCHANGED queue
  /\ UNCHANGED <<disk, branchMoved, handover, jobs, worker, accepting, stops>>

-----------------------------------------------------------------------------
(* The executor's thread: _run_fix_job. *)

Job == jobs[worker.job]
At(pc) == worker.pc = pc
Go(pc) == worker' = [worker EXCEPT !.pc = pc]
Others == <<branchMoved, handover, unsubmitted, queue, accepting, stops>>

(* Mutation: the job's entry stays in the queue. *)
StartJob_Peek ==
  /\ At("idle") /\ queue # <<>>
  /\ worker' = [job |-> Head(queue), pc |-> "checkout", passed |-> {}]
  /\ jobs' = [jobs EXCEPT ![Head(queue)].status = "running"]
  /\ UNCHANGED <<disk, branchMoved, handover, unsubmitted, queue, accepting, answered, stops>>

StartJob ==
  /\ At("idle") /\ queue # <<>>
  /\ worker' = [job |-> Head(queue), pc |-> "checkout", passed |-> {}]
  /\ queue' = Tail(queue)
  /\ jobs' = [jobs EXCEPT ![Head(queue)].status = "running"]
  /\ UNCHANGED <<disk, branchMoved, handover, unsubmitted, accepting, answered, stops>>

(* The branch must still be at the reproduced commit when it is cloned. *)
Checkout ==
  /\ At("checkout")
  /\ ~branchMoved
  /\ Go("request")
  /\ UNCHANGED <<Others, disk, jobs, answered>>

Pass(gate, next) ==
  /\ At(gate)
  /\ worker' = [worker EXCEPT !.pc = next, !.passed = @ \cup {gate}]
  /\ UNCHANGED <<Others, disk, jobs, answered>>

(* The model answers; a request that fails is not a failure of a proposal. *)
RequestEdits == Pass("request", "build")

(* Its answer is one to three bounded line edits of existing source files,
   from which a diff of permitted paths is derived. *)
BuildPatch == Pass("build", "preflight")

(* git apply --check, in a fresh copy of the checkout with the regression
   test committed. *)
PreflightPatch == Pass("preflight", "regression_before")

(* The regression test fails cleanly without the patch. *)
ConfirmFailure == Pass("regression_before", "apply")

(* The patch is applied and changes permitted files only. *)
ApplyPatch == Pass("apply", "regression_after")

(* The regression test passes cleanly with the patch. *)
ConfirmFix == Pass("regression_after", "suite")

(* So does the repository's own suite. *)
RunSuite == Pass("suite", "write")

Fail(correctable) == jobs' = [jobs EXCEPT ![worker.job].failures = Append(@, correctable)]

Attempt == Len(Job.failures) + 1

(* Mutations: the next proposal resumes at the gate that failed; a failed
   precondition of the reproduction is retried as well. *)
Correct_InPlace ==
  /\ worker.pc \in Correctable /\ Attempt < MaxFixAttempts
  /\ Fail(TRUE)
  /\ worker' = [worker EXCEPT !.passed = {}]
  /\ UNCHANGED <<Others, disk, answered>>
Correct_AnyGate ==
  /\ worker.pc \in AllGates /\ Attempt < MaxFixAttempts
  /\ Fail(worker.pc \in Correctable)
  /\ worker' = [worker EXCEPT !.passed = {}, !.pc = "request"]
  /\ UNCHANGED <<Others, disk, answered>>

(* A correctable failure is fed back into a new proposal, which passes
   through every gate again in a fresh worktree. *)
Correct ==
  /\ worker.pc \in Correctable /\ Attempt < MaxFixAttempts
  /\ Fail(TRUE)
  /\ worker' = [worker EXCEPT !.passed = {}, !.pc = "request"]
  /\ UNCHANGED <<Others, disk, answered>>

Fatal == worker.pc \in AllGates \cup {"checkout", "write"}
LastCorrectable == worker.pc \in Correctable /\ Attempt = MaxFixAttempts

FailJob(correctable) ==
  /\ jobs' = [jobs EXCEPT ![worker.job].status = "failed",
                          ![worker.job].failures = Append(@, correctable)]
  /\ Go("record")
  /\ UNCHANGED <<Others, disk, answered>>

(* Mutation: only the validator's own failures are caught. *)
MarkFailed_Correctable == LastCorrectable /\ FailJob(TRUE)

(* The last attempt failed, or something no proposal can correct was raised
   before the plan was written: mark_failed. *)
MarkFailed == (LastCorrectable /\ FailJob(TRUE)) \/ (Fatal /\ FailJob(FALSE))

(* prepare_pull_request, with the first candidate of the bundle as the
   regression test. *)
Plan == [run |-> Job.run, regression |-> 1, passed |-> worker.passed]

WritePlan ==
  /\ At("write")
  /\ plans' = Append(plans, Plan)
  /\ Go("written")
  /\ UNCHANGED <<Others, bundles, failureFile, jobs, answered>>

AfterJob(pc) == worker' = IF Job.autonomous THEN [worker EXCEPT !.pc = pc] ELSE Idle
Done == jobs' = [jobs EXCEPT ![worker.job].status = "done"]

(* Mutation: the job is marked before its plan is written. *)
MarkDone_BeforePlan == At("write") /\ Done /\ AfterJob("handoff") /\ UNCHANGED <<Others, disk, answered>>

MarkDone == At("written") /\ Done /\ AfterJob("handoff") /\ UNCHANGED <<Others, disk, answered>>

(* _queue_yolo_publication; submit raises after a shutdown and nothing
   catches it. *)
HandOff ==
  /\ At("handoff")
  /\ IF accepting THEN Answer(Job.run, "queued") ELSE UNCHANGED answered
  /\ worker' = Idle
  /\ UNCHANGED <<Others, disk, jobs>>

(* Mutation: a failed file write also ends the thread's job. *)
RecordFailure_Raises ==
  /\ At("record")
  /\ \/ failureFile' = failureFile \cup {Job.run} /\ AfterJob("tell")
     \/ UNCHANGED failureFile /\ worker' = Idle
  /\ UNCHANGED <<Others, bundles, plans, jobs, answered>>

(* The failure is persisted, unless the disk refuses it. *)
RecordFailure ==
  /\ At("record")
  /\ failureFile' \in {failureFile, failureFile \cup {Job.run}}
  /\ AfterJob("tell")
  /\ UNCHANGED <<Others, bundles, plans, jobs, answered>>

(* _post_yolo_failure_comment, whether or not Jira accepts it. *)
TellIssue ==
  /\ At("tell")
  /\ Answer(Job.run, "told")
  /\ worker' = Idle
  /\ UNCHANGED <<Others, disk, jobs>>

Worker ==
  \/ StartJob \/ Checkout
  \/ RequestEdits \/ BuildPatch \/ PreflightPatch \/ ConfirmFailure \/ ApplyPatch \/ ConfirmFix \/ RunSuite
  \/ Correct \/ MarkFailed
  \/ WritePlan \/ MarkDone \/ HandOff
  \/ RecordFailure \/ TellIssue

-----------------------------------------------------------------------------
(* Around the jobs. *)

MoveBranch ==
  /\ ~branchMoved /\ branchMoved' = TRUE
  /\ UNCHANGED <<disk, memory, answered, stops>>

(* DELETE /runs removes the bundles and keeps the plans. *)
ClearRuns ==
  /\ bundles # {} /\ bundles' = {}
  /\ UNCHANGED <<plans, failureFile, branchMoved, memory, answered, stops>>

(* The lifespan ends: shutdown(wait=False, cancel_futures=False). *)
Close ==
  /\ accepting /\ stops < MaxStops
  /\ accepting' = FALSE
  /\ UNCHANGED <<disk, branchMoved, handover, jobs, unsubmitted, queue, worker, answered, stops>>

(* The process is gone, and started again with an empty registry. *)
Stop ==
  /\ stops < MaxStops
  /\ stops' = stops + 1
  /\ handover' = {} /\ jobs' = <<>> /\ unsubmitted' = {} /\ queue' = <<>>
  /\ worker' = Idle
  /\ accepting' = TRUE
  /\ UNCHANGED <<disk, branchMoved, answered>>

Next ==
  \/ \E r \in Runs : PrepareFix(r) \/ ContinueYolo(r)
  \/ \E j \in unsubmitted : SubmitJob(j)
  \/ Worker
  \/ MoveBranch \/ ClearRuns \/ Close \/ Stop

(* Model calls, git and sandbox runs time out, so the thread goes on; so do
   the handlers' threads between creating a job and submitting it. *)
Spec == Init /\ [][Next]_vars /\ WF_vars(Worker) /\ WF_vars(\E j \in unsubmitted : SubmitJob(j))

-----------------------------------------------------------------------------
(* What a user is shown of a stored run: GET /runs/{run_id}/fix-status. *)

JobsOf(r) == { j \in DOMAIN jobs : jobs[j].run = r }
PlansOf(r) == { i \in DOMAIN plans : plans[i].run = r }

(* The newest job of this process; else a persisted plan; else a persisted
   failure. *)
FixStatus(r) ==
  CASE JobsOf(r) # {}     -> jobs[CHOOSE j \in JobsOf(r) : \A k \in JobsOf(r) : k <= j].status
    [] JobsOf(r) = {} /\ PlansOf(r) # {} -> "done"
    [] JobsOf(r) = {} /\ PlansOf(r) = {} -> IF r \in failureFile THEN "failed" ELSE "not_started"

(* Every variable has its type, and a job is in one place: being submitted,
   in the executor's queue once, or with the thread. *)
TypeOK ==
  /\ bundles \subseteq Runs
  /\ plans \in Seq([run : Runs, regression : Nat, passed : SUBSET AllGates])
  /\ failureFile \subseteq Runs
  /\ branchMoved \in BOOLEAN
  /\ handover \subseteq Yolo
  /\ jobs \in Seq([ run : Runs, autonomous : BOOLEAN,
                    status : {"queued", "running", "done", "failed"}, failures : Seq(BOOLEAN) ])
  /\ unsubmitted \subseteq { j \in DOMAIN jobs : jobs[j].status = "queued" }
  /\ queue \in Seq({ j \in DOMAIN jobs \ unsubmitted : jobs[j].status = "queued" })
  /\ \A i, k \in DOMAIN queue : queue[i] = queue[k] => i = k
  /\ worker \in [ job : 0..Len(jobs), passed : SUBSET AllGates,
                  pc : AllGates \cup {"idle", "checkout", "write", "written", "handoff", "record", "tell"} ]
  /\ \A j \in DOMAIN jobs : jobs[j].status = "running" => j = worker.job
  /\ accepting \in BOOLEAN
  /\ answered \in [Runs -> Seq({"told", "queued"})]
  /\ stops \in 0..MaxStops

(* A plan exists only for a patch that itself passed every gate: nothing a
   rejected proposal passed counts for the one that replaces it
   (propose_and_validate_fix, PatchValidator.validate). *)
PlansAreValidated == \A i \in DOMAIN plans : plans[i].passed = AllGates

(* A job asks for another proposal only after a failure a proposal can
   correct, and gives up on such a failure only with the budget used up:
   "Only proposal parsing, preflight application, and post-patch validation
   failures are retried" (propose_and_validate_fix). *)
RetriesAreCorrectable ==
  \A j \in DOMAIN jobs :
    LET failures == jobs[j].failures
        fatal    == jobs[j].status = "failed" /\ ~failures[Len(failures)]
    IN /\ \A i \in DOMAIN failures : failures[i] \/ (fatal /\ i = Len(failures))
       /\ Len(failures) <= MaxFixAttempts
       /\ jobs[j].status = "failed" /\ ~fatal => Len(failures) = MaxFixAttempts

(* A validated fix is not lost with the process: a run shown as done is
   shown as done after a restart, also if an earlier job of it had failed
   and left its failure on disk. *)
DoneSurvivesRestart ==
  [][jobs' = <<>> => \A r \in bundles : FixStatus(r) = "done" => FixStatus(r)' = "done"]_vars

WorkingOn(r) ==
  \/ r \in handover
  \/ \E j \in JobsOf(r) : jobs[j].autonomous /\ (jobs[j].status \in {"queued", "running"} \/ worker.job = j)

(* An autonomous workflow ends in exactly one way: its plan is queued for
   publication, or its issue is told that it stopped, and never both.  It
   ends in neither only when the process stopped or was shutting down as the
   plan was handed off. *)
AutonomousAnswered ==
  \A r \in Yolo :
    /\ Len(answered[r]) <= 1
    /\ accepting /\ stops = 0 /\ ~WorkingOn(r) => Len(answered[r]) = 1
    /\ answered[r] = <<"queued">> => PlansOf(r) # {}

(* A submitted job settles unless its process stops. *)
FixJobsSettle ==
  \A j \in 1..MaxJobs :
    (\E i \in DOMAIN queue : queue[i] = j) ~> (j \in DOMAIN jobs => jobs[j].status \in {"done", "failed"})

(* The regression test of a plan is the test the verdict rests on: "Write the
   already verified regression test" (docs/architecture.md). *)
PlanCarriesProof == \A i \in DOMAIN plans : plans[i].regression = ProvenBy[plans[i].run]
=============================================================================

# Bug Sleuth: verification project

TLA+ models of the Bug Sleuth backend (`src/bugagent`), the TLC configurations
that check them on small instances, and TLAPS proofs of what matters most in
each part, from the step from sandbox runs to a verdict to the pull request that
comes of it.

Bug Sleuth takes a bug report and a repository, asks a language model for a
failing test, runs it in an isolated container, replays it, and only then says
that the bug is reproduced. A reproduction can be turned into a validated fix
and a draft pull request, by a person or by an autonomous ("YOLO") pipeline
that starts from a Jira webhook. The model and the product under test are
unreliable by nature, so what has to be right is the deterministic part: what
counts as a proof, what is stored, what is told to whom, and how often.

To check a module by hand, with the configuration named in the tables below:

    tlc -workers 2 -config MCInvestigation.cfg MCInvestigation.tla
    tlapm Investigation_proofs.tla

## 1. Inventory

Paths are relative to `src/bugagent`.

| Component | Code | State it keeps | Operations | Modelled in |
|---|---|---|---|---|
| Investigation orchestrator | `agent/orchestrator.py` | locals of one call: attempt, candidates, evidence, replays, last verdict, timeline | `investigate` | `Investigation` |
| Evidence scorer | `scoring.py` | none (pure) | `assess_evidence` and its two helpers | `Scoring` |
| Domain records | `domain.py` | immutable records | constructors, (de)serialisation | `Scoring`, `Investigation` (the fields the logic reads) |
| Silent-output verification | `silent_output.py` | none (pure) | recover a claim, ground it in a contract, check its probe, read the observation | `SilentOutput` |
| Docker sandbox | `sandbox/docker.py`, `sandbox/policy.py` | none between runs | `run` | `Scoring` (outcomes of a run) |
| Candidate validation, repository context | `agent/repository.py` | none | list files, build the guide, select snippets, validate, materialise | `RepositoryContext`; outcomes are inputs of `Investigation` |
| Model client | `agent/client.py` | none | `propose` | environment of `Investigation` |
| Progress reporter | `api_progress.py` | attempt and call counters, verdict flag | three adapters | `InvestigationProgress` |
| Job registry and stream | `api_jobs.py`, `_sse_events` in `api.py` | jobs, retained events, one condition variable | create, mark, emit, wait | `JobStream` |
| Bundle replay audit | `replay.py` | none | `replay_bundle` | `BundleReplay` |
| Fix preparation | `fix.py` (validator, correction loop, plan), `fix_jobs.py`, `_run_fix_job` in `api.py` | fix jobs, plan files | prepare, validate, retry, hand off | `FixPreparation` |
| Publication | `publish_jobs.py`, `PullRequestPublisher` in `fix.py`, `_run_publication_job` in `api.py`, `publish-pr` in `cli.py` | publication jobs, records on disk, branches and pull requests on GitHub, comments in Jira | publish, hand off, record, link, show | `Publication`, `PublishOnce` |
| HTTP API and pipeline | `api.py` | three one-thread executors, three registries, the YOLO switch | handlers, YOLO hand-offs, lifespan | `JobStream`, `JiraIntake`, `FixPreparation`, `Publication`, `RunStore`, each for its part |
| Jira intake | `jira.py`, `jira_api.py` | map from issue to job in the registry | webhook, consent, comment, continuation | `JiraIntake`, `TicketWorkflow` |
| Jira gateway | `jira_gateway.py` | none between requests | forward, time out | `JiraIntake` |
| Run store | `artifacts.py`, `web.py`, `DELETE /runs` in `api.py` | bundle directories | staged write, rename, list, read, delete | `RunStore`, `RunHistory` |
| GitHub checkout | `github.py`, `api_repositories.py` | none | clone, resolve | the clone's stage in `InvestigationProgress`, a commit in `FixPreparation` and `Publication` |
| Command line | `cli.py` | none | one call of the above each | `prepare-pr`, `publish-pr` in `Publication` |
| Browser workspace, viewer, demo, scripts | `src/ui`, `src/web`, `demo.py`, `src/scripts` | rendering | | no (the browser is the client of `JobStream`) |

**How they interact.** An HTTP request (or a webhook) creates a job in a
registry and submits it to an executor with one thread. The investigation
thread calls the orchestrator through the progress adapters, which write stage
events back into the registry; any number of stream threads wait on the
registry's one condition variable. A finished investigation stores a bundle; a
YOLO job then submits a fix job to the second executor; a finished YOLO fix job
submits a publication to the third. Jobs, the de-duplication of tickets and the
YOLO switch are in memory; bundles, plans and publication records are files;
branches and pull requests are on GitHub. Handlers other than the webhook's run
in threads, so requests to one store overlap.

**What makes each one correct, and what is hard about it.**

* *Orchestrator and scorer.* `REPRODUCED` exactly for a candidate run confirmed
  by two replays; nothing lost to a later attempt; a bundle that agrees with
  itself; bounded work. Hard: the verdict is decided by the order of several
  gates and not by the score, a refusal returns from the middle of the loop, and
  the retry, the early return and the last verdict meet at the last attempt.
* *Silent-output verification.* A wrong value may only count when a contract in
  the repository says otherwise. Two computations of the expected values, one
  from the test and one from the claim, must agree to the minor unit at every
  tier and rounding boundary, and a claim must not outlive the test it is about.
* *Reporter.* It is not told what the orchestrator does; it counts calls. The
  labels must nevertheless be the true ones, and a failed job must close the
  stages of the model and the sandbox wherever the exception came from. The
  stage of the checkout is the job's own, and a clone that fails leaves it open.
* *Registry and streams.* Threads, a shared condition variable whose predicate
  is tested once, an end-of-stream decision on a status that is written
  separately from the last event, and clients that reconnect.
* *Audit.* It selects test and expected signature by position.
* *Fix preparation.* A chain of gates of which some are retryable and some are
  not, one result of the product each, a plan that must exist exactly when every
  gate passed, and a hand-off after the job has been marked as done.
* *Publication.* Four ways to publish one plan, a registry in memory, records
  on disk, a remote that answers late or not at all, a base branch that moves
  and a process that may stop anywhere.
* *Jira intake.* A ticket is delivered until Jira gets an answer, through a
  gateway that gives up before the API does, so deliveries come twice, late and
  out of order; the operator's consent is taken in one step and the job
  registered in another; the 202 is for a job that is only in memory; and the
  evidence comment and the decision to continue share one callback, each of
  whose steps may fail.
* *Run store.* A bundle becomes visible by a rename, but the listing's pattern
  also finds the directory it is prepared in; readers open six files one after
  the other and requests delete directories file by file, at the same time.
* *Repository context.* Three selections share a budget: what does not fit is
  skipped without ending the selection, and the contracts that the silent-output
  oracles need must be shown whatever else is.

The hazards themselves, with the line each one bites at and the property that
watches it, are in `PROJECT.json`.

## 2. Modules

| Module | Extends | What it is |
|---|---|---|
| `Scoring` | | The rubric: what a sandbox run is, the evidence record made of it, and the verdict for a candidate run and its replays |
| `EvidenceGate` | | Abstract: collect agreeing runs, drop them at any time, conclude once; `REPRODUCED` only while holding three |
| `Investigation` | `Scoring` | One call of `investigate`, step by step; instantiates `EvidenceGate` |
| `InvestigationProgress` | `Investigation` | The same call inside an API job, from checkout to callback, observed by the progress adapters |
| `BundleReplay` | `Investigation` | The audit of the bundle that call returned |
| `SilentOutput` | `Scoring` | Claims about wrong values: recovery, grounding, probe check, and the runs of the probe |
| `JobStream` | | Job registry, worker, event streams and their clients |
| `FixPreparation` | | Fix jobs from request or hand-over to plan file and hand-off |
| `PublishOnce` | | Abstract: one pull request per run, announcements only of opened ones |
| `Publication` | | Everything that publishes a plan, and what it writes to; instantiates `PublishOnce` |
| `TicketWorkflow` | | Abstract: a ticket is accepted once with a consent, gets its evidence, and is continued or not |
| `JiraIntake` | | Deliveries, the webhook handler, the investigation executor and its callback; instantiates `TicketWorkflow` |
| `RunHistory` | | Abstract: a bundle is absent, present as a whole, then removed |
| `RunStore` | | Bundle directories file by file: writers, readers and DELETE requests; instantiates `RunHistory` |
| `RepositoryContext` | | The listing, the guide and the snippets of a prompt, and the checks on the answer |
| `MC*` | the module named | Values of the constants for TLC |
| `*_proofs` | the module named | Theorems and their proofs (`Investigation_proofs` is also about `InvestigationProgress` and `BundleReplay`, which extend `Investigation`) |

Definitions whose comment begins with "Mutation" are not part of any
specification: each is a definition of the model as a plausible bug would leave
it, and `PROJECT.json` names the property that catches it.

### Scoring and Investigation

A sandbox run is a record of the four facts the orchestrator derives everything
from: how the preflight (collection) ended, how the execution ended, the failure
signature, and the value a silent-output probe observed. A signature is its
normalised text, whether the symptom words of the candidate occur in it, and
whether a repository frame does; text itself is a model value. A candidate is
what its validator establishes: does it call the public API, and is its claim
about a silent wrong output absent, rejected or grounded in the ticket.
`EvidenceFromRun` builds the evidence record of `_evidence_from_run`, and
`AssessEvidence` is `assess_evidence` gate by gate, with its points.

`Investigation` has one action per step of the loop. `pc` is the position in
`investigate`; the other variables are its locals, plus `verdict` for the
returned bundle. Replays enter `evidence` together after the second, as in the
code; `RejectCandidate` returns from inside the loop without recording the
candidate; `Raise` is any exception of the client or the sandbox, which leaves
no bundle. The model client and the sandbox are the environment, so candidates
and runs are chosen freely. Feedback texts only steer the model and are left
out, as are the reasons and signal names a verdict lists.

### InvestigationProgress

Runs in lock step with `Investigation`: each call into the client or the sandbox
is one joint step with the adapter around it. `reported` and `sandboxCalls` are
the reporter's own counters, `stages` the events it emitted. `RaiseUnobserved`
is an exception outside both adapters.

`step` is where `_run_job` is around that call. Before it a GitHub source is
cloned (`BeginClone`, `PinClone`) and a local one used as it is (`UseLocal`);
after it the verdict is announced and the bundle stored (`StoreBundle`), and an
issue from Jira gets its evidence and its follow-through (`PostEvidence`,
`FollowThrough`). Either the whole job is marked done at the end (`FinishJob`)
or an exception marks it failed: of the checkout (`FailCheckout`), before the
call (`FailBeforeInvestigation`), in it (`FailJob`) or while storing
(`FailToStore`). The exceptions of the Jira callback are caught where they
arise, so they only change its events. `github_checkout` is closed by `PinClone`
alone: a clone that fails leaves it as started, and `FinishedJobClosesStages`
says so. Events that are not stages with a start and an end (`job`,
`jira_intake`) are left out.

### BundleReplay

After the bundle has been returned, `ReplayBundle` runs candidate number one
twice and compares with the first recorded candidate signature. Hashes and the
pinned commit are taken to be intact. The two modules are checked together
(`ReplaySpec`), the call first and the audit of its result after it.

### SilentOutput

A generated test is what the readers of its syntax tree find in it: the quote it
asks the product for, the field it is about, whether it prints an observation,
and the values it asserts. Amounts are integers in minor units and rates
integers in thousandths, so rounding is modelled by what it does. `ClaimOf` is
the claim that comes with the test or, without one, the claim recovered from it;
`Grounded` is the evaluation against the cited contract; `ProbeAccepted` is the
source check of the probe. One action grounds the claim, one runs the test as
the product answers (a candidate run and, if it failed cleanly, two replays), one
hands the evidence to `AssessEvidence`.

The product under test is external. `Answer` says what it returns when it follows
the two documented contracts (tax after discounts, tiered shipping) or breaks
one of them, and it may answer each run differently. It is written from the
documented incentives and not from the oracle, so that the two can disagree. They
do on one kind of order, which the properties name: the tax oracle adds the full
shipping fee also when the order earns a shipping incentive (`EarnsIncentive`).
Shipping tiers are documented for US dollars only, and a recovered shipping
claim in euros is rejected. How a coupon rounds is taken as the oracle has it.

### JobStream

One action per critical section of the registry's condition variable.
`ReplaceDone` and `EmitVerdict` are separate because `mark_done` takes the lock
twice. A stream is `calling`, `waiting` (inside `Condition.wait`), `woken` (has
to re-acquire the lock), `yielding` or over. `wait_for_events` tests its
predicate once and then waits once, and so does the model: there is no loop.
`notify_all` wakes every stream, whatever job it follows. `Drop` is the client's
network; `Connect` uses the last event identifier the client received, as
`EventSource` does. Publishing the number of a batch's last event (`upto`)
stands for the tuple of events.

### FixPreparation

`jobs` is the registry in creation order, `queue` the executor's, `worker` its
one thread, with `pc` at a gate of `PatchValidator.validate` or at a step of
`_run_fix_job`; every gate is an action of its own. Creating and submitting a
job are two steps because a shutdown can come between. `passed` collects the
gates the current proposal went through and is copied into the plan as history.
A failure is correctable or not; which gates can fail correctably is
`Correctable`, the three exception classes that `propose_and_validate_fix`
catches. `Close` is the end of the application's lifespan (the executors refuse
work, what is queued still runs), `Stop` the end of the process. The three
shutdown calls are taken as one. `answered` is history: what each autonomous
workflow ended with. `FixStatus` is the view that `GET
/runs/{run_id}/fix-status` gives of the jobs and, after a restart, of the files.

### Publication

`CheckRequest`, `AcceptRequest` and `RefuseRequest` are the publish endpoint,
with the time between its reading of the record and its creation of the job;
`HandOff` the autonomous pipeline, which reads no record; `StartCommand` the
command line, which uses neither record nor registry. `publisher` is where each
of the two processes is in `PullRequestPublisher.publish`: clone and compare the
base, push the branch, open the pull request, each of which may fail after it
took effect. GitHub's rules are external: a push without force is refused unless
it fast-forwards, and a second open pull request for the same branch is refused.
`Restart` empties the registries and keeps files and GitHub. `ShownStatus` is
what the list of runs says of a run, from one of its plans: which one follows
from the order of random identifiers, so a property about it quantifies over
every order (`Ranks`).

### JiraIntake

`Send` is Jira delivering a ticket through the gateway, again and again until an
answer ends it; `GatewayTimeout` is the gateway giving up while the API goes on,
so that `requests` holds deliveries nobody waits for, handled in any order. The
webhook handler is two actions, `ReadConsent` and `SubmitOnce`. It runs on the
event loop without a pause, so no second webhook comes in between; the handler
of the YOLO switch runs in a thread and may. `settled` remembers in which life
of the process Jira was answered. The rest is `_run_job` for one job at a time:
the investigation, the evidence comment, the decision to continue, the end.
Comments may fail to arrive, `ClearRuns` may remove the bundle that the decision
re-reads. Fix jobs are those of `FixPreparation`: `handed` is its `handover`.

### RunStore

A directory is the set of its entries, `"."` standing for the directory itself.
Four files that only `get_run` reads are one entry, `"evidence"`; the order of
writing and of reading is kept. `ListManifests` evaluates the pattern, which also
finds staging directories; `ListEntry` reads one summary, `ReadFile` one required
file of the opened run. A DELETE lists the directories, checks each for its
manifest and unlinks entries in the order the file system gives. A file that has
gone meanwhile makes `rmtree` raise up to Python 3.12 and not from 3.13, and both
are modelled. `Stop` ends the process and leaves every file where it is.

### RepositoryContext

Files are a kind and a size, in the order of their paths; `listed` is a set of
positions, whose order is that of the listing. Items of the guide are sizes in
any ranking, since ranking depends on the words of the ticket. `Take` is the
loop that all selections share; the snippets are taken from any ranking
(`Rankings`) of the files that can be shown (`Showable`) with the contract
sources first. Sizes are counted in bytes on disk, which is the size of the text
for UTF-8 files; section headers are covered by the code's own reserve and not
counted one by one. `RaiseOutside` is the exception of the path check for a
symbolic link that leaves the worktree.

## 3. Runs

All passing runs end with the full state space explored. Deadlock is checked
only for `JobStream`, whose clients always reconnect; every other system really
stops when its work is done or its bounds are reached.

| Run | Configuration | States | What it asks |
|---|---|---|---|
| `investigation` | `MCInvestigation` | 1,448,487 | `ReproducedIffProven`, a bundle that agrees with itself and its budget (`BundleConsistent`), the audit of a first-attempt reproduction (`FirstAttemptReplayable`), refinement of `EvidenceGate` |
| `progress` | `MCInvestigationProgress` | 60,706 | labels of stages, closed stages of every job but the clone that failed, every job ends |
| `silent_output` | `MCSilentOutput` | 256,520 | recovered claims are exact and derivable, no expectation that an oracle does not derive |
| `job_stream` | `MCJobStream` | 173,480 | no lost wakeup, exact delivery over every connection, streams that end, clients that end up with everything |
| `fix_preparation` | `MCFixPreparation` | 513,100 | gates, retries, restart, answer to an autonomous workflow, settling |
| `publication` | `MCPublication` | 528,280 | one pull request, right content, settled records, refinement of `PublishOnce`, settling, a shown pull request stays shown |
| `jira_intake` | `MCJiraIntake` | 402,724 | one job per ticket, consent at intake, acknowledged tickets, refinement of `TicketWorkflow`, settling |
| `run_store` | `MCRunStore` | 1,252,516 | whole bundles only, what is deleted is gone and counted, refinement of `RunHistory` |
| `repository_context` | `MCRepositoryContext` | 2,076,504 | the context fills its cap, contracts come first |

Three more runs are refuted on purpose (section 4): `claim_inputs`, `plan_proof`
and `failure_comment`, on configurations of their own for the same modules.

Bounds, and why they are enough:

* `MCInvestigation`: two attempts, three candidates, five runs. One attempt
  retries into the last one, which is the only place where budget, early return
  and last verdict meet; a third attempt adds no new kind of step. The runs
  differ from each other in exactly one thing the scorer compares (validity,
  outcome, text, symptom, repository frame, observed value), so any comparison
  it forgets shows. With two attempts the first and the proven candidate can
  differ, which is the audit's hard case. The theorems of section 5 remove the
  bounds for the properties they prove.
* `MCInvestigationProgress`: three attempts, so that a call counter that is not
  reset drifts past its last label; one candidate, and one way each to fail, to
  pass and to time out, since stages differ only in how a call ends.
* `MCSilentOutput`: orders one minor unit below and exactly at each of the three
  tiers, and one of 1,266, whose tax at 75‰ after a 10 % coupon is an exact half;
  a fee of 999, which no tier divides evenly; every way in which a quote can
  withhold an input; tests that assert the documented values, those of either
  defect, those recovered, or nothing; claims that are true, badly cited, out of
  range, unsupported or about another discount. The product chooses its answer
  anew in every run.
* `MCJobStream`: two jobs, so that a stream is woken by events that are not
  its own; one client per job, one of them starting at a later cursor; one stage
  event, five events per job at most; one lost connection per client.
* `MCFixPreparation`: two jobs, of the same run or of two, one run under YOLO;
  two attempts, a first and a last one (the code has three; a middle one takes
  the same steps as the first); one shutdown and one restart.
* `MCPublication`: two plans of one run (they share a branch), one of them under
  YOLO; two HTTP clients and a command line; one commit that moves the base; one
  restart. One restart is what makes an entry of the registry disappear.
* `MCJiraIntake`: a publishable ticket that Jira tries twice and one of an
  unconfigured project that it tries once; one manual investigation, so that a
  ticket's job has to wait in the queue; two changes of the switch, on and off
  again, between any two steps; one shutdown and one restart, after which the
  remaining delivery meets an empty router.
* `MCRunStore`: two bundles, so that a request has one to go on with after the
  other; two DELETE requests that meet on both; one client that lists and opens;
  one stop of the process, which leaves a staging directory or a half-deleted
  bundle to every later request. Runs and requests are symmetric (nothing
  distinguishes them in the module, and the run checks safety only).
* `MCRepositoryContext`: every repository of at most four files of twelve types
  (kinds, and for sources sizes on both sides of the file limit), one more than
  the listing takes; a guide whose parts can leave all, some or none of the
  context's nine bytes; none to three manifests, of equal or different sizes,
  one of which exceeds the file limit; items and files exactly as large as the
  room that is left.

**Fairness.** `InvestigationProgress` assumes weak fairness of its next step:
the model client and the sandbox calls have timeouts, and the thread runs.
`JobStream` assumes it of the worker and of each stream, and of a client's
reconnection (`EventSource` reconnects by itself); it assumes nothing of the
15-second timeout of the wait, so the streams are shown to end by notification
alone. `FixPreparation` and `Publication` assume it of the executor's thread,
whose git, GitHub, Jira, model and container calls have timeouts, and of a
handler's thread between creating a job and submitting it. `JiraIntake` assumes
it of the executor's thread alone, not of Jira, the gateway or the webhook
handler. `RunStore` and `RepositoryContext` claim safety only. No fairness is
assumed of failures, restarts, base moves, requests, deliveries, the switch or
clients' disconnections.

## 4. Disagreements found

Each of these is a run that TLC refutes, and quotes the sentence it refutes.

* `claim_inputs`: the inputs of a model's claim are never compared with the quote
  its probe asks for, so a claim about one order on a test of another is
  verified and a correct product reproduced as defective.
* `plan_proof`: the fix pipeline takes the first candidate of a bundle as its
  regression test. `FirstAttemptReplayable` has to except bundles whose proof is
  the second candidate because they exist; here such a run's plan carries a test
  whose evidence was rejected.
* `failure_comment`: Jira is told that no draft pull request was created when
  GitHub's answer was lost, or when the record could not be written, after the
  pull request had been opened.

Other behaviour that surprised us is stated in a passing property, with its
exception, or kept in the model where the reader can see it:

* a bundle can be `REPRODUCED` with 70 points although the low-level design asks
  for 85: the gate is qualification and two replays, not the score
  (`ReproducedIffProven`);
* a bundle reproduced in a later attempt cannot be audited, because the audit
  replays the first candidate (`FirstAttemptReplayable`);
* a claim is recovered from any test with the shape of a pricing quote; when it
  cannot be verified it disqualifies the test, also when the quote crashes, and
  tax tests of orders that earn a shipping incentive count the full fee
  (`RecoveredClaimsAreExact`);
* a stream can end before its verdict event (`DeliveryIsExact`; the client gets
  it when it reconnects, `ReconnectCompletes`);
* an autonomous plan is neither queued nor reported after the lifespan has ended
  (`AutonomousAnswered`);
* the status of a run with two plans follows the order of random identifiers and
  not "the highest persisted state" that `api.py:1144` and `docs/API.md:128` speak
  of: a second plan can hide an open pull request (`OpenPullRequestStaysShown`);
* a job whose clone failed keeps `github_checkout` as started for ever: the
  exception passes by the stage and `mark_failed` only ends the verdict
  (`api.py:561`, `FinishedJobClosesStages`; no document promises that this stage
  ends);
* a failed investigation leaves no comment, and its entry in the router answers
  every redelivery with the failed job until the process restarts
  (`OneJobPerTicket`, `AnsweredTicketsSettle`), while `README.md:14` promises
  comments for completed tickets only;
* a run can be listed from its staging directory and then not be opened, for ever
  when the process stopped in between, and DELETE ignores such a directory
  (`ReadersSeeWholeRuns`); two DELETE requests can both fail and leave a
  directory without a manifest, which no later request removes
  (`ClearedRunsAreGone`);
* one Python file that links out of the worktree makes the listing raise
  (`RaiseOutside`).

## 5. Proofs

| Theorem | Module | Statement |
|---|---|---|
| `TypeCorrect` | `Investigation_proofs` | `Spec => []TypeOK` |
| `ReproducedMeans` | `Investigation_proofs` | the scorer says `REPRODUCED` exactly for a qualifying run confirmed by both replays |
| `GateImplemented` | `Investigation_proofs` | `Spec => ImplementsGate` |
| `VerdictSound`, `BundlesAreConsistent` | `Investigation_proofs` | `Spec => []ReproducedIffProven`, `[]BundleConsistent` |
| `AuditIsFaithful` | `Investigation_proofs` | `ReplaySpec => []FirstAttemptReplayable` |
| `LabelsAreTrue`, `FinishedJobsAreClosed` | `Investigation_proofs` | `ProgressSpec => []LabelsMatchPhase`, `[]FinishedJobClosesStages` |
| `RecoveredClaimsAgree`, `RecoveredClaimsExact`, `ClaimsAreDerived` | `SilentOutput_proofs` | `Spec => []RecoveredClaimsGround`, `[]RecoveredClaimsAreExact`, `[]ExpectationsAreDerived` |
| `TypeCorrect`, `WakeupsAreKept`, `DeliveryIsOnce` | `JobStream_proofs` | `Spec => []TypeOK`, `[]NoLostWakeup`, `[]DeliveryIsExact` |
| `TypeCorrect`, `ValidatedPlans`, `CorrectableRetries`, `OneAnswer`, `DoneOutlivesTheProcess` | `FixPreparation_proofs` | `Spec => []TypeOK`, `[]PlansAreValidated`, `[]RetriesAreCorrectable`, `[]AutonomousAnswered`, `DoneSurvivesRestart` |
| `TypeCorrect`, `RecordedPlansStay`, `PullsAreValidated`, `DoneJobsAreSettled`, `OpenStaysShown`, `Refinement` | `Publication_proofs` | `Spec => []TypeOK`, `[]NeverRepublished`, `[]PullCarriesValidatedPlan`, `[]DoneIsSettled`, `OpenPullRequestStaysShown`, `ImplementsPublishOnce` |
| `TypeCorrect`, `OneJobForEachTicket`, `ConsentIsCaptured`, `AcknowledgedTicketsExist`, `Refinement` | `JiraIntake_proofs` | `Spec => []TypeOK`, `[]OneJobPerTicket`, `[]ConsentAtIntake`, `[]AnsweredTicketHasJob`, `ImplementsTicketWorkflow` |
| `TypeCorrect`, `WholeRunsOnly`, `ClearedRunsCounted`, `Refinement` | `RunStore_proofs` | `Spec => []TypeOK`, `[]ReadersSeeWholeRuns`, `[]ClearedRunsAreGone`, `ImplementsRunHistory` |
| `CapKeptAndFilled`, `ContractsBeforeOthers` | `RepositoryContext_proofs` | `Spec => []ContextFillsItsCap`, `[]ContractsComeFirst` |

With them, every invariant of a passing run and every action property and
refinement is proved. Each theorem holds for every value of the constants that
satisfies the assumptions its module states or inherits: sets may be of any
size, infinite ones included, and every bound any number. The one exception is
the number of DELETE requests, which has to be finite, because what they
report is added up. The assumptions say otherwise that constants have their types,
that budgets are positive, and that a placeholder is no real value (`None` is
neither a signature, nor a mismatch, nor evidence, nor a verdict in
`Investigation`, no value a product answers with in `SilentOutput`, and no plan
or commit in `Publication`; `Manual` is no issue in `JiraIntake`).

Every proof of a state property has the same shape: an inductive invariant,
`IInv` in most modules, a conjunction of named parts, holds at the start, is
kept by each action (one lemma or one case per action, gathered in `InvNext`),
and implies what the run checks. What had to be added to make it inductive is
the content:

*`Investigation`.* `TypeOK` alone is not inductive because the last candidate is
read from a sequence that must not be empty, and the evidence of the attempt must
be there when it is scored (`TypeInv`); the range of the score is a lemma about
`Points`. The refinement needs to know what the scorer does: `ReproducedMeans`
follows from the rubric by cases, and the rest says that the number of agreeing
runs changes as the abstract gate allows. `ReproducedIffProven` speaks about the
whole evidence of a returned bundle, while each step sees the attempt in
progress: `ProofInv` says that evidence of earlier attempts contains no proof,
that the current run and replays are the tail of the list, and that a returned
verdict stands; `ProofAppend` and `ProofPair` say what appending does to the
existence of a proof. `BundleConsistent` compares cardinalities of sets of
positions: `CountInv` gives each of them as a number of attempts at every stage,
`PairInv` exempts the candidate run whose replays are under way, and
`CandidateCounts` and `ReplaysCount` say what one recorded run or pair adds.

*The audit and the reporter.* Both extend `Investigation`, each of their steps
is one of its steps or leaves it alone, and so its invariants carry over. The
audit reads the first record; that this is a candidate run is an invariant
(`FirstIsCandidate`), and that in a bundle of one candidate it is the proven one
follows from the counts of `BundleConsistent` (`ProofIsFirst`). A report is made
of two runs of the returned bundle, which does not change after it
(`ReportMade`). The reporter's counters are tied to the position in the loop
(`LabelInv`). `StepInv` places the steps of the job's thread: the checkout comes
before the orchestrator's first step, the bundle after its last. Every stage but
two is emitted as it ends, so both lists of events grow alike: the verdict is
ended once, where no orchestrator step is left, and the clone is one open stage
exactly while `step` is `"cloning"` (`ClosingInv`, whose `Balanced` counts the
open clones). A job that ends does not move `step`, so what is left open is
the clone that failed and nothing else.

*`SilentOutput`.* A percentage coupon takes at most the whole subtotal
(`DiscountBounded`), so recovered inputs are in the oracle's range; with them the
two computations agree term by term for each policy, and no step changes the test
or the checkout (`TestFixed`). `ExpectationsAreDerived` needs to know where
evidence comes from: every recorded run is one of this test under the status its
claim was given (`EvidenceInv`), so a verified one contradicts a grounded claim
(`VerifiedIsGrounded`), and `REPRODUCED` means that both replays show the value
of the candidate run (`ReproducedAgrees`), whatever the score.
`RecoveredClaimsAreExact` is about the product's answers, which the evidence does
not hold: each record is what the answer to that run left behind (`AnswersInv`),
and what a run shows of an answer is decided case by case (`RunShows`). That
the oracle expects what a product that follows the contracts answers
(`RecoveredExpects`) is where two differently written computations meet. For
shipping, the oracle's chain of comparisons picks the best of the tiers
an order has reached (`BestTier`); for tax, both are the same sum unless the
order earns an incentive.

*`JobStream`.* The parts relate the worker's position to the snapshot's status
and the shape of the log (the last two events, once it is final), each client's
cursor to what it has received and to the batch under way, and a stream that
ended or is about to, to the status it has read. No lost wakeup then says that
whoever changes the predicate holds the lock a waiting stream released.

*`FixPreparation`.* The parts say how the registry, the queue and the thread
share the jobs, what the thread's position means (`passed` holds the gates before
it; after the writing of the plan the newest plan is its own), which jobs that
are done have a plan on disk, and that each autonomous run has exactly one of: a
hand-over to come, a job at work, an answer, or the excuse of a shutdown.

*`Publication`.* A plan announced in a record or link has its pull request open
(`AnnounceInv`); two publishers of one run only meet on its branch, which holds
the commit of whoever is about to open the pull request, and keeps it once it is
open (`BranchInv`); what is queued, or with the thread before its pull request,
has no record, and what a request or hand-off is about to submit has none or has
a job that keeps it out (`RecordInv`); the thread's position says which comment
it has posted (`SettledInv`). `RefinesNext` maps opening to `Open`, recording
and linking to `Announce`, and everything else to a stutter. That a run stays
shown as it is follows from the records alone: none is ever taken back
(`RecordsStay`), and with the plans of the run unchanged the same plan goes on
speaking for it.

*`JiraIntake`.* The parts follow a ticket: the deliveries in flight, the handler
with the values of the switch since it read it, the router's entry and the one
job of its issue, the queue and the thread, and what a job's consent was taken
from. The refinement maps each issue to the phase of its job and needs all of
them: the thread's position decides which of two jobs of the abstraction moves.

*`RunStore`.* A run is published and whole until a DELETE touches it, directories
of published runs only shrink (`Grows`), and so a client half through a bundle
either saw it whole at its first file or misses a later one for good
(`ReaderIs`). That is why reading six files without a lock is enough. A DELETE
accounts for what it has counted, has under way and has before it (`DeleterIs`).
`ClearedRunsAreGone` adds who is responsible for what is left (`ClearInv`): a
request has touched every run it has behind it, and a touched run of which
something is left has a request at its files, or stopped or failed there. The
count is a sum over the requests. A run leaves the directory in the one step in
which one request counts it, and `CountsMove` says that a sum then grows by one;
whether the request goes on, fails or is stopped does not matter to it.

*`RepositoryContext`.* The state is simple, and the work is in the operators. Of
the loop, `TakeIs` says that what it took of the first `n` entries follows from
what it took of the first `n - 1`; `TakeKeepsTheBudget` that it stays within
budget and number, and that an entry is left out only if the number was reached
or the entry does not fit what was taken before it. The snippets are what the
loop took of some ranking (`TakenFrom`). Sums are independent of the order of
the terms (`UsedImage`), so the bytes of a set of files are those of their
ranks; a file left out was too large for the files taken before it, hence also
for all that were taken (`UsedGrows`), and for a contract source those before it
are contracts. `FirstFew` bounds the listing: positions with fewer than `n`
before them are at most `n`.

*Sums and loops.* The induction theorems of the library take an operator as a
parameter, which the provers cannot instantiate. `LeastNat` replaces them: a set
of numbers that is not empty has a least one, as the order of the naturals is
well-founded. `SubsetInduction` and `NatInduct` follow from it for *sets*: what
contains the empty set, and a finite set whenever it contains that set without
one element, contains all finite sets. That a fold over a finite set, or a
recursive function, exists and has the value its recursion says (`SumsExist`,
`TakingExists`) is proved with them. This works because both are functions;
nothing is proved about the fold of an arbitrary operation.

Only model-checked is liveness: `JobEnds`, `StreamEnds`, `ReconnectCompletes`,
`FixJobsSettle`, `JobsSettle` and `AnsweredTicketsSettle` rest on fairness,
which means `ENABLED`, and the prover does not treat it. The three runs that
refute a sentence are counterexamples and need no proof.

## 6. Not modelled

Text analysis has no state: prompts, parsing of model answers, signatures and
calls extracted from syntax trees, scoring of words, construction of a diff from
edits, path checks of a patch, parsing of tickets, of webhook payloads and their
signatures, of generated tests and of probe output. The models take its outcome
as an input. The wording of comments is left out as well; with it the pairing of
the last candidate with the first failure signature in the evidence comment
(`jira.py:239`), which is listed as a hazard.

Process and container handling inside the sandbox, the git commands of a checkout
and the HTTP calls of the model, GitHub and Jira clients are modelled by their outcomes. The
model client (`agent/client.py`) is the environment of `Investigation`. The
gateway's validation of its upstream address at startup has no state. The demo,
viewer, browser code and scripts render or call the components once.

## 7. Plan

1. The pipeline as a composition of `JiraIntake`, `FixPreparation` and
   `Publication` in one module, with the abstract workflow of a ticket extended
   to its pull request. The three share the executors' shutdown and the hand-offs
   `handed`/`handover` and `answered`/`handoff`; today each hand-off is modelled
   in the module it leaves and in the one it enters. The product of the three
   state spaces calls for a coarser publication first.
2. Proofs: what a pass through the composed pipeline keeps, from the invariants of
   its parts; the facts about sums that `RunStore_proofs` and
   `RepositoryContext_proofs` both derive, in one module.
3. The choice of a candidate and a signature by position, in the one reader of a
   bundle that is not modelled: the evidence comment.

---------------------------- MODULE Publication ----------------------------
(***************************************************************************)
(* Publication of validated plans as draft pull requests: the HTTP         *)
(* handler, the YOLO hand-off, the publication registry and its one-thread *)
(* executor (bugagent/api.py, publish_jobs.py), the publisher              *)
(* (bugagent/fix.py), the command-line publisher, and what they write to:  *)
(* GitHub, the records on disk and Jira.  The API process may stop at any  *)
(* step and restart with empty registries; files and GitHub stay.          *)
(***************************************************************************)
EXTENDS Integers, Sequences, FiniteSets

CONSTANTS
  Plans,       \* plan identifiers
  RunOf,       \* the run a plan was prepared for; its branch is named after it
  RunCommit,   \* the base commit each run was reproduced and validated on
  Autonomous,  \* plans prepared by a YOLO job
  FromJira,    \* plans whose ticket is an issue of a configured project
  Clients,     \* concurrent HTTP publication requests
  None,        \* Python's None
  MaxMoves,    \* bound: commits that move the base branch
  MaxStops     \* bound: stops of the API process

RunIds == { RunOf[p] : p \in Plans }

ASSUME PublicationAssumption ==
  /\ RunOf \in [Plans -> RunIds]
  /\ RunCommit \in [RunIds -> 0..MaxMoves]
  /\ Autonomous \subseteq Plans /\ FromJira \subseteq Plans
  /\ None \notin Plans \cup [plan : Plans, parent : Nat]
  /\ MaxMoves \in Nat /\ MaxStops \in Nat

VARIABLES
  \* on disk
  prepared,     \* plans whose file is written
  record,       \* jira_comment status of each publication record, "none" before
  bundles,      \* runs whose evidence bundle is stored
  \* on GitHub and in Jira
  base,         \* head of the base branch, counted in commits
  branch,       \* each run's head branch: None or its [plan, parent] commit
  pulls,        \* plans of the opened pull requests, in order
  links,        \* plans whose pull request is linked from Jira
  denials,      \* plans whose issue was told that no draft PR was created
  \* in the API process
  handoff,      \* autonomous plans the fix worker has yet to hand off
  request,      \* plan each client's handler has checked, None if none
  job,          \* publication job of each plan
  byYolo,       \* plans whose job was queued by the YOLO hand-off
  queue,        \* plans submitted to the publication executor
  publisher,    \* [plan, step, parent, comment] of each publisher
  stops         \* history: stops of the API process

disk   == <<prepared, record, bundles>>
remote == <<base, branch, pulls, links, denials>>
memory == <<handoff, request, job, byYolo, queue>>
vars   == <<disk, remote, memory, publisher, stops>>

Actors == {"api", "cli"}
Idle == [plan |-> None, step |-> "idle", parent |-> 0, comment |-> "pending"]

Init ==
  /\ prepared = {}
  /\ record = [p \in Plans |-> "none"]
  /\ bundles = RunIds
  /\ base = 0
  /\ branch = [r \in RunIds |-> None]
  /\ pulls = <<>>
  /\ links = {} /\ denials = {}
  /\ handoff = {}
  /\ request = [c \in Clients |-> None]
  /\ job = [p \in Plans |-> "none"]
  /\ byYolo = {}
  /\ queue = <<>>
  /\ publisher = [a \in Actors |-> Idle]
  /\ stops = 0

-----------------------------------------------------------------------------
(* Around publication: plans are prepared, the base branch moves, the demo
   history is cleared.  A fix job of the API requires the branch to be at the
   reproduced commit; the prepare-pr command does not look at the branch. *)
PreparePlan(p) ==
  /\ p \notin prepared
  /\ RunOf[p] \in bundles
  /\ p \in Autonomous => base = RunCommit[RunOf[p]]
  /\ prepared' = prepared \cup {p}
  /\ handoff' = IF p \in Autonomous THEN handoff \cup {p} ELSE handoff
  /\ UNCHANGED <<record, bundles, remote, request, job, byYolo, queue, publisher, stops>>

MoveBase ==
  /\ base < MaxMoves
  /\ base' = base + 1
  /\ UNCHANGED <<disk, branch, pulls, links, denials, memory, publisher, stops>>

ClearRuns ==
  /\ bundles # {}
  /\ bundles' = {}
  /\ UNCHANGED <<prepared, record, remote, memory, publisher, stops>>

-----------------------------------------------------------------------------
Submit(p, yolo) ==
  /\ job' = [job EXCEPT ![p] = "queued"]
  /\ queue' = Append(queue, p)
  /\ byYolo' = IF yolo THEN byYolo \cup {p} ELSE byYolo

(* Mutations: every request gets a job; a job that ended may be repeated. *)
CreateAndSubmit_Always(p, yolo)   == Submit(p, yolo)
CreateAndSubmit_AfterEnd(p, yolo) ==
  IF job[p] \in {"none", "done", "failed"} THEN Submit(p, yolo)
                                           ELSE UNCHANGED <<job, queue, byYolo>>

(* PublicationJobRegistry.create under its lock, and the submission: a plan
   gets a job only if it has none, whatever became of that job. *)
CreateAndSubmit(p, yolo) ==
  IF job[p] = "none" THEN Submit(p, yolo) ELSE UNCHANGED <<job, queue, byYolo>>

(* POST .../publish, first half: read the plan, refuse a recorded one. *)
CheckRequest(c, p) ==
  /\ request[c] = None
  /\ p \in prepared
  /\ record[p] = "none"
  /\ request' = [request EXCEPT ![c] = p]
  /\ UNCHANGED <<disk, remote, handoff, job, byYolo, queue, publisher, stops>>

(* Second half: the bundle is still stored; create the job. *)
AcceptRequest(c) ==
  /\ request[c] # None
  /\ RunOf[request[c]] \in bundles
  /\ CreateAndSubmit(request[c], FALSE)
  /\ request' = [request EXCEPT ![c] = None]
  /\ UNCHANGED <<disk, remote, handoff, publisher, stops>>

RefuseRequest(c) ==
  /\ request[c] # None
  /\ RunOf[request[c]] \notin bundles
  /\ request' = [request EXCEPT ![c] = None]
  /\ UNCHANGED <<disk, remote, handoff, job, byYolo, queue, publisher, stops>>

(* _queue_yolo_publication, called once the fix job is done. *)
HandOff(p) ==
  /\ p \in handoff
  /\ handoff' = handoff \ {p}
  /\ CreateAndSubmit(p, TRUE)
  /\ UNCHANGED <<disk, remote, request, publisher, stops>>

-----------------------------------------------------------------------------
(* The publishers: the executor's thread and the command line. *)

At(a, step)   == publisher[a].step = step
PlanOf(a)     == publisher[a].plan
BranchOf(a)   == RunOf[PlanOf(a)]
Go(a, step)   == publisher' = [publisher EXCEPT ![a].step = step]
HasPull(r)    == \E i \in DOMAIN pulls : RunOf[pulls[i]] = r

StartJob ==
  /\ At("api", "idle") /\ queue # <<>>
  /\ publisher' = [publisher EXCEPT !["api"] = [Idle EXCEPT !.plan = Head(queue), !.step = "clone"]]
  /\ queue' = Tail(queue)
  /\ job' = [job EXCEPT ![Head(queue)] = "running"]
  /\ UNCHANGED <<disk, remote, handoff, request, byYolo, stops>>

StartCommand(p) ==
  /\ At("cli", "idle") /\ p \in prepared
  /\ publisher' = [publisher EXCEPT !["cli"] = [Idle EXCEPT !.plan = p, !.step = "clone"]]
  /\ UNCHANGED <<disk, remote, memory, stops>>

(* Clone the base branch, compare its head with the plan's base commit and
   commit the regression test and the patch on top of it. *)
CloneAndCommit(a) ==
  /\ At(a, "clone")
  /\ publisher' = [publisher EXCEPT ![a] =
       IF base = RunCommit[BranchOf(a)] THEN [@ EXCEPT !.step = "push", !.parent = base]
                                       ELSE [@ EXCEPT !.step = "failed"]]
  /\ UNCHANGED <<disk, remote, memory, stops>>

Commit(a) == [plan |-> PlanOf(a), parent |-> publisher[a].parent]

SetBranch(a) ==
  /\ branch' = [branch EXCEPT ![BranchOf(a)] = Commit(a)]
  /\ Go(a, "open") \/ Go(a, "failed")
  /\ UNCHANGED <<disk, base, pulls, links, denials, memory, stops>>

(* Mutation: the push is forced. *)
Push_Forced(a) == At(a, "push") /\ SetBranch(a)

(* Push without force: a new branch is created; an existing one is only
   accepted when it is the identical commit.  The push may reach GitHub
   although Git reports a failure. *)
Push(a) == At(a, "push") /\ branch[BranchOf(a)] \in {None, Commit(a)} /\ SetBranch(a)

(* GitHub opens one pull request per head branch; its answer may be lost or
   unreadable after it has. *)
OpenPull(a) ==
  /\ At(a, "open")
  /\ ~HasPull(BranchOf(a))
  /\ pulls' = Append(pulls, PlanOf(a))
  /\ Go(a, "opened") \/ Go(a, "failed")
  /\ UNCHANGED <<disk, base, branch, links, denials, memory, stops>>

(* Any Git command or the API call fails without effect; a rejected push of
   a diverging commit and a second pull request for a branch are such. *)
FailPublishing(a) ==
  /\ publisher[a].step \in {"clone", "push", "open"}
  /\ Go(a, "failed")
  /\ UNCHANGED <<disk, remote, memory, stops>>

EndCommand ==
  /\ publisher["cli"].step \in {"opened", "failed"}
  /\ publisher' = [publisher EXCEPT !["cli"] = Idle]
  /\ UNCHANGED <<disk, remote, memory, stops>>

-----------------------------------------------------------------------------
(* The rest of _run_publication_job.  Records are replaced atomically. *)

WriteRecord(status, next) ==
  /\ record' = [record EXCEPT ![PlanOf("api")] = status]
  /\ Go("api", next)
  /\ UNCHANGED <<prepared, bundles, remote, memory, stops>>

(* Mutations: the record is written once the branch is pushed; the first
   record is taken for the last. *)
RecordPending_Early == publisher["api"].step \in {"open", "opened"} /\ WriteRecord("pending", "link")
RecordPending_Only  == At("api", "opened") /\ WriteRecord("pending", "recorded")

RecordPending == At("api", "opened") /\ WriteRecord("pending", "link")

(* The Jira link: posted, not applicable, or failed, in which case the
   comment may still have reached Jira. *)
LinkFromJira ==
  LET p == PlanOf("api")
      outcome(s) == publisher' = [publisher EXCEPT !["api"].step = "settle", !["api"].comment = s]
  IN /\ At("api", "link")
     /\ \/ p \notin FromJira /\ outcome("not_applicable") /\ UNCHANGED links
        \/ p \in FromJira /\ outcome("posted") /\ links' = links \cup {p}
        \/ p \in FromJira /\ outcome("failed") /\ links' \in {links, links \cup {p}}
     /\ UNCHANGED <<disk, base, branch, pulls, denials, memory, stops>>

RecordSettled == At("api", "settle") /\ WriteRecord(publisher["api"].comment, "recorded")

(* Mutation: the record is truncated and written in place. *)
FailToRecord_InPlace ==
  /\ publisher["api"].step \in {"opened", "settle"}
  /\ WriteRecord("none", "failed")

(* Writing a record raises OSError. *)
FailToRecord ==
  /\ publisher["api"].step \in {"opened", "settle"}
  /\ Go("api", "failed")
  /\ UNCHANGED <<disk, remote, memory, stops>>

MarkDone ==
  /\ At("api", "recorded")
  /\ job' = [job EXCEPT ![PlanOf("api")] = "done"]
  /\ publisher' = [publisher EXCEPT !["api"] = Idle]
  /\ UNCHANGED <<disk, remote, handoff, request, byYolo, queue, stops>>

Deny(p) ==
  /\ At("api", "failed")
  /\ denials' \in IF p \in byYolo THEN {denials, denials \cup {p}} ELSE {denials}
  /\ publisher' = [publisher EXCEPT !["api"] = Idle]
  /\ UNCHANGED <<disk, base, branch, pulls, links, handoff, request, byYolo, queue, stops>>

(* Mutation: a failure is commented on but not recorded in the job. *)
MarkFailed_CommentOnly == Deny(PlanOf("api")) /\ UNCHANGED job

(* mark_failed; a YOLO job also tells the issue, unless Jira fails too. *)
MarkFailed == Deny(PlanOf("api")) /\ job' = [job EXCEPT ![PlanOf("api")] = "failed"]

(* The API process stops and is started again with empty registries. *)
Restart ==
  /\ stops < MaxStops
  /\ stops' = stops + 1
  /\ handoff' = {}
  /\ request' = [c \in Clients |-> None]
  /\ job' = [p \in Plans |-> "none"]
  /\ byYolo' = {}
  /\ queue' = <<>>
  /\ publisher' = [publisher EXCEPT !["api"] = Idle]
  /\ UNCHANGED <<disk, remote>>

(* The status shown for a run (_fix_status_for_run): of its plans on disk, the
   one whose identifier sorts last speaks for it.  Identifiers are random, so
   rank may be any order of the plans. *)
PlansOf(r) == { p \in prepared : RunOf[p] = r }
SpeaksFor(p, r, rank) == p \in PlansOf(r) /\ \A q \in PlansOf(r) : rank[q] <= rank[p]
ShownStatus(r, rank) ==
  IF \E p \in prepared : record[p] # "none" /\ SpeaksFor(p, r, rank) THEN "DRAFT_PR_OPEN"
  ELSE IF PlansOf(r) # {} THEN "FIX_VALIDATED" ELSE "none"

Publisher(a) == CloneAndCommit(a) \/ Push(a) \/ OpenPull(a) \/ FailPublishing(a)

ApiWorker == StartJob \/ Publisher("api") \/ RecordPending \/ LinkFromJira
             \/ RecordSettled \/ FailToRecord \/ MarkDone \/ MarkFailed

Next ==
  \/ \E p \in Plans : PreparePlan(p) \/ HandOff(p) \/ StartCommand(p)
  \/ \E c \in Clients, p \in Plans : CheckRequest(c, p)
  \/ \E c \in Clients : AcceptRequest(c) \/ RefuseRequest(c)
  \/ ApiWorker \/ Publisher("cli") \/ EndCommand
  \/ MoveBase \/ ClearRuns \/ Restart

(* Git, GitHub and Jira calls time out, so the executor's thread goes on. *)
Spec == Init /\ [][Next]_vars /\ WF_vars(ApiWorker)

-----------------------------------------------------------------------------
PublisherState ==
  [ plan    : Plans \cup {None},
    step    : {"idle", "clone", "push", "open", "opened", "link", "settle", "recorded", "failed"},
    parent  : Nat,
    comment : {"pending", "posted", "failed", "not_applicable"} ]

(* Every variable has its type, and a plan waits in the executor's queue
   exactly while its job is queued, once (api.py, publish_jobs.py). *)
TypeOK ==
  /\ prepared \subseteq Plans
  /\ record \in [Plans -> {"none", "pending", "posted", "failed", "not_applicable"}]
  /\ bundles \subseteq RunIds
  /\ base \in 0..MaxMoves
  /\ branch \in [RunIds -> [plan : Plans, parent : Nat] \cup {None}]
  /\ pulls \in Seq(Plans)
  /\ links \subseteq Plans /\ denials \subseteq Plans
  /\ handoff \subseteq Autonomous
  /\ request \in [Clients -> Plans \cup {None}]
  /\ job \in [Plans -> {"none", "queued", "running", "done", "failed"}]
  /\ byYolo \subseteq Autonomous
  /\ queue \in Seq({ p \in Plans : job[p] = "queued" })
  /\ \A p \in Plans : job[p] = "queued" => \E i \in DOMAIN queue : queue[i] = p
  /\ publisher \in [Actors -> PublisherState]
  /\ stops \in 0..MaxStops

(* A plan with a publication record is never published again by the API,
   although the handler reads the records before it creates the job and the
   hand-off does not read them at all: the registry closes the gap. *)
NeverRepublished ==
  /\ \A p \in Plans : job[p] = "queued" => record[p] = "none"
  /\ publisher["api"].step \in {"clone", "push", "open"} => record[PlanOf("api")] = "none"

(* Whatever two publishers of one run do to each other, every opened pull
   request shows the plan it was opened for, committed on the base commit
   that plan was validated against (PullRequestPublisher.publish). *)
PullCarriesValidatedPlan ==
  \A i \in DOMAIN pulls :
    branch[RunOf[pulls[i]]] = [plan |-> pulls[i], parent |-> RunCommit[RunOf[pulls[i]]]]

(* A job is shown as done only with its pull request open and its record
   carrying the final outcome of the Jira comment; a comment recorded as
   posted is in Jira (_run_publication_job). *)
DoneIsSettled ==
  \A p \in Plans :
    /\ job[p] = "done" => record[p] \notin {"none", "pending"} /\ \E i \in DOMAIN pulls : pulls[i] = p
    /\ record[p] = "posted" => p \in links

(* A queued publication ends, done or failed, unless the API stops. *)
JobsSettle ==
  \A p \in Plans : job[p] = "queued" ~> job[p] \in {"done", "failed", "none"}

Promise == INSTANCE PublishOnce WITH
             announced <- { p \in Plans : record[p] # "none" } \cup links

(* At most one pull request per run, and announcements only of opened ones,
   through every race, retry and restart. *)
ImplementsPublishOnce == Promise!Spec

Ranks == { rank \in [Plans -> 1..Cardinality(Plans)] : \A p, q \in Plans : rank[p] = rank[q] => p = q }

(* A run that is shown with its draft pull request open stays so, through
   failed writes of the record, cleared bundles and restarts; only a further
   plan of the same run can hide it, which the order of the identifiers
   decides and not "the highest persisted state" (_fix_status_for_run). *)
OpenPullRequestStaysShown ==
  [][ \A p \in prepared : record[p] # "none" =>
        LET r == RunOf[p]
        IN \A rank \in Ranks :
             SpeaksFor(p, r, rank) => ShownStatus(r, rank)' = "DRAFT_PR_OPEN" \/ PlansOf(r)' # PlansOf(r) ]_vars

(* What the program and its documents say, each checked against the code. *)

(* "No draft pull request was created by this run." (the comment
   _post_yolo_failure_comment leaves on the issue, api.py) *)
FailureCommentTrue == \A p \in denials : ~HasPull(RunOf[p])
=============================================================================

----------------------------- MODULE JiraIntake -----------------------------
(***************************************************************************)
(* Jira tickets from the webhook to the end of their investigation: Jira   *)
(* and the forwarding gateway (bugagent/jira_gateway.py), the webhook      *)
(* handler and its de-duplication (jira_api.py, jira.py), the YOLO switch, *)
(* the one-thread executor's job with its evidence comment, and the        *)
(* decision to continue into a fix (api.py).                               *)
(*                                                                         *)
(* Modelled failures: a forwarded request that outlives the gateway's      *)
(* timeout, redelivery, requests handled out of order, comments that do    *)
(* not reach Jira, a cleared store, a shutdown that lets queued work run,  *)
(* and a process that stops at any step and restarts empty.                *)
(***************************************************************************)
EXTENDS Integers, Sequences, FiniteSets

CONSTANTS
  Issues,       \* Jira issues
  Mapped,       \* issues of a configured project
  Publishable,  \* those whose project is a GitHub repository open to publication
  Manual,       \* the source of an investigation that no issue started
  MaxSends,     \* bound: deliveries Jira tries for each issue
  MaxManual,    \* bound: manual investigations of one process
  MaxToggles,   \* bound: changes of the YOLO switch
  MaxStops      \* bound: stops of the process

ASSUME JiraIntakeAssumption ==
  /\ Mapped \subseteq Issues /\ Publishable \subseteq Mapped
  /\ Manual \notin Issues
  /\ MaxSends \in [Issues -> Nat]
  /\ MaxManual \in Nat /\ MaxToggles \in Nat /\ MaxStops \in Nat

VARIABLES
  \* Jira and the gateway
  sends,      \* deliveries tried for each issue
  waiting,    \* issues whose last delivery the gateway is still waiting for
  settled,    \* 1 + the life of the process in which Jira got the answer that
              \* ends the deliveries of an issue, 0 before
  comments,   \* the comments on each issue
  \* the process
  requests,   \* forwarded requests the API has not handled: [issue, send]
  handler,    \* the webhook handler: NoRequest or [request, consent, seen];
              \* seen is history, the values of the switch since it was read
  yolo,       \* AutonomousPublishMode
  issueJobs,  \* JiraWebhookRouter._issue_jobs, 0 for none
  jobs,       \* the registry: [source, consent, seen, status, reproduced]
  queue,      \* jobs submitted to the executor
  worker,     \* [job, pc] of the executor's thread
  stored,     \* is the bundle of the thread's job in the run store
  handed,     \* jobs continued with a fix job
  stopped,    \* jobs whose issue was told that the workflow stopped
  accepting,  \* is the application serving
  toggles,    \* history: changes of the switch
  stops       \* history: stops of the process

jira   == <<sends, waiting, settled>>
intake == <<requests, handler, yolo, issueJobs>>
work   == <<jobs, queue, worker, stored, handed, stopped>>
vars   == <<jira, comments, intake, work, accepting, toggles, stops>>

NoRequest == [request |-> [issue |-> Manual, send |-> 0], consent |-> FALSE, seen |-> {}]
Idle == [job |-> 0, pc |-> "idle"]

Init ==
  /\ sends = [i \in Issues |-> 0]
  /\ waiting = {}
  /\ settled = [i \in Issues |-> 0]
  /\ comments = [i \in Issues |-> <<>>]
  /\ requests = {} /\ handler = NoRequest
  /\ yolo = FALSE
  /\ issueJobs = [i \in Issues |-> 0]
  /\ jobs = <<>> /\ queue = <<>> /\ worker = Idle
  /\ stored = FALSE /\ handed = {} /\ stopped = {}
  /\ accepting = TRUE
  /\ toggles = 0 /\ stops = 0

-----------------------------------------------------------------------------
(* Jira and the gateway. *)

(* Jira delivers issue_created until it gets an answer; the gateway forwards
   it, and reports 503 itself when nothing listens. *)
Send(i) ==
  /\ settled[i] = 0 /\ i \notin waiting /\ sends[i] < MaxSends[i]
  /\ sends' = [sends EXCEPT ![i] = @ + 1]
  /\ IF accepting THEN /\ requests' = requests \cup {[issue |-> i, send |-> sends[i] + 1]}
                       /\ waiting' = waiting \cup {i}
                  ELSE UNCHANGED <<requests, waiting>>
  /\ UNCHANGED <<settled, comments, handler, yolo, issueJobs, work, accepting, toggles, stops>>

(* The gateway stops waiting after 15 seconds and answers with an error; the
   API may still handle the request. *)
GatewayTimeout(i) ==
  /\ i \in waiting
  /\ waiting' = waiting \ {i}
  /\ UNCHANGED <<sends, settled, comments, intake, work, accepting, toggles, stops>>

(* The API's answer reaches Jira if the gateway is still waiting for it. *)
Answer(r) ==
  IF r.issue \in waiting /\ r.send = sends[r.issue]
  THEN /\ waiting' = waiting \ {r.issue}
       /\ settled' = [settled EXCEPT ![r.issue] = stops + 1]
  ELSE UNCHANGED <<waiting, settled>>

-----------------------------------------------------------------------------
(* receive_jira_webhook.  It runs on the event loop without a pause from
   reading the switch to its answer, so one handler at a time is in between;
   the handler that sets the switch runs in a thread of its own. *)

(* An issue of a project that is not configured: 422. *)
Refuse(r) ==
  /\ accepting /\ handler = NoRequest
  /\ r \in requests /\ r.issue \notin Mapped
  /\ requests' = requests \ {r}
  /\ Answer(r)
  /\ UNCHANGED <<sends, comments, handler, yolo, issueJobs, work, accepting, toggles, stops>>

(* Mutation: the delivery is acknowledged before its job exists. *)
ReadConsent_Answers(r) ==
  /\ accepting /\ handler = NoRequest
  /\ r \in requests /\ r.issue \in Mapped
  /\ requests' = requests \ {r}
  /\ handler' = [request |-> r, consent |-> yolo, seen |-> {yolo}]
  /\ Answer(r)
  /\ UNCHANGED <<sends, comments, yolo, issueJobs, work, accepting, toggles, stops>>

(* The signature and the payload are good: capture the consent. *)
ReadConsent(r) ==
  /\ accepting /\ handler = NoRequest
  /\ r \in requests /\ r.issue \in Mapped
  /\ requests' = requests \ {r}
  /\ handler' = [request |-> r, consent |-> yolo, seen |-> {yolo}]
  /\ UNCHANGED <<jira, comments, yolo, issueJobs, work, accepting, toggles, stops>>

Job(source, consent, seen) ==
  [source |-> source, consent |-> consent, seen |-> seen, status |-> "queued", reproduced |-> FALSE]

(* enqueue: register the job and submit it. *)
Enqueue(job) ==
  /\ jobs' = Append(jobs, job)
  /\ queue' = Append(queue, Len(jobs) + 1)

(* Mutation: a delivery that finds a failed job starts another. *)
SubmitOnce_RetryFailed ==
  /\ handler # NoRequest
  /\ LET i == handler.request.issue
     IN IF issueJobs[i] # 0 /\ jobs[issueJobs[i]].status # "failed" THEN UNCHANGED <<jobs, queue, issueJobs>>
        ELSE /\ Enqueue(Job(i, handler.consent, handler.seen))
             /\ issueJobs' = [issueJobs EXCEPT ![i] = Len(jobs) + 1]
  /\ handler' = NoRequest
  /\ Answer(handler.request)
  /\ UNCHANGED <<sends, comments, requests, yolo, worker, stored, handed, stopped, accepting, toggles, stops>>

(* submit_once, and the 202. *)
SubmitOnce ==
  /\ handler # NoRequest
  /\ LET i == handler.request.issue
     IN IF issueJobs[i] # 0 THEN UNCHANGED <<jobs, queue, issueJobs>>
        ELSE /\ Enqueue(Job(i, handler.consent, handler.seen))
             /\ issueJobs' = [issueJobs EXCEPT ![i] = Len(jobs) + 1]
  /\ handler' = NoRequest
  /\ Answer(handler.request)
  /\ UNCHANGED <<sends, comments, requests, yolo, worker, stored, handed, stopped, accepting, toggles, stops>>

(* PUT /automation/yolo, confirmed where it must be. *)
SetYolo ==
  /\ accepting /\ toggles < MaxToggles
  /\ toggles' = toggles + 1
  /\ yolo' = ~yolo
  /\ handler' = IF handler = NoRequest THEN handler ELSE [handler EXCEPT !.seen = @ \cup {~yolo}]
  /\ UNCHANGED <<jira, comments, requests, issueJobs, work, accepting, stops>>

(* POST /investigations. *)
StartInvestigation ==
  /\ accepting
  /\ Cardinality({ j \in DOMAIN jobs : jobs[j].source = Manual }) < MaxManual
  /\ Enqueue(Job(Manual, FALSE, {}))
  /\ UNCHANGED <<jira, comments, intake, worker, stored, handed, stopped, accepting, toggles, stops>>

-----------------------------------------------------------------------------
(* The executor's thread: _run_job. *)

At(pc) == worker.pc = pc
Go(pc) == worker' = [worker EXCEPT !.pc = pc]
Current == jobs[worker.job]
Outside == <<jira, intake, accepting, toggles, stops>>

(* Mutation: the job's entry stays in the queue. *)
StartJob_Peek ==
  /\ At("idle") /\ queue # <<>>
  /\ worker' = [job |-> Head(queue), pc |-> "run"]
  /\ jobs' = [jobs EXCEPT ![Head(queue)].status = "running"]
  /\ UNCHANGED <<Outside, comments, queue, stored, handed, stopped>>

StartJob ==
  /\ At("idle") /\ queue # <<>>
  /\ worker' = [job |-> Head(queue), pc |-> "run"]
  /\ queue' = Tail(queue)
  /\ jobs' = [jobs EXCEPT ![Head(queue)].status = "running"]
  /\ UNCHANGED <<Outside, comments, stored, handed, stopped>>

(* The checkout and the investigation; the live runner stores the bundle. *)
Investigate ==
  /\ At("run")
  /\ \E reproduced \in BOOLEAN : jobs' = [jobs EXCEPT ![worker.job].reproduced = reproduced]
  /\ stored' = TRUE
  /\ Go(IF Current.source = Manual THEN "finish" ELSE "comment")
  /\ UNCHANGED <<Outside, comments, queue, handed, stopped>>

(* Mutation: the exception ends the thread's job, not the registry's. *)
MarkFailed_ThreadOnly ==
  /\ At("run")
  /\ worker' = Idle
  /\ UNCHANGED <<Outside, comments, jobs, queue, stored, handed, stopped>>

(* Either raised: mark_failed, and nothing is said to Jira. *)
MarkFailed ==
  /\ At("run")
  /\ jobs' = [jobs EXCEPT ![worker.job].status = "failed"]
  /\ worker' = Idle
  /\ UNCHANGED <<Outside, comments, queue, stored, handed, stopped>>

(* post_comment: Jira takes it, or refuses it or cannot be reached. *)
Post(what) == comments' \in {comments, [comments EXCEPT ![Current.source] = Append(@, what)]}

(* Mutation: a comment that fails ends the callback. *)
PostEvidence_Raises ==
  /\ At("comment")
  /\ Post("evidence")
  /\ Go(IF comments' = comments THEN "finish" ELSE "continue")
  /\ UNCHANGED <<Outside, jobs, queue, stored, handed, stopped>>

PostEvidence ==
  /\ At("comment")
  /\ Post("evidence")
  /\ Go("continue")
  /\ UNCHANGED <<Outside, jobs, queue, stored, handed, stopped>>

(* Mutation: the switch is read when the investigation has ended. *)
Wanted_Now == yolo /\ Current.reproduced

(* _continue_yolo_from_jira. *)
Wanted == Current.consent /\ Current.reproduced
Possible == Current.source \in Publishable /\ stored /\ accepting

SkipYolo ==
  /\ At("continue") /\ ~Wanted
  /\ Go("finish")
  /\ UNCHANGED <<Outside, comments, jobs, queue, stored, handed, stopped>>

TellStopped ==
  /\ At("continue") /\ Wanted /\ ~Possible
  /\ Post("stopped")
  /\ stopped' = stopped \cup {worker.job}
  /\ Go("finish")
  /\ UNCHANGED <<Outside, jobs, queue, stored, handed>>

HandOver ==
  /\ At("continue") /\ Wanted /\ Possible
  /\ handed' = handed \cup {worker.job}
  /\ Go("finish")
  /\ UNCHANGED <<Outside, comments, jobs, queue, stored, stopped>>

MarkDone ==
  /\ At("finish")
  /\ jobs' = [jobs EXCEPT ![worker.job].status = "done"]
  /\ worker' = Idle
  /\ stored' = FALSE
  /\ UNCHANGED <<Outside, comments, queue, handed, stopped>>

Worker ==
  \/ StartJob \/ Investigate \/ MarkFailed \/ PostEvidence
  \/ SkipYolo \/ TellStopped \/ HandOver \/ MarkDone

-----------------------------------------------------------------------------
(* Around the jobs. *)

(* DELETE /runs, which no longer matters once the job has ended. *)
ClearRuns ==
  /\ stored /\ stored' = FALSE
  /\ UNCHANGED <<jira, comments, intake, jobs, queue, worker, handed, stopped, accepting, toggles, stops>>

(* The server finishes its requests and closes; what is queued still runs. *)
Close ==
  /\ accepting /\ stops < MaxStops
  /\ requests = {} /\ handler = NoRequest
  /\ accepting' = FALSE
  /\ UNCHANGED <<jira, comments, intake, work, toggles, stops>>

(* The process is gone, and started again. *)
Stop ==
  /\ stops < MaxStops /\ stops' = stops + 1
  /\ waiting' = {} /\ requests' = {} /\ handler' = NoRequest
  /\ yolo' = FALSE
  /\ issueJobs' = [i \in Issues |-> 0]
  /\ jobs' = <<>> /\ queue' = <<>> /\ worker' = Idle
  /\ stored' = FALSE /\ handed' = {} /\ stopped' = {}
  /\ accepting' = TRUE
  /\ UNCHANGED <<sends, settled, comments, toggles>>

Next ==
  \/ \E i \in Issues : Send(i) \/ GatewayTimeout(i)
  \/ \E r \in requests : Refuse(r) \/ ReadConsent(r)
  \/ SubmitOnce \/ SetYolo \/ StartInvestigation
  \/ Worker
  \/ ClearRuns \/ Close \/ Stop

(* Every step of a job is bounded by a timeout, so the thread goes on. *)
Spec == Init /\ [][Next]_vars /\ WF_vars(Worker)

-----------------------------------------------------------------------------
SentRequest(r) == r \in [issue : Issues, send : Nat] /\ r.send \in 1..sends[r.issue]

(* Every variable has its type, and a job is in one place: in the queue once,
   with the thread, or ended. *)
TypeOK ==
  /\ \A i \in Issues : sends[i] \in 0..MaxSends[i]
  /\ waiting \subseteq Issues
  /\ settled \in [Issues -> 0..MaxStops + 1]
  /\ comments \in [Issues -> Seq({"evidence", "stopped"})]
  /\ \A r \in requests : SentRequest(r)
  /\ handler = NoRequest \/ ( /\ SentRequest(handler.request) /\ handler.request.issue \in Mapped
                                /\ handler.seen \subseteq BOOLEAN /\ handler.consent \in handler.seen )
  /\ yolo \in BOOLEAN
  /\ issueJobs \in [Issues -> 0..Len(jobs)]
  /\ jobs \in Seq([ source : Mapped \cup {Manual}, consent : BOOLEAN, seen : SUBSET BOOLEAN,
                    status : {"queued", "running", "done", "failed"}, reproduced : BOOLEAN ])
  /\ queue \in Seq({ j \in DOMAIN jobs : jobs[j].status = "queued" })
  /\ \A a, b \in DOMAIN queue : queue[a] = queue[b] => a = b
  /\ worker \in [job : 0..Len(jobs), pc : {"idle", "run", "comment", "continue", "finish"}]
  /\ \A j \in DOMAIN jobs : jobs[j].status = "running" <=> ~At("idle") /\ j = worker.job
  /\ stored \in BOOLEAN
  /\ handed \cup stopped \subseteq DOMAIN jobs
  /\ accepting \in BOOLEAN
  /\ toggles \in 0..MaxToggles /\ stops \in 0..MaxStops

(* A ticket has one job, however often, late or out of order its deliveries
   are handled, and the router knows it: "de-duplicates repeat delivery for
   that Jira issue for the life of the process" (docs/architecture.md). *)
OneJobPerTicket ==
  \A j \in DOMAIN jobs :
    jobs[j].source # Manual =>
      /\ issueJobs[jobs[j].source] = j
      /\ \A k \in DOMAIN jobs : jobs[k].source = jobs[j].source => k = j

(* "Capture the operator's consent at intake.  A later toggle must never
   retroactively change what happens to this already accepted ticket"
   (jira_api.py): whether a ticket goes on to a fix is decided by what the
   switch was while its accepted delivery was handled, whatever other
   deliveries and toggles come later. *)
ConsentAtIntake ==
  \A j \in DOMAIN jobs :
    /\ j \in handed \cup stopped => TRUE \in jobs[j].seen
    /\ jobs[j].status = "done" /\ jobs[j].reproduced /\ jobs[j].seen = {TRUE} => j \in handed \cup stopped

(* A ticket whose deliveries Jira has ended has a job in the process that
   ended them; only the end of that process loses it. *)
AnsweredTicketHasJob == \A i \in Mapped : settled[i] = stops + 1 => issueJobs[i] # 0

(* An investigation that was accepted ends, done or failed, unless its
   process stops.  Whether the issue is told is another matter: a comment may
   be lost, and a failed job posts none. *)
AnsweredTicketsSettle ==
  \A i \in Mapped, life \in 0..MaxStops :
    (settled[i] = life + 1 /\ stops = life)
      ~> (stops # life \/ (issueJobs[i] # 0 /\ jobs[issueJobs[i]].status \in {"done", "failed"}))

-----------------------------------------------------------------------------
(* The intake implements the abstract workflow of a ticket. *)

Ended(j) == CASE j \in handed  -> "handed"
              [] j \in stopped -> "stopped"
              [] j \notin handed \cup stopped -> "closed"

PhaseOfJob(j) ==
  CASE jobs[j].status = "queued"  -> "accepted"
    [] jobs[j].status = "failed"  -> "failed"
    [] jobs[j].status = "done"    -> Ended(j)
    [] jobs[j].status = "running" ->
         CASE worker.pc \in {"run", "comment"} -> "accepted"
           [] At("continue") -> IF jobs[j].reproduced THEN "reproduced" ELSE "unreproduced"
           [] At("finish")   -> Ended(j)

Phase   == [i \in Issues |-> IF issueJobs[i] = 0 THEN "new" ELSE PhaseOfJob(issueJobs[i])]
Consent == [i \in Issues |-> issueJobs[i] # 0 /\ jobs[issueJobs[i]].consent]

Workflow == INSTANCE TicketWorkflow WITH phase <- Phase, consent <- Consent

(* One acceptance, one evidence comment and at most one continuation per
   ticket and process, in that order. *)
ImplementsTicketWorkflow == Workflow!Spec
=============================================================================

-------------------------- MODULE JiraIntake_proofs --------------------------
(***************************************************************************)
(* Proofs about JiraIntake, for every set of issues, every mapping and     *)
(* every bound: types, one job per ticket, the consent captured at intake, *)
(* no acknowledged ticket without a job, and the refinement of             *)
(* TicketWorkflow.                                                         *)
(***************************************************************************)
EXTENDS JiraIntake, TLAPS

-----------------------------------------------------------------------------
(* The inductive invariant, one part for each piece of the system. *)

Pcs == {"idle", "run", "comment", "continue", "finish"}
Statuses == {"queued", "running", "done", "failed"}
JobRecord == [ source : Mapped \cup {Manual}, consent : BOOLEAN, seen : SUBSET BOOLEAN,
               status : Statuses, reproduced : BOOLEAN ]

FlagsInv ==
  /\ toggles \in 0..MaxToggles
  /\ comments \in [Issues -> Seq({"evidence", "stopped"})]
  /\ yolo \in BOOLEAN /\ stored \in BOOLEAN /\ accepting \in BOOLEAN

(* No delivery was ended by a later life of the process than this one. *)
DeliveryInv ==
  /\ stops \in 0..MaxStops
  /\ waiting \subseteq Issues
  /\ sends \in [Issues -> Nat] /\ \A i \in Issues : sends[i] <= MaxSends[i]
  /\ settled \in [Issues -> Nat] /\ \A i \in Issues : settled[i] <= stops + 1

(* A handler between its two steps holds a request of a mapped issue and a
   consent that the switch had. *)
HandlerInv ==
  /\ \A r \in requests : SentRequest(r)
  /\ handler # NoRequest =>
       /\ handler \in [request : [issue : Issues, send : Nat], consent : BOOLEAN, seen : SUBSET BOOLEAN]
       /\ SentRequest(handler.request) /\ handler.request.issue \in Mapped
       /\ handler.consent \in handler.seen

(* The router and the registry name each other. *)
RouterInv ==
  /\ jobs \in Seq(JobRecord)
  /\ issueJobs \in [Issues -> Nat]
  /\ \A i \in Issues : issueJobs[i] # 0 => issueJobs[i] \in 1..Len(jobs) /\ jobs[issueJobs[i]].source = i
  /\ \A j \in 1..Len(jobs) : jobs[j].source # Manual => issueJobs[jobs[j].source] = j

(* A job is in the queue once, with the thread, or ended. *)
QueueInv ==
  /\ queue \in Seq(Nat)
  /\ \A a \in 1..Len(queue) : queue[a] \in 1..Len(jobs) /\ jobs[queue[a]].status = "queued"
  /\ \A a, b \in 1..Len(queue) : queue[a] = queue[b] => a = b
  /\ worker \in [job : Nat, pc : Pcs]
  /\ worker.job <= Len(jobs) /\ (~At("idle") => worker.job # 0)
  /\ \A j \in 1..Len(jobs) : jobs[j].status = "running" <=> ~At("idle") /\ j = worker.job

(* What a job's consent is worth, and who goes on with it. *)
ConsentInv ==
  /\ \A j \in 1..Len(jobs) : IF jobs[j].source = Manual THEN ~jobs[j].consent /\ jobs[j].seen = {}
                                                        ELSE jobs[j].consent \in jobs[j].seen
  /\ worker.pc \in {"comment", "continue"} => Current.source # Manual
  /\ handed \cap stopped = {}
  /\ \A j \in handed \cup stopped :
       /\ j \in 1..Len(jobs)
       /\ jobs[j].consent /\ jobs[j].reproduced
       /\ jobs[j].status = "done" \/ (At("finish") /\ j = worker.job)
  /\ \A j \in 1..Len(jobs) :
       /\ jobs[j].status = "done" \/ (At("finish") /\ j = worker.job)
       /\ jobs[j].consent /\ jobs[j].reproduced
       => j \in handed \cup stopped

(* Nothing is acknowledged before it is registered. *)
AnswerInv == AnsweredTicketHasJob

IInv == FlagsInv /\ DeliveryInv /\ HandlerInv /\ RouterInv /\ QueueInv /\ ConsentInv /\ AnswerInv

-----------------------------------------------------------------------------
(* The invariant says all that the checked properties say. *)

LEMMA SeqOfSubset ==
  ASSUME NEW S, NEW T, NEW s \in Seq(S), \A a \in 1..Len(s) : s[a] \in T
  PROVE  s \in Seq(T)
OBVIOUS

LEMMA InvTypes == IInv => TypeOK
<1> SUFFICES ASSUME IInv PROVE TypeOK
  OBVIOUS
<1> USE DEF IInv
<1>1. \A i \in Issues : sends[i] \in 0..MaxSends[i]
  BY JiraIntakeAssumption DEF DeliveryInv
<1>2. settled \in [Issues -> 0..MaxStops + 1]
  <2>1. \A i \in Issues : settled[i] \in 0..MaxStops + 1
    BY JiraIntakeAssumption DEF DeliveryInv
  <2> QED BY <2>1 DEF DeliveryInv
<1>3. handler = NoRequest \/ ( /\ SentRequest(handler.request) /\ handler.request.issue \in Mapped
                               /\ handler.seen \subseteq BOOLEAN /\ handler.consent \in handler.seen )
  BY DEF HandlerInv
<1>4. jobs \in Seq([ source : Mapped \cup {Manual}, consent : BOOLEAN, seen : SUBSET BOOLEAN,
                     status : {"queued", "running", "done", "failed"}, reproduced : BOOLEAN ])
  BY DEF RouterInv, JobRecord, Statuses
<1>5. DOMAIN jobs = 1..Len(jobs) /\ DOMAIN queue = 1..Len(queue)
  BY DEF RouterInv, QueueInv
<1>6. issueJobs \in [Issues -> 0..Len(jobs)]
  <2>1. \A i \in Issues : issueJobs[i] \in 0..Len(jobs)
    BY DEF RouterInv
  <2> QED BY <2>1 DEF RouterInv
<1>7. queue \in Seq({ j \in DOMAIN jobs : jobs[j].status = "queued" })
  <2>1. \A a \in 1..Len(queue) : queue[a] \in { j \in DOMAIN jobs : jobs[j].status = "queued" }
    BY <1>5 DEF QueueInv
  <2>2. queue \in Seq(Nat)
    BY DEF QueueInv
  <2> QED BY <2>1, <2>2, SeqOfSubset
<1>8. worker \in [job : 0..Len(jobs), pc : {"idle", "run", "comment", "continue", "finish"}]
  BY DEF RouterInv, QueueInv, Pcs
<1> QED
  BY <1>1, <1>2, <1>3, <1>4, <1>5, <1>6, <1>7, <1>8 DEF TypeOK, FlagsInv, DeliveryInv, HandlerInv, QueueInv, ConsentInv

LEMMA InvProperties == IInv => OneJobPerTicket /\ ConsentAtIntake /\ AnsweredTicketHasJob
<1> SUFFICES ASSUME IInv PROVE OneJobPerTicket /\ ConsentAtIntake
  BY DEF IInv, AnswerInv
<1>1. DOMAIN jobs = 1..Len(jobs) /\ \A j \in 1..Len(jobs) : jobs[j] \in JobRecord
  BY DEF IInv, RouterInv
<1>2. OneJobPerTicket
  BY <1>1 DEF IInv, RouterInv, OneJobPerTicket
<1>3. ASSUME NEW j \in DOMAIN jobs, j \in handed \cup stopped PROVE TRUE \in jobs[j].seen
  <2>1. jobs[j].consent /\ jobs[j] \in JobRecord
    BY <1>1, <1>3 DEF IInv, ConsentInv
  <2>2. jobs[j].consent = TRUE
    BY <2>1 DEF JobRecord
  <2>3. jobs[j].consent \in jobs[j].seen
    BY <1>1, <2>1 DEF IInv, ConsentInv
  <2> QED BY <2>2, <2>3
<1>4. ASSUME NEW j \in DOMAIN jobs, jobs[j].status = "done", jobs[j].reproduced, jobs[j].seen = {TRUE}
      PROVE  j \in handed \cup stopped
  <2>1. jobs[j].consent
    BY <1>1, <1>4 DEF IInv, ConsentInv, JobRecord
  <2> QED BY <1>1, <1>4, <2>1 DEF IInv, ConsentInv
<1> QED BY <1>2, <1>3, <1>4 DEF ConsentAtIntake

-----------------------------------------------------------------------------
(* It holds at the start. *)

LEMMA InvInit == Init => IInv
<1> SUFFICES ASSUME Init PROVE IInv
  OBVIOUS
<1> USE JiraIntakeAssumption DEF Init, NoRequest, Idle
<1>1. FlagsInv
  <2>1. yolo \in BOOLEAN /\ stored \in BOOLEAN /\ accepting \in BOOLEAN
    BY Zenon
  <2>2. toggles \in 0..MaxToggles
    OBVIOUS
  <2>3. comments \in [Issues -> Seq({"evidence", "stopped"})]
    OBVIOUS
  <2> QED BY <2>1, <2>2, <2>3 DEF FlagsInv
<1>0. DeliveryInv
  <2>1. stops = 0 /\ \A i \in Issues : sends[i] = 0 /\ settled[i] = 0
    OBVIOUS
  <2>2. sends \in [Issues -> Nat] /\ settled \in [Issues -> Nat]
    OBVIOUS
  <2>3. \A i \in Issues : sends[i] <= MaxSends[i] /\ settled[i] <= stops + 1
    BY <2>1
  <2> QED BY <2>2, <2>3 DEF DeliveryInv
<1>2. HandlerInv
  BY DEF HandlerInv
<1>3. RouterInv
  BY DEF RouterInv
<1>4. QueueInv
  BY DEF QueueInv, At, Pcs
<1>5. ConsentInv
  BY DEF ConsentInv, At
<1>6. AnswerInv
  BY DEF AnswerInv, AnsweredTicketHasJob
<1> QED BY <1>0, <1>1, <1>2, <1>3, <1>4, <1>5, <1>6 DEF IInv

-----------------------------------------------------------------------------
(* What the two changes of the registry keep: a job more, and another state
   of one job. *)

LEMMA JobsAre ==
  ASSUME IInv
  PROVE  /\ jobs \in Seq(JobRecord) /\ Len(jobs) \in Nat
         /\ \A j \in 1..Len(jobs) : jobs[j] \in JobRecord
BY DEF IInv, RouterInv

LEMMA EnqueueKeeps ==
  ASSUME IInv, NEW source \in Mapped \cup {Manual}, NEW consent \in BOOLEAN, NEW seen \in SUBSET BOOLEAN,
         IF source = Manual THEN ~consent /\ seen = {} ELSE consent \in seen,
         Enqueue(Job(source, consent, seen)),
         UNCHANGED <<worker, handed, stopped>>
  PROVE  /\ jobs' \in Seq(JobRecord) /\ Len(jobs') = Len(jobs) + 1
         /\ \A j \in 1..Len(jobs) : jobs'[j] = jobs[j]
         /\ jobs'[Len(jobs) + 1] = Job(source, consent, seen)
         /\ QueueInv' /\ ConsentInv'
<1> DEFINE job == Job(source, consent, seen)
<1>1. job \in JobRecord /\ job.status = "queued" /\ job.source = source /\ job.consent = consent /\ job.seen = seen
  BY DEF Job, JobRecord, Statuses
<1>2. /\ jobs' \in Seq(JobRecord) /\ Len(jobs') = Len(jobs) + 1
      /\ \A j \in 1..Len(jobs) : jobs'[j] = jobs[j]
      /\ jobs'[Len(jobs) + 1] = job
  <2> HIDE DEF job
  <2>1. jobs' = Append(jobs, job)
    BY DEF Enqueue, job
  <2> QED BY <1>1, <2>1, JobsAre
<1>3. QueueInv'
  <2>1. /\ queue' \in Seq(Nat) /\ Len(queue') = Len(queue) + 1
        /\ \A a \in 1..Len(queue) : queue'[a] = queue[a]
        /\ queue'[Len(queue) + 1] = Len(jobs) + 1
    BY JobsAre DEF Enqueue, IInv, QueueInv
  <2>2. Len(queue) \in Nat
    BY DEF IInv, QueueInv
  <2>3. \A a \in 1..Len(queue') : queue'[a] \in 1..Len(jobs') /\ jobs'[queue'[a]].status = "queued"
    <3> SUFFICES ASSUME NEW a \in 1..Len(queue')
                 PROVE  queue'[a] \in 1..Len(jobs') /\ jobs'[queue'[a]].status = "queued"
      OBVIOUS
    <3>1. CASE a \in 1..Len(queue)
      <4>1. queue[a] \in 1..Len(jobs) /\ jobs[queue[a]].status = "queued"
        BY <3>1 DEF IInv, QueueInv
      <4>2. jobs'[queue[a]] = jobs[queue[a]]
        BY <1>2, <4>1
      <4> QED BY <1>2, <2>1, <3>1, <4>1, <4>2, JobsAre
    <3>2. CASE a = Len(queue) + 1
      <4> HIDE DEF job
      <4> QED BY <1>1, <1>2, <2>1, <3>2, JobsAre
    <3> QED BY <2>1, <2>2, <3>1, <3>2
  <2>4. \A a, b \in 1..Len(queue') : queue'[a] = queue'[b] => a = b
    <3>1. \A a \in 1..Len(queue) : queue'[a] \in 1..Len(jobs)
      BY <2>1 DEF IInv, QueueInv
    <3>2. \A a, b \in 1..Len(queue) : queue'[a] = queue'[b] => a = b
      BY <2>1 DEF IInv, QueueInv
    <3> QED BY <2>1, <2>2, <3>1, <3>2, JobsAre
  <2>5. worker' \in [job : Nat, pc : Pcs] /\ worker'.job <= Len(jobs') /\ (~At("idle")' => worker'.job # 0)
    BY <1>2, JobsAre DEF IInv, QueueInv, At
  <2>6. \A j \in 1..Len(jobs') : jobs'[j].status = "running" <=> ~At("idle")' /\ j = worker'.job
    BY <1>1, <1>2, JobsAre DEF IInv, QueueInv, At
  <2> QED BY <2>1, <2>3, <2>4, <2>5, <2>6 DEF QueueInv
<1>4. ConsentInv'
  <2>1. worker.job \in Nat /\ worker.job <= Len(jobs) /\ (worker.pc # "idle" => worker.job \in 1..Len(jobs))
    BY JobsAre DEF IInv, QueueInv, At
  <2>2. worker'.pc \in {"comment", "continue"} => Current'.source # Manual
    <3>1. worker.pc \in {"comment", "continue"} => jobs'[worker.job] = jobs[worker.job]
      BY <1>2, <2>1
    <3> QED BY <3>1 DEF IInv, ConsentInv, Current
  <2>3. \A j \in 1..Len(jobs') : IF jobs'[j].source = Manual THEN ~jobs'[j].consent /\ jobs'[j].seen = {}
                                                             ELSE jobs'[j].consent \in jobs'[j].seen
    <3> SUFFICES ASSUME NEW j \in 1..Len(jobs')
                 PROVE  IF jobs'[j].source = Manual THEN ~jobs'[j].consent /\ jobs'[j].seen = {}
                                                    ELSE jobs'[j].consent \in jobs'[j].seen
      OBVIOUS
    <3>1. CASE j \in 1..Len(jobs)
      BY <1>2, <3>1 DEF IInv, ConsentInv
    <3>2. CASE j = Len(jobs) + 1
      <4> HIDE DEF job
      <4> QED BY <1>1, <1>2, <3>2
    <3> QED BY <1>2, <3>1, <3>2, JobsAre
  <2>4. \A j \in handed' \cup stopped' :
          /\ j \in 1..Len(jobs')
          /\ jobs'[j].consent /\ jobs'[j].reproduced
          /\ jobs'[j].status = "done" \/ (At("finish")' /\ j = worker'.job)
    BY <1>2, JobsAre DEF IInv, ConsentInv, At
  <2>5. \A j \in 1..Len(jobs') :
          /\ jobs'[j].status = "done" \/ (At("finish")' /\ j = worker'.job)
          /\ jobs'[j].consent /\ jobs'[j].reproduced
          => j \in handed' \cup stopped'
    BY <1>1, <1>2, <2>1, JobsAre DEF IInv, ConsentInv, At
  <2>6. handed' \cap stopped' = {}
    BY DEF IInv, ConsentInv
  <2> QED BY <2>2, <2>3, <2>4, <2>5, <2>6 DEF ConsentInv
<1> QED BY <1>2, <1>3, <1>4

LEMMA UpdateKeeps ==
  ASSUME IInv, NEW j \in 1..Len(jobs), NEW job \in JobRecord, job.source = jobs[j].source,
         jobs' = [jobs EXCEPT ![j] = job], UNCHANGED issueJobs
  PROVE  /\ Len(jobs') = Len(jobs) /\ jobs'[j] = job
         /\ \A k \in 1..Len(jobs) : k # j => jobs'[k] = jobs[k]
         /\ RouterInv'
<1>1. jobs' \in Seq(JobRecord) /\ Len(jobs') = Len(jobs) /\ jobs'[j] = job
      /\ \A k \in 1..Len(jobs) : k # j => jobs'[k] = jobs[k]
  BY JobsAre
<1>2. \A k \in 1..Len(jobs) : jobs'[k].source = jobs[k].source
  BY <1>1
<1> QED BY <1>1, <1>2, JobsAre DEF IInv, RouterInv

-----------------------------------------------------------------------------
(* The parts that a step leaves alone. *)

LEMMA Frames ==
  ASSUME IInv
  PROVE  /\ UNCHANGED <<comments, yolo, stored, accepting, toggles>> => FlagsInv'
         /\ UNCHANGED <<sends, waiting, settled, stops>> => DeliveryInv'
         /\ UNCHANGED <<sends, requests, handler>> => HandlerInv'
         /\ UNCHANGED <<issueJobs, jobs>> => RouterInv'
         /\ UNCHANGED <<jobs, queue, worker>> => QueueInv'
         /\ UNCHANGED <<jobs, worker, handed, stopped>> => ConsentInv'
         /\ UNCHANGED <<settled, stops, issueJobs>> => AnswerInv'
<1> USE DEF IInv
<1>1. UNCHANGED <<comments, yolo, stored, accepting, toggles>> => FlagsInv'
  BY DEF FlagsInv
<1>2. UNCHANGED <<sends, waiting, settled, stops>> => DeliveryInv'
  BY DEF DeliveryInv
<1>3. UNCHANGED <<sends, requests, handler>> => HandlerInv'
  BY DEF HandlerInv, SentRequest
<1>4. UNCHANGED <<issueJobs, jobs>> => RouterInv'
  BY DEF RouterInv
<1>5. UNCHANGED <<jobs, queue, worker>> => QueueInv'
  BY DEF QueueInv, At
<1>6. UNCHANGED <<jobs, worker, handed, stopped>> => ConsentInv'
  BY DEF ConsentInv, At, Current
<1>7. UNCHANGED <<settled, stops, issueJobs>> => AnswerInv'
  BY DEF AnswerInv, AnsweredTicketHasJob
<1> QED BY <1>1, <1>2, <1>3, <1>4, <1>5, <1>6, <1>7

LEMMA AnswerKeeps ==
  ASSUME IInv, NEW r, r.issue \in Issues, Answer(r), UNCHANGED <<sends, stops>>
  PROVE  DeliveryInv' /\ \A i \in Issues : i # r.issue => settled'[i] = settled[i]
<1>1. stops \in Nat
  BY JiraIntakeAssumption DEF IInv, DeliveryInv
<1>2. CASE UNCHANGED <<waiting, settled>>
  BY <1>2, Frames
<1>3. CASE waiting' = waiting \ {r.issue} /\ settled' = [settled EXCEPT ![r.issue] = stops + 1]
  <2>1. settled' \in [Issues -> Nat] /\ \A i \in Issues : settled'[i] <= stops' + 1
    BY <1>1, <1>3 DEF IInv, DeliveryInv
  <2>2. \A i \in Issues : i # r.issue => settled'[i] = settled[i]
    BY <1>3 DEF IInv, DeliveryInv
  <2> QED BY <1>3, <2>1, <2>2 DEF IInv, DeliveryInv
<1> QED BY <1>2, <1>3 DEF Answer

-----------------------------------------------------------------------------
(* Jira, the gateway and the webhook handler. *)

LEMMA SendKeeps == ASSUME IInv, NEW i \in Issues, Send(i) PROVE IInv'
<1> DEFINE r == [issue |-> i, send |-> sends[i] + 1]
<1>1. sends \in [Issues -> Nat] /\ sends' = [sends EXCEPT ![i] = @ + 1] /\ sends[i] < MaxSends[i]
  BY DEF Send, IInv, DeliveryInv
<1>2. /\ sends' \in [Issues -> Nat] /\ sends'[i] = sends[i] + 1
      /\ \A k \in Issues : sends[k] <= sends'[k]
      /\ \A k \in Issues : k # i => sends'[k] = sends[k]
  BY <1>1
<1>3. \A k \in Issues : sends'[k] <= MaxSends[k]
  BY <1>1, <1>2, JiraIntakeAssumption DEF IInv, DeliveryInv
<1>4. DeliveryInv'
  BY <1>2, <1>3 DEF Send, IInv, DeliveryInv
<1>5. HandlerInv'
  <2>1. ASSUME NEW q, SentRequest(q) PROVE SentRequest(q)'
    <3>1. q.issue \in Issues /\ q.send \in Nat /\ sends[q.issue] \in Nat /\ sends'[q.issue] \in Nat
      BY <1>1, <1>2, <2>1 DEF SentRequest
    <3> QED BY <1>2, <2>1, <3>1 DEF SentRequest
  <2>2. ASSUME NEW q, q = r PROVE SentRequest(q)'
    <3>1. sends[i] \in Nat /\ q = [issue |-> i, send |-> sends'[i]] /\ sends'[i] = sends[i] + 1
      BY <1>1, <1>2, <2>2
    <3> QED BY <3>1 DEF SentRequest
  <2>3. requests' \subseteq requests \cup {r} /\ UNCHANGED handler
    BY DEF Send
  <2> QED BY <2>1, <2>2, <2>3 DEF IInv, HandlerInv
<1> QED BY <1>4, <1>5, Frames DEF Send, work, IInv

LEMMA GatewayTimeoutKeeps == ASSUME IInv, NEW i \in Issues, GatewayTimeout(i) PROVE IInv'
<1>1. DeliveryInv'
  BY DEF GatewayTimeout, IInv, DeliveryInv
<1> QED BY <1>1, Frames DEF GatewayTimeout, intake, work, IInv

LEMMA RefuseKeeps == ASSUME IInv, NEW r \in requests, Refuse(r) PROVE IInv'
<1>1. r.issue \in Issues /\ r.issue \notin Mapped
  BY DEF Refuse, IInv, HandlerInv, SentRequest
<1>2. DeliveryInv' /\ \A i \in Issues : i # r.issue => settled'[i] = settled[i]
  BY <1>1, AnswerKeeps DEF Refuse
<1>3. HandlerInv'
  BY DEF Refuse, IInv, HandlerInv, SentRequest
<1>4. AnswerInv'
  BY <1>1, <1>2, JiraIntakeAssumption DEF Refuse, IInv, AnswerInv, AnsweredTicketHasJob
<1> QED BY <1>2, <1>3, <1>4, Frames DEF Refuse, work, IInv

LEMMA ReadConsentKeeps == ASSUME IInv, NEW r \in requests, ReadConsent(r) PROVE IInv'
<1>1. SentRequest(r) /\ yolo \in BOOLEAN /\ r.issue \in Mapped
  BY DEF ReadConsent, IInv, HandlerInv, FlagsInv
<1>2. handler' = [request |-> r, consent |-> yolo, seen |-> {yolo}] /\ requests' \subseteq requests /\ UNCHANGED sends
  BY DEF ReadConsent, jira
<1>3. HandlerInv'
  BY <1>1, <1>2 DEF IInv, HandlerInv, SentRequest
<1> QED BY <1>3, Frames DEF ReadConsent, jira, work, IInv

LEMMA SubmitOnceKeeps == ASSUME IInv, SubmitOnce PROVE IInv'
<1> DEFINE i == handler.request.issue
<1>1. /\ i \in Issues /\ i \in Mapped /\ i # Manual
      /\ handler.consent \in BOOLEAN /\ handler.seen \in SUBSET BOOLEAN /\ handler.consent \in handler.seen
  BY JiraIntakeAssumption DEF SubmitOnce, IInv, HandlerInv
<1>2. DeliveryInv' /\ \A k \in Issues : k # i => settled'[k] = settled[k]
  BY <1>1, AnswerKeeps DEF SubmitOnce
<1>3. HandlerInv'
  BY DEF SubmitOnce, IInv, HandlerInv, SentRequest
<1>4. CASE issueJobs[i] # 0
  <2>1. AnswerInv'
    <3>1. UNCHANGED <<issueJobs, stops>>
      BY <1>4 DEF SubmitOnce
    <3> QED BY <1>1, <1>2, <1>4, <3>1, JiraIntakeAssumption DEF IInv, AnswerInv, AnsweredTicketHasJob
  <2> QED BY <1>2, <1>3, <1>4, <2>1, Frames DEF SubmitOnce, IInv
<1>5. CASE issueJobs[i] = 0
  <2>1. /\ Enqueue(Job(i, handler.consent, handler.seen))
        /\ issueJobs' = [issueJobs EXCEPT ![i] = Len(jobs) + 1]
        /\ UNCHANGED <<worker, handed, stopped>>
    BY <1>5 DEF SubmitOnce
  <2>2. /\ jobs' \in Seq(JobRecord) /\ Len(jobs') = Len(jobs) + 1
        /\ \A j \in 1..Len(jobs) : jobs'[j] = jobs[j]
        /\ jobs'[Len(jobs) + 1] = Job(i, handler.consent, handler.seen)
        /\ QueueInv' /\ ConsentInv'
    BY <1>1, <2>1, EnqueueKeeps
  <2>3. /\ issueJobs' \in [Issues -> Nat] /\ issueJobs'[i] = Len(jobs) + 1
        /\ \A k \in Issues : k # i => issueJobs'[k] = issueJobs[k]
    BY <1>1, <2>1, JobsAre DEF IInv, RouterInv
  <2>4. jobs'[Len(jobs) + 1].source = i
    BY <2>2 DEF Job
  <2>5. \A k \in Issues : issueJobs'[k] # 0 => issueJobs'[k] \in 1..Len(jobs') /\ jobs'[issueJobs'[k]].source = k
    BY <1>1, <2>2, <2>3, <2>4, JobsAre DEF IInv, RouterInv
  <2>6. \A j \in 1..Len(jobs') : jobs'[j].source # Manual => issueJobs'[jobs'[j].source] = j
    <3>1. ASSUME NEW j \in 1..Len(jobs), jobs[j].source # Manual PROVE issueJobs'[jobs[j].source] = j
      <4>1. jobs[j].source \in Issues
        BY <3>1, JobsAre, JiraIntakeAssumption DEF JobRecord
      <4>2. issueJobs[jobs[j].source] = j
        BY <3>1 DEF IInv, RouterInv
      <4> QED BY <1>5, <2>3, <4>1, <4>2
    <3> QED BY <2>2, <2>3, <2>4, <3>1, JobsAre
  <2>7. RouterInv'
    BY <2>2, <2>3, <2>5, <2>6 DEF RouterInv
  <2>8. AnswerInv'
    BY <1>1, <1>2, <2>3, JobsAre, JiraIntakeAssumption DEF SubmitOnce, IInv, AnswerInv, AnsweredTicketHasJob
  <2> QED BY <1>2, <1>3, <2>2, <2>7, <2>8, Frames DEF SubmitOnce, IInv
<1> QED BY <1>4, <1>5

LEMMA SetYoloKeeps == ASSUME IInv, SetYolo PROVE IInv'
<1>1. FlagsInv'
  <2>1. yolo' \in BOOLEAN
    BY Zenon DEF SetYolo
  <2>2. toggles' \in 0..MaxToggles
    BY JiraIntakeAssumption DEF SetYolo, IInv, FlagsInv
  <2> QED BY <2>1, <2>2 DEF SetYolo, work, IInv, FlagsInv
<1>2. HandlerInv'
  <2>1. CASE handler = NoRequest
    BY <2>1 DEF SetYolo, jira, IInv, HandlerInv, SentRequest
  <2>2. CASE handler # NoRequest
    <3>1. /\ handler \in [request : [issue : Issues, send : Nat], consent : BOOLEAN, seen : SUBSET BOOLEAN]
          /\ SentRequest(handler.request) /\ handler.request.issue \in Mapped /\ handler.consent \in handler.seen
      BY <2>2 DEF IInv, HandlerInv
    <3>2. PICK new \in BOOLEAN : handler' = [handler EXCEPT !.seen = @ \cup {new}]
      <4>1. handler' = [handler EXCEPT !.seen = @ \cup {~yolo}]
        BY <2>2, Zenon DEF SetYolo
      <4>2. ~yolo = yolo' /\ yolo' \in BOOLEAN
        BY <1>1, Zenon DEF SetYolo, FlagsInv
      <4> QED BY <4>1, <4>2, Zenon
    <3>3. /\ handler' \in [request : [issue : Issues, send : Nat], consent : BOOLEAN, seen : SUBSET BOOLEAN]
          /\ handler'.request = handler.request /\ handler'.consent = handler.consent
          /\ handler.seen \subseteq handler'.seen
      BY <3>1, <3>2
    <3> QED BY <3>1, <3>3 DEF SetYolo, jira, IInv, HandlerInv, SentRequest
  <2> QED BY <2>1, <2>2
<1> QED BY <1>1, <1>2, Frames DEF SetYolo, jira, work, IInv

LEMMA StartInvestigationKeeps == ASSUME IInv, StartInvestigation PROVE IInv'
<1>1. /\ jobs' \in Seq(JobRecord) /\ Len(jobs') = Len(jobs) + 1
      /\ \A j \in 1..Len(jobs) : jobs'[j] = jobs[j]
      /\ jobs'[Len(jobs) + 1] = Job(Manual, FALSE, {})
      /\ QueueInv' /\ ConsentInv'
  BY EnqueueKeeps DEF StartInvestigation
<1>2. jobs'[Len(jobs) + 1].source = Manual
  BY <1>1 DEF Job
<1>3. RouterInv'
  <2>1. UNCHANGED issueJobs
    BY DEF StartInvestigation, intake
  <2>2. \A k \in Issues : issueJobs'[k] # 0 => issueJobs'[k] \in 1..Len(jobs') /\ jobs'[issueJobs'[k]].source = k
    BY <1>1, <2>1, JobsAre DEF IInv, RouterInv
  <2>3. \A j \in 1..Len(jobs') : jobs'[j].source # Manual => issueJobs'[jobs'[j].source] = j
    <3>1. ASSUME NEW j \in 1..Len(jobs), jobs[j].source # Manual PROVE issueJobs'[jobs[j].source] = j
      BY <2>1, <3>1 DEF IInv, RouterInv
    <3>2. \A j \in 1..Len(jobs') : j \in 1..Len(jobs) \/ j = Len(jobs) + 1
      BY <1>1, JobsAre
    <3> QED BY <1>1, <1>2, <3>1, <3>2
  <2> QED BY <1>1, <2>1, <2>2, <2>3 DEF IInv, RouterInv
<1> QED BY <1>1, <1>3, Frames DEF StartInvestigation, jira, intake, IInv

-----------------------------------------------------------------------------
(* The executor's thread. *)

LEMMA WorkerIs ==
  ASSUME IInv
  PROVE  /\ worker \in [job : Nat, pc : Pcs] /\ worker.job <= Len(jobs)
         /\ ~At("idle") => worker.job \in 1..Len(jobs) /\ Current \in JobRecord /\ Current.status = "running"
BY JobsAre DEF IInv, QueueInv, Current

LEMMA GoKeeps ==
  ASSUME IInv, ~At("idle"), NEW pc \in Pcs \ {"idle"}, Go(pc), UNCHANGED <<jobs, queue>>
  PROVE  QueueInv' /\ worker'.job = worker.job /\ worker'.pc = pc
<1>1. worker' \in [job : Nat, pc : Pcs] /\ worker'.job = worker.job /\ worker'.pc = pc
  BY WorkerIs DEF Go
<1> QED BY <1>1, WorkerIs DEF IInv, QueueInv, At

LEMMA OwnJobKeeps ==
  ASSUME IInv, ~At("idle"), NEW job \in JobRecord, job.source = Current.source,
         jobs' = [jobs EXCEPT ![worker.job] = job], UNCHANGED <<issueJobs, queue>>,
         worker' \in [job : Nat, pc : Pcs], worker'.job <= Len(jobs),
         IF worker'.pc = "idle" THEN job.status \in {"done", "failed"}
                                ELSE job.status = "running" /\ worker'.job = worker.job
  PROVE  /\ Len(jobs') = Len(jobs) /\ jobs'[worker.job] = job
         /\ \A k \in 1..Len(jobs) : k # worker.job => jobs'[k] = jobs[k]
         /\ RouterInv' /\ QueueInv'
<1>1. /\ Len(jobs') = Len(jobs) /\ jobs'[worker.job] = job
      /\ \A k \in 1..Len(jobs) : k # worker.job => jobs'[k] = jobs[k]
      /\ RouterInv'
  BY WorkerIs, UpdateKeeps DEF Current
<1>2. QueueInv'
  <2>1. \A a \in 1..Len(queue') : queue'[a] \in 1..Len(jobs') /\ jobs'[queue'[a]].status = "queued"
    <3> SUFFICES ASSUME NEW a \in 1..Len(queue)
                 PROVE  queue[a] \in 1..Len(jobs) /\ jobs'[queue[a]].status = "queued"
      BY <1>1
    <3>1. queue[a] \in 1..Len(jobs) /\ jobs[queue[a]].status = "queued"
      BY DEF IInv, QueueInv
    <3>2. queue[a] # worker.job
      BY <3>1, WorkerIs DEF Current
    <3> QED BY <1>1, <3>1, <3>2
  <2>2. \A j \in 1..Len(jobs') : jobs'[j].status = "running" <=> ~At("idle")' /\ j = worker'.job
    <3> SUFFICES ASSUME NEW j \in 1..Len(jobs)
                 PROVE  jobs'[j].status = "running" <=> worker'.pc # "idle" /\ j = worker'.job
      BY <1>1 DEF At
    <3>1. CASE j = worker.job
      BY <1>1, <3>1
    <3>2. CASE j # worker.job
      <4>1. jobs'[j].status # "running"
        BY <1>1, <3>2 DEF IInv, QueueInv
      <4> QED BY <3>2, <4>1
    <3> QED BY <3>1, <3>2
  <2>3. worker'.job <= Len(jobs') /\ (~At("idle")' => worker'.job # 0)
    BY <1>1, WorkerIs DEF At
  <2> QED BY <2>1, <2>2, <2>3 DEF IInv, QueueInv
<1> QED BY <1>1, <1>2

LEMMA StartJobKeeps == ASSUME IInv, StartJob PROVE IInv'
<1> DEFINE j == Head(queue)  job == [jobs[j] EXCEPT !.status = "running"]
<1>1. /\ j \in 1..Len(jobs) /\ jobs[j].status = "queued" /\ j = queue[1]
      /\ Len(queue) \in Nat /\ Len(queue) > 0 /\ queue \in Seq(Nat)
  BY DEF StartJob, IInv, QueueInv
<1>2. /\ queue' \in Seq(Nat) /\ Len(queue') = Len(queue) - 1
      /\ \A a \in 1..Len(queue') : queue'[a] = queue[a + 1]
  BY <1>1 DEF StartJob
<1>3. job \in JobRecord /\ job.source = jobs[j].source /\ job.status = "running"
      /\ job.consent = jobs[j].consent /\ job.seen = jobs[j].seen
  BY <1>1, JobsAre DEF JobRecord, Statuses
<1>4. /\ Len(jobs') = Len(jobs) /\ jobs'[j] = job
      /\ \A k \in 1..Len(jobs) : k # j => jobs'[k] = jobs[k]
      /\ RouterInv'
  <2>1. jobs' = [jobs EXCEPT ![j] = job] /\ UNCHANGED issueJobs
    BY DEF StartJob, Outside, intake
  <2> HIDE DEF job
  <2> QED BY <1>1, <1>3, <2>1, UpdateKeeps
<1>5. worker' = [job |-> j, pc |-> "run"] /\ At("idle") /\ UNCHANGED <<handed, stopped>>
  BY DEF StartJob
<1> HIDE DEF j, job
<1>6. QueueInv'
  <2>1. \A a \in 1..Len(queue') : queue'[a] \in 1..Len(jobs') /\ jobs'[queue'[a]].status = "queued"
    <3> SUFFICES ASSUME NEW a \in 1..Len(queue')
                 PROVE  queue[a + 1] \in 1..Len(jobs) /\ jobs'[queue[a + 1]].status = "queued"
      BY <1>2, <1>4
    <3>1. a + 1 \in 1..Len(queue) /\ a + 1 # 1
      BY <1>1, <1>2
    <3>2. queue[a + 1] \in 1..Len(jobs) /\ jobs[queue[a + 1]].status = "queued"
      BY <3>1 DEF IInv, QueueInv
    <3>3. queue[a + 1] # j
      BY <1>1, <3>1 DEF IInv, QueueInv
    <3> QED BY <1>4, <3>2, <3>3
  <2>2. \A a, b \in 1..Len(queue') : queue'[a] = queue'[b] => a = b
    <3> SUFFICES ASSUME NEW a \in 1..Len(queue'), NEW b \in 1..Len(queue'), queue[a + 1] = queue[b + 1] PROVE a = b
      BY <1>2
    <3>1. a + 1 \in 1..Len(queue) /\ b + 1 \in 1..Len(queue)
      BY <1>1, <1>2
    <3>2. a + 1 = b + 1
      BY <3>1 DEF IInv, QueueInv
    <3> QED BY <3>2
  <2>3. worker' \in [job : Nat, pc : Pcs] /\ worker'.job <= Len(jobs') /\ worker'.job # 0
    BY <1>1, <1>4, <1>5, JobsAre DEF Pcs
  <2>4. \A k \in 1..Len(jobs') : jobs'[k].status = "running" <=> ~At("idle")' /\ k = worker'.job
    BY <1>3, <1>4, <1>5 DEF IInv, QueueInv, At
  <2> QED BY <1>2, <2>1, <2>2, <2>3, <2>4 DEF QueueInv
<1>7. ConsentInv'
  <2>1. j \notin handed \cup stopped
    BY <1>1, <1>5 DEF IInv, ConsentInv, At
  <2>2. \A k \in 1..Len(jobs') : IF jobs'[k].source = Manual THEN ~jobs'[k].consent /\ jobs'[k].seen = {}
                                                             ELSE jobs'[k].consent \in jobs'[k].seen
    <3> SUFFICES ASSUME NEW k \in 1..Len(jobs)
                 PROVE  IF jobs'[k].source = Manual THEN ~jobs'[k].consent /\ jobs'[k].seen = {}
                                                    ELSE jobs'[k].consent \in jobs'[k].seen
      BY <1>4
    <3>1. jobs'[k].source = jobs[k].source /\ jobs'[k].consent = jobs[k].consent /\ jobs'[k].seen = jobs[k].seen
      BY <1>3, <1>4
    <3> QED BY <3>1 DEF IInv, ConsentInv
  <2>3. \A k \in handed' \cup stopped' :
          /\ k \in 1..Len(jobs')
          /\ jobs'[k].consent /\ jobs'[k].reproduced
          /\ jobs'[k].status = "done" \/ (At("finish")' /\ k = worker'.job)
    BY <1>4, <1>5, <2>1 DEF IInv, ConsentInv, At
  <2>4. \A k \in 1..Len(jobs') :
          /\ jobs'[k].status = "done" \/ (At("finish")' /\ k = worker'.job)
          /\ jobs'[k].consent /\ jobs'[k].reproduced
          => k \in handed' \cup stopped'
    BY <1>3, <1>4, <1>5 DEF IInv, ConsentInv, At
  <2> QED BY <1>5, <2>2, <2>3, <2>4 DEF IInv, ConsentInv
<1> QED BY <1>4, <1>6, <1>7, Frames DEF StartJob, Outside, jira, intake, IInv

(* What an update of the thread's own job leaves of the jobs' consent. *)
LEMMA ConsentKeeps ==
  ASSUME IInv, ~At("idle"), Len(jobs') = Len(jobs),
         \A k \in 1..Len(jobs) : k # worker.job => jobs'[k] = jobs[k],
         jobs'[worker.job].source = Current.source, jobs'[worker.job].consent = Current.consent,
         jobs'[worker.job].seen = Current.seen
  PROVE  \A k \in 1..Len(jobs') : IF jobs'[k].source = Manual THEN ~jobs'[k].consent /\ jobs'[k].seen = {}
                                                              ELSE jobs'[k].consent \in jobs'[k].seen
<1> SUFFICES ASSUME NEW k \in 1..Len(jobs)
             PROVE  IF jobs'[k].source = Manual THEN ~jobs'[k].consent /\ jobs'[k].seen = {}
                                                ELSE jobs'[k].consent \in jobs'[k].seen
  OBVIOUS
<1>1. jobs'[k].source = jobs[k].source /\ jobs'[k].consent = jobs[k].consent /\ jobs'[k].seen = jobs[k].seen
  BY DEF Current
<1> QED BY <1>1 DEF IInv, ConsentInv

LEMMA InvestigateKeeps == ASSUME IInv, Investigate PROVE IInv'
<1>1. ~At("idle") /\ worker.pc = "run"
  BY DEF Investigate, At
<1>2. PICK reproduced \in BOOLEAN : jobs' = [jobs EXCEPT ![worker.job].reproduced = reproduced]
  BY DEF Investigate
<1> DEFINE job == [Current EXCEPT !.reproduced = reproduced]
<1>3. /\ job \in JobRecord /\ job.source = Current.source /\ job.status = "running"
      /\ job.consent = Current.consent /\ job.seen = Current.seen
  BY <1>1, WorkerIs DEF JobRecord, Statuses
<1>4. jobs' = [jobs EXCEPT ![worker.job] = job] /\ UNCHANGED <<issueJobs, queue, handed, stopped>>
  BY <1>2 DEF Investigate, Outside, intake, Current
<1> HIDE DEF job
<1>5. /\ worker' \in [job : Nat, pc : Pcs] /\ worker'.job = worker.job
      /\ worker'.pc = IF Current.source = Manual THEN "finish" ELSE "comment"
  BY WorkerIs DEF Investigate, Go, Pcs
<1>6. /\ Len(jobs') = Len(jobs) /\ jobs'[worker.job] = job
      /\ \A k \in 1..Len(jobs) : k # worker.job => jobs'[k] = jobs[k]
      /\ RouterInv' /\ QueueInv'
  BY <1>1, <1>3, <1>4, <1>5, WorkerIs, OwnJobKeeps
<1>7. ConsentInv'
  <2>1. worker.job \notin handed \cup stopped
    BY <1>1, WorkerIs DEF IInv, ConsentInv, At, Current
  <2>2. worker'.pc \in {"comment", "continue"} => Current'.source # Manual
    BY <1>3, <1>5, <1>6 DEF Current
  <2>3. \A k \in handed' \cup stopped' :
          /\ k \in 1..Len(jobs')
          /\ jobs'[k].consent /\ jobs'[k].reproduced
          /\ jobs'[k].status = "done" \/ (At("finish")' /\ k = worker'.job)
    BY <1>1, <1>4, <1>6, <2>1 DEF IInv, ConsentInv, At
  <2>4. \A k \in 1..Len(jobs') :
          /\ jobs'[k].status = "done" \/ (At("finish")' /\ k = worker'.job)
          /\ jobs'[k].consent /\ jobs'[k].reproduced
          => k \in handed' \cup stopped'
    <3>1. At("finish")' => ~Current.consent
      <4>1. At("finish")' => Current.source = Manual
        BY <1>5 DEF At
      <4> QED BY <1>1, <4>1, WorkerIs DEF IInv, ConsentInv, Current
    <3>2. ASSUME NEW k \in 1..Len(jobs), k # worker.job, jobs[k].status = "done", jobs[k].consent, jobs[k].reproduced
          PROVE  k \in handed \cup stopped
      BY <3>2 DEF IInv, ConsentInv
    <3> QED BY <1>3, <1>4, <1>5, <1>6, <3>1, <3>2
  <2>5. \A k \in 1..Len(jobs') : IF jobs'[k].source = Manual THEN ~jobs'[k].consent /\ jobs'[k].seen = {}
                                                             ELSE jobs'[k].consent \in jobs'[k].seen
    BY <1>1, <1>3, <1>6, ConsentKeeps
  <2>6. handed' \cap stopped' = {}
    BY <1>4 DEF IInv, ConsentInv
  <2> QED BY <2>2, <2>3, <2>4, <2>5, <2>6 DEF ConsentInv
<1>8. FlagsInv'
  BY DEF Investigate, Outside, intake, IInv, FlagsInv
<1> QED BY <1>6, <1>7, <1>8, Frames DEF Investigate, Outside, jira, intake, IInv

LEMMA MarkFailedKeeps == ASSUME IInv, MarkFailed PROVE IInv'
<1> DEFINE job == [Current EXCEPT !.status = "failed"]
<1>1. ~At("idle") /\ worker.pc = "run" /\ worker' = [job |-> 0, pc |-> "idle"]
  BY DEF MarkFailed, At, Idle
<1>2. /\ job \in JobRecord /\ job.source = Current.source /\ job.status = "failed"
      /\ job.consent = Current.consent /\ job.seen = Current.seen
  BY <1>1, WorkerIs DEF JobRecord, Statuses
<1>3. jobs' = [jobs EXCEPT ![worker.job] = job] /\ UNCHANGED <<issueJobs, queue, handed, stopped>>
  BY DEF MarkFailed, Outside, intake, Current
<1> HIDE DEF job
<1>4. /\ Len(jobs') = Len(jobs) /\ jobs'[worker.job] = job
      /\ \A k \in 1..Len(jobs) : k # worker.job => jobs'[k] = jobs[k]
      /\ RouterInv' /\ QueueInv'
  <2>1. worker' \in [job : Nat, pc : Pcs] /\ worker'.job <= Len(jobs) /\ worker'.pc = "idle"
    BY <1>1, JobsAre DEF Pcs
  <2> QED BY <1>1, <1>2, <1>3, <2>1, OwnJobKeeps
<1>5. ConsentInv'
  <2>1. worker.job \notin handed \cup stopped
    BY <1>1, WorkerIs DEF IInv, ConsentInv, At, Current
  <2>2. \A k \in handed' \cup stopped' :
          /\ k \in 1..Len(jobs')
          /\ jobs'[k].consent /\ jobs'[k].reproduced
          /\ jobs'[k].status = "done" \/ (At("finish")' /\ k = worker'.job)
    BY <1>1, <1>3, <1>4, <2>1 DEF IInv, ConsentInv, At
  <2>3. \A k \in 1..Len(jobs') :
          /\ jobs'[k].status = "done" \/ (At("finish")' /\ k = worker'.job)
          /\ jobs'[k].consent /\ jobs'[k].reproduced
          => k \in handed' \cup stopped'
    BY <1>1, <1>2, <1>3, <1>4 DEF IInv, ConsentInv, At
  <2>4. \A k \in 1..Len(jobs') : IF jobs'[k].source = Manual THEN ~jobs'[k].consent /\ jobs'[k].seen = {}
                                                             ELSE jobs'[k].consent \in jobs'[k].seen
    BY <1>1, <1>2, <1>4, ConsentKeeps
  <2>5. handed' \cap stopped' = {}
    BY <1>3 DEF IInv, ConsentInv
  <2> QED BY <1>1, <2>2, <2>3, <2>4, <2>5 DEF ConsentInv
<1> QED BY <1>4, <1>5, Frames DEF MarkFailed, Outside, jira, intake, IInv

LEMMA MarkDoneKeeps == ASSUME IInv, MarkDone PROVE IInv'
<1> DEFINE job == [Current EXCEPT !.status = "done"]
<1>1. ~At("idle") /\ At("finish") /\ worker' = [job |-> 0, pc |-> "idle"]
  BY DEF MarkDone, At, Idle
<1>2. /\ job \in JobRecord /\ job.source = Current.source /\ job.status = "done"
      /\ job.consent = Current.consent /\ job.seen = Current.seen /\ job.reproduced = Current.reproduced
  BY <1>1, WorkerIs DEF JobRecord, Statuses
<1>3. jobs' = [jobs EXCEPT ![worker.job] = job] /\ UNCHANGED <<issueJobs, queue, handed, stopped>>
  BY DEF MarkDone, Outside, intake, Current
<1> HIDE DEF job
<1>4. /\ Len(jobs') = Len(jobs) /\ jobs'[worker.job] = job
      /\ \A k \in 1..Len(jobs) : k # worker.job => jobs'[k] = jobs[k]
      /\ RouterInv' /\ QueueInv'
  <2>1. worker' \in [job : Nat, pc : Pcs] /\ worker'.job <= Len(jobs) /\ worker'.pc = "idle"
    BY <1>1, JobsAre DEF Pcs
  <2> QED BY <1>1, <1>2, <1>3, <2>1, OwnJobKeeps
<1>5. ConsentInv'
  <2>1. \A k \in handed' \cup stopped' :
          /\ k \in 1..Len(jobs')
          /\ jobs'[k].consent /\ jobs'[k].reproduced
          /\ jobs'[k].status = "done" \/ (At("finish")' /\ k = worker'.job)
    BY <1>1, <1>2, <1>3, <1>4 DEF IInv, ConsentInv, At, Current
  <2>2. \A k \in 1..Len(jobs') :
          /\ jobs'[k].status = "done" \/ (At("finish")' /\ k = worker'.job)
          /\ jobs'[k].consent /\ jobs'[k].reproduced
          => k \in handed' \cup stopped'
    BY <1>1, <1>2, <1>3, <1>4 DEF IInv, ConsentInv, At, Current
  <2>3. \A k \in 1..Len(jobs') : IF jobs'[k].source = Manual THEN ~jobs'[k].consent /\ jobs'[k].seen = {}
                                                             ELSE jobs'[k].consent \in jobs'[k].seen
    BY <1>1, <1>2, <1>4, ConsentKeeps
  <2>4. handed' \cap stopped' = {}
    BY <1>3 DEF IInv, ConsentInv
  <2> QED BY <1>1, <2>1, <2>2, <2>3, <2>4 DEF ConsentInv
<1>6. FlagsInv'
  BY DEF MarkDone, Outside, intake, IInv, FlagsInv
<1> QED BY <1>4, <1>5, <1>6, Frames DEF MarkDone, Outside, jira, intake, IInv

LEMMA PostKeeps == ASSUME IInv, NEW what \in {"evidence", "stopped"}, Post(what)
                   PROVE  comments' \in [Issues -> Seq({"evidence", "stopped"})]
<1>1. comments \in [Issues -> Seq({"evidence", "stopped"})]
  BY DEF IInv, FlagsInv
<1>2. CASE comments' = comments
  BY <1>1, <1>2
<1>3. CASE comments' = [comments EXCEPT ![Current.source] = Append(@, what)]
  <2>1. \A i \in Issues : Append(comments[i], what) \in Seq({"evidence", "stopped"})
    BY <1>1
  <2> QED BY <1>1, <1>3, <2>1
<1> QED BY <1>2, <1>3 DEF Post

LEMMA PostEvidenceKeeps == ASSUME IInv, PostEvidence PROVE IInv'
<1>1. ~At("idle") /\ At("comment") /\ Go("continue") /\ UNCHANGED <<jobs, queue, handed, stopped>>
  BY DEF PostEvidence, At
<1>2. QueueInv' /\ worker'.job = worker.job /\ worker'.pc = "continue"
  BY <1>1, GoKeeps DEF Pcs
<1>3. ConsentInv'
  BY <1>1, <1>2 DEF IInv, ConsentInv, At, Current
<1>4. FlagsInv'
  BY PostKeeps DEF PostEvidence, Outside, intake, IInv, FlagsInv
<1> QED BY <1>1, <1>2, <1>3, <1>4, Frames DEF PostEvidence, Outside, jira, intake, IInv

LEMMA SkipYoloKeeps == ASSUME IInv, SkipYolo PROVE IInv'
<1>1. ~At("idle") /\ At("continue") /\ Go("finish") /\ UNCHANGED <<jobs, queue>>
  BY DEF SkipYolo, At
<1>2. QueueInv' /\ worker'.job = worker.job /\ worker'.pc = "finish"
  BY <1>1, GoKeeps DEF Pcs
<1>3. worker.job \in 1..Len(jobs) /\ worker.job \notin handed \cup stopped
  BY <1>1, WorkerIs DEF IInv, ConsentInv, At, Current
<1>4. UNCHANGED <<handed, stopped>> /\ ~(jobs[worker.job].consent /\ jobs[worker.job].reproduced)
  BY DEF SkipYolo, Wanted, Current
<1>5. ConsentInv'
  <2>1. \A k \in handed' \cup stopped' :
          /\ k \in 1..Len(jobs')
          /\ jobs'[k].consent /\ jobs'[k].reproduced
          /\ jobs'[k].status = "done" \/ (At("finish")' /\ k = worker'.job)
    BY <1>1, <1>2, <1>3, <1>4 DEF IInv, ConsentInv, At
  <2>2. \A k \in 1..Len(jobs') :
          /\ jobs'[k].status = "done" \/ (At("finish")' /\ k = worker'.job)
          /\ jobs'[k].consent /\ jobs'[k].reproduced
          => k \in handed' \cup stopped'
    BY <1>1, <1>2, <1>4 DEF IInv, ConsentInv, At
  <2>3. handed' \cap stopped' = {}
    BY <1>3, <1>4 DEF IInv, ConsentInv
  <2> QED BY <1>1, <1>2, <2>1, <2>2, <2>3 DEF IInv, ConsentInv
<1> QED BY <1>1, <1>2, <1>5, Frames DEF SkipYolo, Outside, jira, intake, IInv

LEMMA TellStoppedKeeps == ASSUME IInv, TellStopped PROVE IInv'
<1>1. ~At("idle") /\ At("continue") /\ Go("finish") /\ UNCHANGED <<jobs, queue>>
  BY DEF TellStopped, At
<1>2. QueueInv' /\ worker'.job = worker.job /\ worker'.pc = "finish"
  BY <1>1, GoKeeps DEF Pcs
<1>3. worker.job \in 1..Len(jobs) /\ worker.job \notin handed \cup stopped
  BY <1>1, WorkerIs DEF IInv, ConsentInv, At, Current
<1>4. /\ handed' = handed /\ stopped' = stopped \cup {worker.job}
      /\ jobs[worker.job].consent /\ jobs[worker.job].reproduced
  BY DEF TellStopped, Wanted, Current
<1>5. ConsentInv'
  <2>1. \A k \in handed' \cup stopped' :
          /\ k \in 1..Len(jobs')
          /\ jobs'[k].consent /\ jobs'[k].reproduced
          /\ jobs'[k].status = "done" \/ (At("finish")' /\ k = worker'.job)
    BY <1>1, <1>2, <1>3, <1>4 DEF IInv, ConsentInv, At
  <2>2. \A k \in 1..Len(jobs') :
          /\ jobs'[k].status = "done" \/ (At("finish")' /\ k = worker'.job)
          /\ jobs'[k].consent /\ jobs'[k].reproduced
          => k \in handed' \cup stopped'
    BY <1>1, <1>2, <1>4 DEF IInv, ConsentInv, At
  <2>3. handed' \cap stopped' = {}
    BY <1>3, <1>4 DEF IInv, ConsentInv
  <2> QED BY <1>1, <1>2, <2>1, <2>2, <2>3 DEF IInv, ConsentInv
<1>6. FlagsInv'
  BY PostKeeps DEF TellStopped, Outside, intake, IInv, FlagsInv
<1> QED BY <1>1, <1>2, <1>5, <1>6, Frames DEF TellStopped, Outside, jira, intake, IInv

LEMMA HandOverKeeps == ASSUME IInv, HandOver PROVE IInv'
<1>1. ~At("idle") /\ At("continue") /\ Go("finish") /\ UNCHANGED <<jobs, queue>>
  BY DEF HandOver, At
<1>2. QueueInv' /\ worker'.job = worker.job /\ worker'.pc = "finish"
  BY <1>1, GoKeeps DEF Pcs
<1>3. worker.job \in 1..Len(jobs) /\ worker.job \notin handed \cup stopped
  BY <1>1, WorkerIs DEF IInv, ConsentInv, At, Current
<1>4. /\ stopped' = stopped /\ handed' = handed \cup {worker.job}
      /\ jobs[worker.job].consent /\ jobs[worker.job].reproduced
  BY DEF HandOver, Wanted, Current
<1>5. ConsentInv'
  <2>1. \A k \in handed' \cup stopped' :
          /\ k \in 1..Len(jobs')
          /\ jobs'[k].consent /\ jobs'[k].reproduced
          /\ jobs'[k].status = "done" \/ (At("finish")' /\ k = worker'.job)
    BY <1>1, <1>2, <1>3, <1>4 DEF IInv, ConsentInv, At
  <2>2. \A k \in 1..Len(jobs') :
          /\ jobs'[k].status = "done" \/ (At("finish")' /\ k = worker'.job)
          /\ jobs'[k].consent /\ jobs'[k].reproduced
          => k \in handed' \cup stopped'
    BY <1>1, <1>2, <1>4 DEF IInv, ConsentInv, At
  <2>3. handed' \cap stopped' = {}
    BY <1>3, <1>4 DEF IInv, ConsentInv
  <2> QED BY <1>1, <1>2, <2>1, <2>2, <2>3 DEF IInv, ConsentInv
<1> QED BY <1>1, <1>2, <1>5, Frames DEF HandOver, Outside, jira, intake, IInv

-----------------------------------------------------------------------------
(* Around the jobs. *)

LEMMA ClearRunsKeeps == ASSUME IInv, ClearRuns PROVE IInv'
<1>1. FlagsInv'
  BY DEF ClearRuns, intake, IInv, FlagsInv
<1> QED BY <1>1, Frames DEF ClearRuns, jira, intake, IInv

LEMMA CloseKeeps == ASSUME IInv, Close PROVE IInv'
<1>1. FlagsInv'
  BY DEF Close, intake, work, IInv, FlagsInv
<1> QED BY <1>1, Frames DEF Close, jira, intake, work, IInv

LEMMA StopKeeps == ASSUME IInv, Stop PROVE IInv'
<1>1. stops \in Nat /\ stops < MaxStops /\ stops' = stops + 1
  BY JiraIntakeAssumption DEF Stop, IInv, DeliveryInv
<1>2. FlagsInv'
  <2>1. yolo' \in BOOLEAN /\ stored' \in BOOLEAN /\ accepting' \in BOOLEAN
    BY Zenon DEF Stop
  <2> QED BY <2>1 DEF Stop, IInv, FlagsInv
<1>3. DeliveryInv'
  <2>1. stops' \in 0..MaxStops
    BY <1>1, JiraIntakeAssumption
  <2>2. \A i \in Issues : settled[i] \in Nat /\ settled[i] <= stops + 1
    BY DEF IInv, DeliveryInv
  <2>3. \A i \in Issues : settled[i] <= stops' + 1
    BY <1>1, <2>2
  <2> QED BY <2>1, <2>3 DEF Stop, IInv, DeliveryInv
<1>4. HandlerInv'
  BY DEF Stop, HandlerInv
<1>5. RouterInv'
  BY DEF Stop, RouterInv
<1>6. QueueInv'
  BY DEF Stop, QueueInv, At, Idle, Pcs
<1>7. ConsentInv'
  BY DEF Stop, ConsentInv, At, Idle
<1>8. AnswerInv'
  <2>1. \A i \in Issues : settled'[i] # stops' + 1
    BY <1>1 DEF Stop, IInv, DeliveryInv
  <2> QED BY <2>1, JiraIntakeAssumption DEF AnswerInv, AnsweredTicketHasJob
<1> QED BY <1>2, <1>3, <1>4, <1>5, <1>6, <1>7, <1>8 DEF IInv

-----------------------------------------------------------------------------
(* The invariant is inductive, so every behaviour has it. *)

LEMMA InvNext == IInv /\ [Next]_vars => IInv'
<1> SUFFICES ASSUME IInv, [Next]_vars PROVE IInv'
  OBVIOUS
<1>1. CASE UNCHANGED vars
  BY <1>1, Frames DEF vars, jira, intake, work, IInv
<1>2. CASE Next
  <2>1. ASSUME NEW i \in Issues, Send(i) \/ GatewayTimeout(i) PROVE IInv'
    BY <2>1, SendKeeps, GatewayTimeoutKeeps
  <2>2. ASSUME NEW r \in requests, Refuse(r) \/ ReadConsent(r) PROVE IInv'
    BY <2>2, RefuseKeeps, ReadConsentKeeps
  <2>3. CASE SubmitOnce \/ SetYolo \/ StartInvestigation
    BY <2>3, SubmitOnceKeeps, SetYoloKeeps, StartInvestigationKeeps
  <2>4. CASE Worker
    BY <2>4, StartJobKeeps, InvestigateKeeps, MarkFailedKeeps, PostEvidenceKeeps,
       SkipYoloKeeps, TellStoppedKeeps, HandOverKeeps, MarkDoneKeeps DEF Worker
  <2>5. CASE ClearRuns \/ Close \/ Stop
    BY <2>5, ClearRunsKeeps, CloseKeeps, StopKeeps
  <2> QED BY <1>2, <2>1, <2>2, <2>3, <2>4, <2>5 DEF Next
<1> QED BY <1>1, <1>2

THEOREM Invariance == Spec => []IInv
BY InvInit, InvNext, PTL DEF Spec

(* Every reachable state is well typed, and a job is queued once, running
   alone, or ended. *)
THEOREM TypeCorrect == Spec => []TypeOK
BY Invariance, InvTypes, PTL

(* However deliveries are repeated, delayed and reordered, a ticket has one
   job of the process and the router knows it (jira.py, submit_once). *)
THEOREM OneJobForEachTicket == Spec => []OneJobPerTicket
BY Invariance, InvProperties, PTL

(* No toggle after a ticket's accepted delivery decides whether it goes on to
   a fix (jira_api.py, api.py). *)
THEOREM ConsentIsCaptured == Spec => []ConsentAtIntake
BY Invariance, InvProperties, PTL

(* Jira is answered only once the ticket's job exists. *)
THEOREM AcknowledgedTicketsExist == Spec => []AnsweredTicketHasJob
BY Invariance, InvProperties, PTL

-----------------------------------------------------------------------------
(* The refinement: what the phases of the jobs are, and how a step of the
   intake moves them. *)

PhaseFacts(j) ==
  /\ j \in handed => Ended(j) = "handed"
  /\ j \notin handed /\ j \in stopped => Ended(j) = "stopped"
  /\ j \notin handed \cup stopped => Ended(j) = "closed"
  /\ jobs[j].status = "queued" => PhaseOfJob(j) = "accepted"
  /\ jobs[j].status = "failed" => PhaseOfJob(j) = "failed"
  /\ jobs[j].status = "done"   => PhaseOfJob(j) = Ended(j)
  /\ jobs[j].status = "running" =>
       /\ worker.pc \in {"run", "comment"} => PhaseOfJob(j) = "accepted"
       /\ worker.pc = "continue" => PhaseOfJob(j) = IF jobs[j].reproduced THEN "reproduced" ELSE "unreproduced"
       /\ worker.pc = "finish" => PhaseOfJob(j) = Ended(j)

LEMMA EndedIs == ASSUME NEW j, NEW H, NEW S, H \cap S = {}, NEW e,
                        e = (CASE j \in H -> "handed" [] j \in S -> "stopped" [] j \notin H \cup S -> "closed")
                 PROVE  e = IF j \in H THEN "handed" ELSE IF j \in S THEN "stopped" ELSE "closed"
OBVIOUS

LEMMA PhasesAre == ASSUME IInv, NEW j PROVE PhaseFacts(j)
<1>1. handed \cap stopped = {}
  BY DEF IInv, ConsentInv
<1>2. Ended(j) = IF j \in handed THEN "handed" ELSE IF j \in stopped THEN "stopped" ELSE "closed"
  BY <1>1, EndedIs DEF Ended
<1> HIDE DEF Ended
<1> QED BY <1>2 DEF PhaseFacts, PhaseOfJob, At

LEMMA PhasesAreNext == ASSUME IInv', NEW j PROVE PhaseFacts(j)'
<1>1. handed' \cap stopped' = {}
  BY DEF IInv, ConsentInv
<1>2. Ended(j)' = IF j \in handed' THEN "handed" ELSE IF j \in stopped' THEN "stopped" ELSE "closed"
  BY <1>1, EndedIs DEF Ended
<1> QED BY <1>2 DEF PhaseFacts, PhaseOfJob, At

(* A step that keeps the phase and the consent of every ticket's job is a
   stutter; one that changes a single job moves its ticket alone. *)
LEMMA JobOfIssue ==
  ASSUME IInv, NEW i \in Issues, issueJobs[i] # 0
  PROVE  issueJobs[i] \in 1..Len(jobs) /\ jobs[issueJobs[i]].source = i /\ i # Manual
BY JiraIntakeAssumption DEF IInv, RouterInv

LEMMA PhasesStay ==
  ASSUME IInv, UNCHANGED issueJobs,
         \A j \in 1..Len(jobs) : jobs[j].source # Manual =>
           PhaseOfJob(j)' = PhaseOfJob(j) /\ jobs'[j].consent = jobs[j].consent
  PROVE  UNCHANGED <<Phase, Consent>>
<1>1. \A i \in Issues : Phase'[i] = Phase[i]
  <2> SUFFICES ASSUME NEW i \in Issues, issueJobs[i] # 0
               PROVE  PhaseOfJob(issueJobs[i])' = PhaseOfJob(issueJobs[i])
    BY DEF Phase
  <2>1. PICK k \in 1..Len(jobs) : k = issueJobs[i] /\ k = issueJobs'[i] /\ jobs[k].source # Manual
    BY JobOfIssue
  <2>2. PhaseOfJob(k)' = PhaseOfJob(k)
    BY <2>1
  <2> QED BY <2>1, <2>2 DEF PhaseOfJob, Ended, At
<1>2. \A i \in Issues : Consent'[i] = Consent[i]
  BY JobOfIssue DEF Consent
<1> QED BY <1>1, <1>2 DEF Phase, Consent

LEMMA OthersStay ==
  ASSUME IInv, IInv', NEW j \in 1..Len(jobs), jobs[j].status # "running",
         jobs'[j] = jobs[j], j \in handed' <=> j \in handed, j \in stopped' <=> j \in stopped
  PROVE  PhaseOfJob(j)' = PhaseOfJob(j)
<1>1. PhaseFacts(j) /\ PhaseFacts(j)'
  BY PhasesAre, PhasesAreNext
<1>2. jobs[j].status \in {"queued", "done", "failed"}
  BY JobsAre DEF IInv, QueueInv, JobRecord, Statuses
<1> QED BY <1>1, <1>2 DEF PhaseFacts

LEMMA PhaseMoves ==
  ASSUME IInv, UNCHANGED issueJobs, NEW w \in 1..Len(jobs), jobs[w].source # Manual,
         \A j \in 1..Len(jobs) : jobs'[j].consent = jobs[j].consent,
         \A j \in 1..Len(jobs) : j # w => PhaseOfJob(j)' = PhaseOfJob(j)
  PROVE  LET i == jobs[w].source
         IN  /\ i \in Issues
             /\ Phase[i] = PhaseOfJob(w) /\ Phase' = [Phase EXCEPT ![i] = PhaseOfJob(w)']
             /\ Consent[i] = jobs[w].consent /\ UNCHANGED Consent
<1> DEFINE i == jobs[w].source
<1>1. i \in Issues /\ issueJobs[i] = w
  BY JobsAre, JiraIntakeAssumption DEF IInv, RouterInv, JobRecord
<1>2. Phase[i] = PhaseOfJob(w) /\ Phase'[i] = PhaseOfJob(w)'
  <2>1. w # 0 /\ issueJobs'[i] = w
    BY <1>1
  <2> QED BY <1>1, <2>1 DEF Phase, PhaseOfJob, Ended, At
<1>3. ASSUME NEW k \in Issues, k # i PROVE Phase'[k] = Phase[k]
  <2> SUFFICES ASSUME issueJobs[k] # 0 PROVE Phase'[k] = Phase[k]
    BY DEF Phase
  <2>1. PICK j \in 1..Len(jobs) : j = issueJobs[k] /\ j = issueJobs'[k] /\ j # w
    BY <1>3, JobOfIssue
  <2>2. PhaseOfJob(j)' = PhaseOfJob(j)
    BY <2>1
  <2> QED BY <2>1, <2>2 DEF Phase, PhaseOfJob, Ended, At
<1>4. \A k \in Issues : Consent'[k] = Consent[k]
  BY JobOfIssue DEF Consent
<1>5. Consent[i] = jobs[w].consent
  BY <1>1, JobsAre DEF Consent, JobRecord
<1> QED BY <1>1, <1>2, <1>3, <1>4, <1>5 DEF Phase, Consent

LEMMA RefinesInit == Init => Workflow!Init
<1> SUFFICES ASSUME Init PROVE Workflow!Init
  OBVIOUS
<1>1. Phase = [i \in Issues |-> "new"]
  BY DEF Init, Phase
<1>2. Consent = [i \in Issues |-> FALSE]
  BY DEF Init, Consent
<1> QED BY <1>1, <1>2 DEF Workflow!Init, Init

Stutters == UNCHANGED <<Phase, Consent, comments>>

LEMMA RegistryStays ==
  ASSUME IInv, UNCHANGED <<issueJobs, jobs, worker, handed, stopped, comments>> PROVE Stutters
<1>1. \A j : PhaseOfJob(j)' = PhaseOfJob(j)
  BY DEF PhaseOfJob, Ended, At
<1> QED BY <1>1, PhasesStay DEF Stutters

LEMMA RefinesSubmitOnce == ASSUME IInv, IInv', SubmitOnce PROVE Workflow!Next \/ Stutters
<1> DEFINE i == handler.request.issue
<1>1. i \in Issues /\ handler.consent \in BOOLEAN
  BY JiraIntakeAssumption DEF SubmitOnce, IInv, HandlerInv
<1>2. CASE issueJobs[i] # 0
  BY <1>2, RegistryStays DEF SubmitOnce
<1>3. CASE issueJobs[i] = 0
  <2> DEFINE job == Job(i, handler.consent, handler.seen)  w == Len(jobs) + 1
  <2>1. jobs' = Append(jobs, job) /\ issueJobs' = [issueJobs EXCEPT ![i] = w] /\ UNCHANGED <<worker, handed, stopped, comments>>
    BY <1>3 DEF SubmitOnce, Enqueue
  <2>2. job.status = "queued" /\ job.consent = handler.consent /\ job \in [source : {i}, consent : BOOLEAN,
          seen : {handler.seen}, status : {"queued"}, reproduced : {FALSE}]
    BY <1>1 DEF Job
  <2> HIDE DEF job
  <2>3. jobs'[w] = job /\ \A j \in 1..Len(jobs) : jobs'[j] = jobs[j]
    <3>1. jobs \in Seq(JobRecord \cup {job}) /\ job \in JobRecord \cup {job}
      BY JobsAre
    <3> QED BY <2>1, <3>1
  <2>4. \A k \in Issues : k # i => issueJobs'[k] = issueJobs[k]
    BY <2>1 DEF IInv, RouterInv
  <2>5. issueJobs'[i] = w /\ w # 0
    BY <1>1, <2>1, JobsAre DEF IInv, RouterInv
  <2>6. Phase' = [Phase EXCEPT ![i] = "accepted"] /\ Phase[i] = "new"
    <3>1. Phase[i] = "new"
      BY <1>1, <1>3 DEF Phase
    <3>2. Phase'[i] = "accepted"
      <4>1. PICK j : j = w
        OBVIOUS
      <4>2. PhaseOfJob(j)' = "accepted"
        BY <2>2, <2>3, <4>1, PhasesAreNext DEF PhaseFacts
      <4>3. j # 0 /\ issueJobs'[i] = j
        BY <2>5, <4>1
      <4>4. Phase'[i] = PhaseOfJob(j)'
        BY <1>1, <4>3 DEF Phase, PhaseOfJob, Ended, At
      <4> QED BY <4>2, <4>4
    <3>3. ASSUME NEW k \in Issues, k # i PROVE Phase'[k] = Phase[k]
      <4> SUFFICES ASSUME issueJobs[k] # 0 PROVE Phase'[k] = Phase[k]
        BY <2>4, <3>3 DEF Phase
      <4>1. PICK j \in 1..Len(jobs) : j = issueJobs[k] /\ j = issueJobs'[k]
        BY <2>4, <3>3, JobOfIssue
      <4>2. PhaseOfJob(j)' = PhaseOfJob(j)
        BY <2>1, <2>3 DEF PhaseOfJob, Ended, At
      <4> QED BY <4>1, <4>2 DEF Phase, PhaseOfJob, Ended, At
    <3> QED BY <3>1, <3>2, <3>3 DEF Phase
  <2>7. Consent' = [Consent EXCEPT ![i] = handler.consent]
    <3>1. Consent'[i] = handler.consent
      BY <1>1, <2>2, <2>3, <2>5 DEF Consent
    <3>2. ASSUME NEW k \in Issues, k # i PROVE Consent'[k] = Consent[k]
      BY <2>3, <2>4, <3>2, JobOfIssue DEF Consent
    <3> QED BY <3>1, <3>2 DEF Consent
  <2>8. Workflow!Accept(i)
    BY <1>1, <2>1, <2>6, <2>7 DEF Workflow!Accept, Workflow!Move
  <2> QED BY <1>1, <2>8 DEF Workflow!Next
<1> QED BY <1>2, <1>3

LEMMA RefinesStartJob == ASSUME IInv, IInv', StartJob PROVE Stutters
<1> DEFINE w == Head(queue)  job == [jobs[w] EXCEPT !.status = "running"]
<1>1. /\ w \in 1..Len(jobs) /\ jobs[w].status = "queued" /\ jobs[w] \in JobRecord
  <2>1. w \in 1..Len(jobs) /\ jobs[w].status = "queued"
    BY DEF StartJob, IInv, QueueInv
  <2> QED BY <2>1, JobsAre
<1>2. jobs' = [jobs EXCEPT ![w] = job] /\ UNCHANGED <<issueJobs, handed, stopped, comments>>
  BY DEF StartJob, Outside, intake
<1>3. job.status = "running" /\ job.consent = jobs[w].consent
  BY <1>1 DEF JobRecord
<1>4. At("idle") /\ worker' = [job |-> w, pc |-> "run"]
  BY DEF StartJob
<1> HIDE DEF w, job
<1>5. jobs'[w] = job /\ \A k \in 1..Len(jobs) : k # w => jobs'[k] = jobs[k]
  BY <1>1, <1>2, JobsAre
<1>6. ASSUME NEW j \in 1..Len(jobs) PROVE PhaseOfJob(j)' = PhaseOfJob(j) /\ jobs'[j].consent = jobs[j].consent
  <2>1. CASE j = w
    <3>1. jobs[j].status = "queued" /\ jobs'[j].status = "running" /\ worker'.pc = "run"
      BY <1>1, <1>3, <1>4, <1>5, <2>1
    <3>2. PhaseFacts(j) /\ PhaseFacts(j)'
      BY PhasesAre, PhasesAreNext
    <3> QED BY <1>3, <1>5, <2>1, <3>1, <3>2 DEF PhaseFacts
  <2>2. CASE j # w
    <3>1. jobs[j].status # "running" /\ jobs'[j] = jobs[j]
      BY <1>4, <1>5, <2>2 DEF IInv, QueueInv
    <3> QED BY <1>2, <3>1, OthersStay
  <2> QED BY <2>1, <2>2
<1> QED BY <1>2, <1>6, PhasesStay DEF Stutters

LEMMA OwnPhase ==
  ASSUME IInv, IInv', ~At("idle"), UNCHANGED issueJobs, NEW w, w = worker.job,
         \A k \in 1..Len(jobs) : k # w =>
           jobs'[k] = jobs[k] /\ (k \in handed' <=> k \in handed) /\ (k \in stopped' <=> k \in stopped),
         jobs'[w].consent = jobs[w].consent
  PROVE  /\ w \in 1..Len(jobs) /\ jobs[w].status = "running"
         /\ PhaseFacts(w) /\ PhaseFacts(w)'
         /\ PhaseOfJob(w)' = PhaseOfJob(w) \/ jobs[w].source = Manual => UNCHANGED <<Phase, Consent>>
         /\ jobs[w].source # Manual =>
              LET i == jobs[w].source
              IN  /\ i \in Issues
                  /\ Phase[i] = PhaseOfJob(w) /\ Phase' = [Phase EXCEPT ![i] = PhaseOfJob(w)']
                  /\ Consent[i] = jobs[w].consent /\ UNCHANGED Consent
<1>1. w \in 1..Len(jobs) /\ jobs[w].status = "running"
  BY WorkerIs DEF Current
<1>2. PhaseFacts(w) /\ PhaseFacts(w)'
  BY PhasesAre, PhasesAreNext
<1>3. ASSUME NEW j \in 1..Len(jobs), j # w PROVE PhaseOfJob(j)' = PhaseOfJob(j)
  <2>1. jobs[j].status # "running"
    BY <1>3 DEF IInv, QueueInv
  <2> QED BY <1>3, <2>1, OthersStay
<1>4. \A j \in 1..Len(jobs) : jobs'[j].consent = jobs[j].consent
  OBVIOUS
<1>5. PhaseOfJob(w)' = PhaseOfJob(w) \/ jobs[w].source = Manual => UNCHANGED <<Phase, Consent>>
  BY <1>3, <1>4, PhasesStay
<1>6. jobs[w].source # Manual =>
        LET i == jobs[w].source
        IN  /\ i \in Issues
            /\ Phase[i] = PhaseOfJob(w) /\ Phase' = [Phase EXCEPT ![i] = PhaseOfJob(w)']
            /\ Consent[i] = jobs[w].consent /\ UNCHANGED Consent
  BY <1>1, <1>3, <1>4, PhaseMoves
<1> QED BY <1>1, <1>2, <1>5, <1>6

LEMMA RefinesInvestigate == ASSUME IInv, IInv', Investigate PROVE Stutters
<1>1. PICK w : w = worker.job
  OBVIOUS
<1>2. ~At("idle") /\ worker.pc = "run" /\ w \in 1..Len(jobs) /\ jobs[w] \in JobRecord
  BY <1>1, WorkerIs DEF Investigate, At, Current
<1>3. PICK reproduced \in BOOLEAN : jobs' = [jobs EXCEPT ![w].reproduced = reproduced]
  BY <1>1 DEF Investigate
<1>4. jobs'[w].consent = jobs[w].consent /\ jobs'[w].status = jobs[w].status
  BY <1>2, <1>3, JobsAre DEF JobRecord
<1>5. \A k \in 1..Len(jobs) : k # w => jobs'[k] = jobs[k]
  BY <1>3, JobsAre
<1>6. UNCHANGED <<issueJobs, handed, stopped, comments>>
  BY DEF Investigate, Outside, intake
<1>7. /\ jobs[w].status = "running" /\ PhaseFacts(w) /\ PhaseFacts(w)'
      /\ PhaseOfJob(w)' = PhaseOfJob(w) \/ jobs[w].source = Manual => UNCHANGED <<Phase, Consent>>
  BY <1>1, <1>2, <1>4, <1>5, <1>6, OwnPhase
<1>8. jobs[w].source # Manual => worker'.pc = "comment"
  BY <1>1, WorkerIs DEF Investigate, Go, Current
<1>9. jobs[w].source # Manual => PhaseOfJob(w)' = PhaseOfJob(w)
  BY <1>2, <1>4, <1>7, <1>8 DEF PhaseFacts
<1> QED BY <1>6, <1>7, <1>9 DEF Stutters

LEMMA RefinesMarkFailed == ASSUME IInv, IInv', MarkFailed PROVE Workflow!Next \/ Stutters
<1>1. PICK w : w = worker.job
  OBVIOUS
<1>2. ~At("idle") /\ worker.pc = "run" /\ w \in 1..Len(jobs) /\ jobs[w] \in JobRecord
  BY <1>1, WorkerIs DEF MarkFailed, At, Current
<1>3. jobs' = [jobs EXCEPT ![w].status = "failed"] /\ UNCHANGED <<issueJobs, handed, stopped, comments>>
  BY <1>1 DEF MarkFailed, Outside, intake
<1>4. jobs'[w].consent = jobs[w].consent /\ jobs'[w].status = "failed"
  BY <1>2, <1>3, JobsAre DEF JobRecord
<1>5. \A k \in 1..Len(jobs) : k # w => jobs'[k] = jobs[k]
  BY <1>3, JobsAre
<1>6. /\ jobs[w].status = "running" /\ PhaseFacts(w) /\ PhaseFacts(w)'
      /\ jobs[w].source = Manual => UNCHANGED <<Phase, Consent>>
      /\ jobs[w].source # Manual =>
           LET i == jobs[w].source
           IN  /\ i \in Issues
               /\ Phase[i] = PhaseOfJob(w) /\ Phase' = [Phase EXCEPT ![i] = PhaseOfJob(w)']
               /\ UNCHANGED Consent
  BY <1>1, <1>2, <1>3, <1>4, <1>5, OwnPhase
<1>7. PhaseOfJob(w) = "accepted" /\ PhaseOfJob(w)' = "failed"
  BY <1>2, <1>4, <1>6 DEF PhaseFacts
<1>8. CASE jobs[w].source = Manual
  BY <1>3, <1>6, <1>8 DEF Stutters
<1>9. CASE jobs[w].source # Manual
  <2>1. Workflow!Fail(jobs[w].source) /\ jobs[w].source \in Issues
    BY <1>3, <1>6, <1>7, <1>9 DEF Workflow!Fail, Workflow!Move
  <2> QED BY <2>1 DEF Workflow!Next
<1> QED BY <1>8, <1>9

LEMMA RefinesPostEvidence == ASSUME IInv, IInv', PostEvidence PROVE Workflow!Next
<1>1. PICK w : w = worker.job
  OBVIOUS
<1>2. /\ ~At("idle") /\ worker.pc = "comment" /\ w \in 1..Len(jobs) /\ jobs[w].source # Manual
      /\ worker'.pc = "continue" /\ worker'.job = w
  BY <1>1, WorkerIs DEF PostEvidence, IInv, ConsentInv, At, Go, Current
<1>3. UNCHANGED <<issueJobs, jobs, handed, stopped>>
  BY DEF PostEvidence, Outside, intake
<1>4. /\ jobs[w].status = "running" /\ PhaseFacts(w) /\ PhaseFacts(w)'
      /\ LET i == jobs[w].source
         IN  /\ i \in Issues
             /\ Phase[i] = PhaseOfJob(w) /\ Phase' = [Phase EXCEPT ![i] = PhaseOfJob(w)']
             /\ UNCHANGED Consent
  BY <1>1, <1>2, <1>3, OwnPhase
<1>5. PhaseOfJob(w) = "accepted" /\ PhaseOfJob(w)' \in {"reproduced", "unreproduced"}
  BY <1>2, <1>3, <1>4 DEF PhaseFacts
<1>6. Workflow!Post(jobs[w].source, "evidence")
  BY <1>1 DEF PostEvidence, Post, Workflow!Post, Current
<1>7. Workflow!Report(jobs[w].source)
  BY <1>4, <1>5, <1>6 DEF Workflow!Report, Workflow!Move
<1> QED BY <1>4, <1>7 DEF Workflow!Next

LEMMA RefinesSkipYolo == ASSUME IInv, IInv', SkipYolo PROVE Workflow!Next
<1>1. PICK w : w = worker.job
  OBVIOUS
<1>2. /\ ~At("idle") /\ worker.pc = "continue" /\ w \in 1..Len(jobs) /\ jobs[w].source # Manual
      /\ worker'.pc = "finish" /\ worker'.job = w /\ w \notin handed \cup stopped
  BY <1>1, WorkerIs DEF SkipYolo, IInv, ConsentInv, At, Go, Current
<1>3. /\ UNCHANGED <<issueJobs, jobs>>
      /\ ~(jobs[w].consent /\ jobs[w].reproduced) /\ UNCHANGED <<handed, stopped, comments>>
  BY <1>1 DEF SkipYolo, Wanted, Outside, intake, Current
<1>4. /\ jobs[w].status = "running" /\ PhaseFacts(w) /\ PhaseFacts(w)'
      /\ LET i == jobs[w].source
         IN  /\ i \in Issues
             /\ Phase[i] = PhaseOfJob(w) /\ Phase' = [Phase EXCEPT ![i] = PhaseOfJob(w)']
             /\ Consent[i] = jobs[w].consent /\ UNCHANGED Consent
  BY <1>1, <1>2, <1>3, OwnPhase
<1>5. /\ PhaseOfJob(w) \in {"reproduced", "unreproduced"} /\ PhaseOfJob(w)' = "closed"
      /\ PhaseOfJob(w) = "reproduced" => ~jobs[w].consent
  BY <1>2, <1>3, <1>4 DEF PhaseFacts
<1>6. Workflow!Close(jobs[w].source)
  BY <1>3, <1>4, <1>5 DEF Workflow!Close, Workflow!Move
<1> QED BY <1>4, <1>6 DEF Workflow!Next

LEMMA RefinesTellStopped == ASSUME IInv, IInv', TellStopped PROVE Workflow!Next
<1>1. PICK w : w = worker.job
  OBVIOUS
<1>2. /\ ~At("idle") /\ worker.pc = "continue" /\ w \in 1..Len(jobs) /\ jobs[w].source # Manual
      /\ worker'.pc = "finish" /\ worker'.job = w /\ w \notin handed \cup stopped
  BY <1>1, WorkerIs DEF TellStopped, IInv, ConsentInv, At, Go, Current
<1>3. /\ UNCHANGED <<issueJobs, jobs>>
      /\ jobs[w].consent /\ jobs[w].reproduced
      /\ handed' = handed /\ stopped' = stopped \cup {w}
  BY <1>1 DEF TellStopped, Wanted, Outside, intake, Current
<1>4. /\ jobs[w].status = "running" /\ PhaseFacts(w) /\ PhaseFacts(w)'
      /\ LET i == jobs[w].source
         IN  /\ i \in Issues
             /\ Phase[i] = PhaseOfJob(w) /\ Phase' = [Phase EXCEPT ![i] = PhaseOfJob(w)']
             /\ Consent[i] = jobs[w].consent /\ UNCHANGED Consent
  BY <1>1, <1>2, <1>3, OwnPhase
<1>5. PhaseOfJob(w) = "reproduced" /\ PhaseOfJob(w)' = "stopped"
  BY <1>2, <1>3, <1>4 DEF PhaseFacts
<1>6. Workflow!Post(jobs[w].source, "stopped")
  BY <1>1 DEF TellStopped, Post, Workflow!Post, Current
<1>7. Workflow!TellStopped(jobs[w].source)
  BY <1>3, <1>4, <1>5, <1>6 DEF Workflow!TellStopped, Workflow!Move
<1> QED BY <1>4, <1>7 DEF Workflow!Next

LEMMA RefinesHandOver == ASSUME IInv, IInv', HandOver PROVE Workflow!Next
<1>1. PICK w : w = worker.job
  OBVIOUS
<1>2. /\ ~At("idle") /\ worker.pc = "continue" /\ w \in 1..Len(jobs) /\ jobs[w].source # Manual
      /\ worker'.pc = "finish" /\ worker'.job = w /\ w \notin handed \cup stopped
  BY <1>1, WorkerIs DEF HandOver, IInv, ConsentInv, At, Go, Current
<1>3. /\ UNCHANGED <<issueJobs, jobs>>
      /\ jobs[w].consent /\ jobs[w].reproduced
      /\ handed' = handed \cup {w} /\ stopped' = stopped /\ UNCHANGED comments
  BY <1>1 DEF HandOver, Wanted, Outside, intake, Current
<1>4. /\ jobs[w].status = "running" /\ PhaseFacts(w) /\ PhaseFacts(w)'
      /\ LET i == jobs[w].source
         IN  /\ i \in Issues
             /\ Phase[i] = PhaseOfJob(w) /\ Phase' = [Phase EXCEPT ![i] = PhaseOfJob(w)']
             /\ Consent[i] = jobs[w].consent /\ UNCHANGED Consent
  BY <1>1, <1>2, <1>3, OwnPhase
<1>5. PhaseOfJob(w) = "reproduced" /\ PhaseOfJob(w)' = "handed"
  BY <1>2, <1>3, <1>4 DEF PhaseFacts
<1>6. Workflow!HandOver(jobs[w].source)
  BY <1>3, <1>4, <1>5 DEF Workflow!HandOver, Workflow!Move
<1> QED BY <1>4, <1>6 DEF Workflow!Next

LEMMA RefinesMarkDone == ASSUME IInv, IInv', MarkDone PROVE Stutters
<1>1. PICK w : w = worker.job
  OBVIOUS
<1>2. ~At("idle") /\ worker.pc = "finish" /\ w \in 1..Len(jobs) /\ jobs[w] \in JobRecord
  BY <1>1, WorkerIs DEF MarkDone, At, Current
<1>3. jobs' = [jobs EXCEPT ![w].status = "done"] /\ UNCHANGED <<issueJobs, handed, stopped, comments>>
  BY <1>1 DEF MarkDone, Outside, intake
<1>4. jobs'[w].consent = jobs[w].consent /\ jobs'[w].status = "done"
  BY <1>2, <1>3, JobsAre DEF JobRecord
<1>5. \A k \in 1..Len(jobs) : k # w => jobs'[k] = jobs[k]
  BY <1>3, JobsAre
<1>6. /\ jobs[w].status = "running" /\ PhaseFacts(w) /\ PhaseFacts(w)'
      /\ PhaseOfJob(w)' = PhaseOfJob(w) => UNCHANGED <<Phase, Consent>>
  BY <1>1, <1>2, <1>3, <1>4, <1>5, OwnPhase
<1>7. PhaseOfJob(w)' = PhaseOfJob(w)
  <2>1. PhaseOfJob(w) = Ended(w) /\ PhaseOfJob(w)' = Ended(w)'
    BY <1>2, <1>4, <1>6 DEF PhaseFacts
  <2>2. Ended(w)' = Ended(w)
    BY <1>3 DEF Ended
  <2> QED BY <2>1, <2>2
<1> QED BY <1>3, <1>6, <1>7 DEF Stutters

LEMMA RefinesStartInvestigation == ASSUME IInv, StartInvestigation PROVE Stutters
<1>1. \A j \in 1..Len(jobs) : jobs'[j] = jobs[j]
  BY EnqueueKeeps DEF StartInvestigation
<1>2. UNCHANGED <<issueJobs, worker, handed, stopped, comments>>
  BY DEF StartInvestigation, intake
<1>3. \A j \in 1..Len(jobs) : PhaseOfJob(j)' = PhaseOfJob(j)
  BY <1>1, <1>2 DEF PhaseOfJob, Ended, At
<1> QED BY <1>1, <1>2, <1>3, PhasesStay DEF Stutters

LEMMA RefinesStop == ASSUME Stop PROVE Workflow!Next
<1>1. issueJobs' = [i \in Issues |-> 0] /\ UNCHANGED comments
  BY DEF Stop
<1>2. Phase' = [i \in Issues |-> "new"] /\ Consent' = [i \in Issues |-> FALSE]
  BY <1>1 DEF Phase, Consent
<1> QED BY <1>1, <1>2 DEF Workflow!Next, Workflow!Forget

(* Every step of the intake is a step of the workflow or none. *)
LEMMA RefinesNext ==
  IInv /\ IInv' /\ [Next]_vars => [Workflow!Next]_<<Phase, Consent, comments>>
<1> SUFFICES ASSUME IInv, IInv', [Next]_vars PROVE Workflow!Next \/ Stutters
  BY DEF Stutters
<1>1. CASE UNCHANGED vars
  BY <1>1, RegistryStays DEF vars, intake, work
<1>2. CASE Next
  <2>1. ASSUME NEW i \in Issues, Send(i) \/ GatewayTimeout(i) PROVE Stutters
    BY <2>1, RegistryStays DEF Send, GatewayTimeout, intake, work
  <2>2. ASSUME NEW r \in requests, Refuse(r) \/ ReadConsent(r) PROVE Stutters
    BY <2>2, RegistryStays DEF Refuse, ReadConsent, work
  <2>3. CASE SetYolo \/ ClearRuns \/ Close
    BY <2>3, RegistryStays DEF SetYolo, ClearRuns, Close, intake, work
  <2>4. CASE Worker
    BY <2>4, RefinesStartJob, RefinesInvestigate, RefinesMarkFailed, RefinesPostEvidence,
       RefinesSkipYolo, RefinesTellStopped, RefinesHandOver, RefinesMarkDone DEF Worker
  <2>5. CASE SubmitOnce \/ StartInvestigation \/ Stop
    BY <2>5, RefinesSubmitOnce, RefinesStartInvestigation, RefinesStop
  <2> QED BY <1>2, <2>1, <2>2, <2>3, <2>4, <2>5 DEF Next
<1> QED BY <1>1, <1>2

(* Per ticket and life of the process there is one acceptance, at most one
   evidence comment and at most one continuation, in this order and with the
   consent of the acceptance (jira_api.py, api.py). *)
THEOREM Refinement == Spec => ImplementsTicketWorkflow
<1>1. Init => Workflow!Init
  BY RefinesInit
<1>2. IInv /\ IInv' /\ [Next]_vars => [Workflow!Next]_<<Phase, Consent, comments>>
  BY RefinesNext
<1>3. Spec => []IInv
  BY Invariance
<1> QED BY <1>1, <1>2, <1>3, PTL DEF Spec, ImplementsTicketWorkflow, Workflow!Spec
=============================================================================

------------------------ MODULE FixPreparation_proofs ------------------------
(***************************************************************************)
(* Proofs about FixPreparation, for every set of runs, every budget of     *)
(* proposals and every number of jobs and stops: types, plans only for     *)
(* patches that passed every gate, retries only of what a proposal can     *)
(* correct, one answer for an autonomous workflow, and finished work that  *)
(* survives a restart.                                                     *)
(***************************************************************************)
EXTENDS FixPreparation, TLAPS

-----------------------------------------------------------------------------
(* The inductive invariant. *)

JobRecord == [ run : Runs, autonomous : BOOLEAN,
               status : {"queued", "running", "done", "failed"}, failures : Seq(BOOLEAN) ]

(* The budget of a job: while it is open, and when it ended well, every
   failure so far was correctable and there are attempts left; when it failed,
   only the last failure may be anything else, and it is correctable only if
   the budget is used up. *)
Budgeted ==
  { job \in JobRecord :
      /\ job.status # "failed" =>
           /\ Len(job.failures) < MaxFixAttempts
           /\ \A i \in 1..Len(job.failures) : job.failures[i] = TRUE
      /\ job.status = "failed" =>
           /\ Len(job.failures) \in 1..MaxFixAttempts
           /\ \A i \in 1..(Len(job.failures) - 1) : job.failures[i] = TRUE
           /\ job.failures[Len(job.failures)] = TRUE => Len(job.failures) = MaxFixAttempts }

PlanRecord == [run : Runs, regression : Nat, passed : SUBSET AllGates]

DiskInv ==
  /\ bundles \subseteq Runs /\ failureFile \subseteq Runs
  /\ plans \in Seq(PlanRecord)
  /\ \A i \in 1..Len(plans) : plans[i].passed = AllGates

FlagsInv ==
  /\ branchMoved \in BOOLEAN /\ accepting \in BOOLEAN
  /\ handover \subseteq Yolo /\ stops \in 0..MaxStops

(* Where a job of the registry can be. *)
QueueInv ==
  /\ unsubmitted \subseteq 1..Len(jobs)
  /\ \A j \in unsubmitted : jobs[j].status = "queued"
  /\ queue \in Seq(Nat)
  /\ \A a \in 1..Len(queue) :
       queue[a] \in 1..Len(jobs) /\ queue[a] \notin unsubmitted /\ jobs[queue[a]].status = "queued"
  /\ \A a, b \in 1..Len(queue) : queue[a] = queue[b] => a = b

Busy == AllGates \cup {"checkout", "write", "written"}
Pcs  == Busy \cup {"idle", "handoff", "record", "tell"}

(* The gates that are behind the current proposal at each point. *)
Behind == [ pc \in AllGates \cup {"checkout", "write"} |->
  CASE pc \in {"checkout", "request"} -> {}
    [] pc = "build"             -> {"request"}
    [] pc = "preflight"         -> {"request", "build"}
    [] pc = "regression_before" -> {"request", "build", "preflight"}
    [] pc = "apply"             -> {"request", "build", "preflight", "regression_before"}
    [] pc = "regression_after"  -> {"request", "build", "preflight", "regression_before", "apply"}
    [] pc = "suite"             -> AllGates \ {"suite"}
    [] pc = "write"             -> AllGates ]

ThreadInv ==
  /\ worker \in [job : Nat, pc : Pcs, passed : SUBSET AllGates]
  /\ worker.job <= Len(jobs)
  /\ worker.pc = "idle" <=> worker.job = 0
  /\ worker.pc \in AllGates \cup {"checkout", "write"} => worker.passed = Behind[worker.pc]
  /\ worker.pc \in Busy => jobs[worker.job].status = "running"
  /\ worker.pc = "handoff" => jobs[worker.job].status = "done" /\ jobs[worker.job].autonomous = TRUE
  /\ worker.pc \in {"record", "tell"} => jobs[worker.job].status = "failed"
  /\ worker.pc = "tell" => jobs[worker.job].autonomous = TRUE
  /\ \A j \in 1..Len(jobs) : jobs[j].status = "running" => j = worker.job

Prepared(r) == \E i \in 1..Len(plans) : plans[i].run = r

(* A job that is done has its plan on disk. *)
DoneInv ==
  /\ \A j \in 1..Len(jobs) : jobs[j].status = "done" => Prepared(jobs[j].run)
  /\ worker.pc = "written" => Prepared(jobs[worker.job].run)

(* A run that has jobs has a newest one. *)
NewestInv ==
  \A r \in Runs : (\E j \in 1..Len(jobs) : jobs[j].run = r) =>
    \E j \in 1..Len(jobs) : jobs[j].run = r /\ \A k \in 1..Len(jobs) : jobs[k].run = r => k <= j

Active(j) == j \in unsubmitted \/ (\E a \in 1..Len(queue) : queue[a] = j) \/ j = worker.job

(* An autonomous workflow is in one place: still with its investigation, in
   one job, or answered. *)
AnswerInv ==
  /\ answered \in [Runs -> Seq({"told", "queued"})]
  /\ \A r \in Runs : answered[r] = <<>> \/ answered[r] = <<"told">> \/ answered[r] = <<"queued">>
  /\ \A r \in handover : answered[r] = <<>>
  /\ \A j \in 1..Len(jobs) : jobs[j].autonomous = TRUE =>
       /\ jobs[j].run \notin handover
       /\ Active(j) => answered[jobs[j].run] = <<>>
       /\ \A k \in 1..Len(jobs) : jobs[k].autonomous = TRUE /\ jobs[k].run = jobs[j].run => j = k
  /\ \A r \in Yolo : accepting = TRUE /\ stops = 0 =>
       \/ r \in handover \/ answered[r] # <<>>
       \/ \E j \in 1..Len(jobs) : jobs[j].autonomous = TRUE /\ jobs[j].run = r /\ Active(j)
  /\ \A r \in Runs : answered[r] = <<"queued">> => Prepared(r)

JobsInv == jobs \in Seq(Budgeted)

IInv == JobsInv /\ DiskInv /\ FlagsInv /\ QueueInv /\ ThreadInv /\ DoneInv /\ NewestInv /\ AnswerInv

-----------------------------------------------------------------------------
(* The invariant says all that the checked properties say. *)

LEMMA SeqOfSubset ==
  ASSUME NEW S, NEW T, NEW s \in Seq(S), \A a \in 1..Len(s) : s[a] \in T
  PROVE  s \in Seq(T)
OBVIOUS

LEMMA AppendIs ==
  ASSUME NEW S, NEW s \in Seq(S), NEW e \in S
  PROVE  /\ Append(s, e) \in Seq(S) /\ Len(s) \in Nat /\ Len(Append(s, e)) = Len(s) + 1
         /\ Append(s, e)[Len(s) + 1] = e /\ \A i \in 1..Len(s) : Append(s, e)[i] = s[i]
OBVIOUS

LEMMA JobsAre ==
  ASSUME JobsInv
  PROVE  /\ Len(jobs) \in Nat /\ DOMAIN jobs = 1..Len(jobs)
         /\ \A j \in 1..Len(jobs) : jobs[j] \in Budgeted /\ jobs[j] \in JobRecord
         /\ jobs \in Seq(JobRecord)
<1>1. Len(jobs) \in Nat /\ DOMAIN jobs = 1..Len(jobs) /\ \A j \in 1..Len(jobs) : jobs[j] \in Budgeted
  BY DEF JobsInv
<1>2. Budgeted \subseteq JobRecord
  BY DEF Budgeted
<1>3. \A j \in 1..Len(jobs) : jobs[j] \in JobRecord
  BY <1>1, <1>2
<1>4. jobs \in Seq(JobRecord)
  BY <1>3, SeqOfSubset DEF JobsInv
<1> QED BY <1>1, <1>3, <1>4

LEMMA InvTypes == IInv => TypeOK
<1> SUFFICES ASSUME IInv PROVE TypeOK
  OBVIOUS
<1>1. Len(jobs) \in Nat /\ DOMAIN jobs = 1..Len(jobs) /\ jobs \in Seq(JobRecord)
  BY JobsAre DEF IInv
<1>2. queue \in Seq({ j \in DOMAIN jobs \ unsubmitted : jobs[j].status = "queued" })
  <2>1. \A a \in 1..Len(queue) : queue[a] \in { j \in DOMAIN jobs \ unsubmitted : jobs[j].status = "queued" }
    BY <1>1 DEF IInv, QueueInv
  <2>2. queue \in Seq(Nat) /\ DOMAIN queue = 1..Len(queue)
    BY DEF IInv, QueueInv
  <2> QED BY <2>1, <2>2, SeqOfSubset
<1>3. unsubmitted \subseteq { j \in DOMAIN jobs : jobs[j].status = "queued" }
  BY <1>1 DEF IInv, QueueInv
<1>4. \A i, k \in DOMAIN queue : queue[i] = queue[k] => i = k
  BY DEF IInv, QueueInv
<1>5. worker \in [ job : 0..Len(jobs), passed : SUBSET AllGates,
                   pc : AllGates \cup {"idle", "checkout", "write", "written", "handoff", "record", "tell"} ]
  BY <1>1 DEF IInv, ThreadInv, Pcs, Busy
<1>6. \A j \in DOMAIN jobs : jobs[j].status = "running" => j = worker.job
  BY <1>1 DEF IInv, ThreadInv
<1>7. plans \in Seq([run : Runs, regression : Nat, passed : SUBSET AllGates])
  BY DEF IInv, DiskInv, PlanRecord
<1>8. jobs \in Seq([ run : Runs, autonomous : BOOLEAN,
                     status : {"queued", "running", "done", "failed"}, failures : Seq(BOOLEAN) ])
  BY <1>1 DEF JobRecord
<1> QED
  BY <1>2, <1>3, <1>4, <1>5, <1>6, <1>7, <1>8 DEF TypeOK, IInv, DiskInv, FlagsInv, AnswerInv

LEMMA InvGates == IInv => PlansAreValidated
BY DEF IInv, DiskInv, PlansAreValidated

LEMMA InvRetries == IInv => RetriesAreCorrectable
<1> SUFFICES ASSUME IInv PROVE RetriesAreCorrectable
  OBVIOUS
<1> SUFFICES ASSUME NEW j \in DOMAIN jobs, NEW f \in Seq(BOOLEAN), f = jobs[j].failures
             PROVE  /\ \A i \in DOMAIN f :
                         f[i] \/ ((jobs[j].status = "failed" /\ ~f[Len(f)]) /\ i = Len(f))
                    /\ Len(f) <= MaxFixAttempts
                    /\ jobs[j].status = "failed" /\ ~(jobs[j].status = "failed" /\ ~f[Len(f)])
                       => Len(f) = MaxFixAttempts
  <2>1. \A j \in DOMAIN jobs : jobs[j].failures \in Seq(BOOLEAN)
    BY JobsAre DEF IInv, JobRecord
  <2> QED BY <2>1, Zenon DEF RetriesAreCorrectable
<1>1. f = jobs[j].failures /\ f \in Seq(BOOLEAN)
  OBVIOUS
<1>2. jobs[j] \in Budgeted
  BY JobsAre DEF IInv
<1>3. Len(f) \in Nat /\ DOMAIN f = 1..Len(f)
  BY <1>1
<1>0. MaxFixAttempts \in Nat
  BY FixPreparationAssumption
<1>4. CASE jobs[j].status # "failed"
  <2>1. Len(f) < MaxFixAttempts /\ \A i \in 1..Len(f) : f[i] = TRUE
    BY <1>1, <1>2, <1>4 DEF Budgeted
  <2>2. Len(f) <= MaxFixAttempts
    BY <1>0, <1>3, <2>1
  <2>3. \A i \in DOMAIN f : f[i]
    BY <1>3, <2>1, Zenon
  <2> QED BY <1>1, <1>4, <2>2, <2>3, Zenon
<1>5. CASE jobs[j].status = "failed"
  <2>1. Len(f) \in 1..MaxFixAttempts
    BY <1>1, <1>2, <1>5 DEF Budgeted
  <2>2. \A i \in 1..(Len(f) - 1) : f[i] = TRUE
    BY <1>1, <1>2, <1>5 DEF Budgeted
  <2>3. f[Len(f)] = TRUE => Len(f) = MaxFixAttempts
    BY <1>1, <1>2, <1>5 DEF Budgeted
  <2>4. Len(f) <= MaxFixAttempts
    BY <1>0, <2>1
  <2>0. Len(f) \in Nat
    BY <1>3
  <2>5. \A i \in 1..Len(f) : i \in 1..(Len(f) - 1) \/ i = Len(f)
    BY ONLY <2>0
  <2>6. Len(f) \in 1..Len(f)
    BY <1>0, <2>0, <2>1
  <2>7. f[Len(f)] \in BOOLEAN
    BY <1>1, <2>6
  <2>8. \A i \in DOMAIN f : f[i] \/ (~f[Len(f)] /\ i = Len(f))
    <3>1. f[Len(f)] = TRUE \/ f[Len(f)] = FALSE
      BY <2>7
    <3>2. \A i \in DOMAIN f : f[i] = TRUE \/ i = Len(f)
      BY <1>3, <2>2, <2>5, Zenon
    <3> QED BY <3>1, <3>2, Zenon
  <2>9. f[Len(f)] => Len(f) = MaxFixAttempts
    BY <2>3, <2>7, Zenon
  <2> QED BY <1>1, <1>5, <2>4, <2>8, <2>9, Zenon
<1> QED BY <1>4, <1>5

LEMMA InvAnswers == IInv => AutonomousAnswered
<1> SUFFICES ASSUME IInv, NEW r \in Yolo
             PROVE  /\ Len(answered[r]) <= 1
                    /\ accepting /\ stops = 0 /\ ~WorkingOn(r) => Len(answered[r]) = 1
                    /\ answered[r] = <<"queued">> => PlansOf(r) # {}
  BY DEF AutonomousAnswered
<1>1. r \in Runs
  BY FixPreparationAssumption
<1>2. answered[r] = <<>> \/ answered[r] = <<"told">> \/ answered[r] = <<"queued">>
  BY <1>1 DEF IInv, AnswerInv
<1>3. Len(answered[r]) <= 1 /\ (answered[r] # <<>> => Len(answered[r]) = 1)
  <2>1. PICK a : a = answered[r]
    OBVIOUS
  <2>2. a = <<>> \/ a = <<"told">> \/ a = <<"queued">>
    BY <1>2, <2>1
  <2>3. Len(<<>>) = 0 /\ Len(<<"told">>) = 1 /\ Len(<<"queued">>) = 1
    OBVIOUS
  <2>4. Len(a) = 0 \/ (Len(a) = 1 /\ a # <<>>)
    BY <2>2, <2>3
  <2>5. Len(a) <= 1
    <3>1. 0 <= 1 /\ 1 <= 1
      OBVIOUS
    <3> QED BY <2>4, <3>1, Zenon
  <2>6. a # <<>> => Len(a) = 1
    BY <2>2, <2>3
  <2> QED BY <2>1, <2>5, <2>6, Zenon
<1>4. answered[r] = <<"queued">> => PlansOf(r) # {}
  BY <1>1 DEF IInv, AnswerInv, Prepared, PlansOf, DiskInv
<1>5. ASSUME accepting, stops = 0, answered[r] = <<>> PROVE WorkingOn(r)
  <2>1. accepting = TRUE
    BY <1>5 DEF IInv, FlagsInv
  <2>2. CASE r \in handover
    BY <2>2 DEF WorkingOn
  <2>3. ASSUME NEW j \in 1..Len(jobs), jobs[j].autonomous = TRUE, jobs[j].run = r, Active(j) PROVE WorkingOn(r)
    <3>1. j \in JobsOf(r) /\ jobs[j].autonomous
      BY <2>3, JobsAre DEF IInv, JobsOf
    <3>2. jobs[j].status = "queued" \/ worker.job = j
      BY <2>3 DEF IInv, QueueInv, Active
    <3> QED BY <3>1, <3>2 DEF WorkingOn
  <2> QED BY <1>5, <2>1, <2>2, <2>3 DEF IInv, AnswerInv
<1> QED BY <1>3, <1>4, <1>5

-----------------------------------------------------------------------------
(* It holds at the start. *)

LEMMA InvInit == Init => IInv
<1> SUFFICES ASSUME Init PROVE IInv
  OBVIOUS
<1> USE FixPreparationAssumption DEF Init, Idle
<1>1. jobs = <<>> /\ Len(jobs) = 0 /\ plans = <<>> /\ Len(plans) = 0 /\ queue = <<>> /\ Len(queue) = 0
  OBVIOUS
<1>2. JobsInv
  BY DEF JobsInv
<1>3. DiskInv
  BY DEF DiskInv
<1>4. FlagsInv
  <2>1. branchMoved \in BOOLEAN /\ accepting \in BOOLEAN
    BY Zenon
  <2> QED BY <2>1 DEF FlagsInv
<1>5. QueueInv
  BY DEF QueueInv
<1>6. ThreadInv
  <2>1. worker = [job |-> 0, pc |-> "idle", passed |-> {}]
    BY Zenon
  <2> QED BY <1>1, <2>1 DEF ThreadInv, Pcs, Busy, AllGates
<1>7. DoneInv /\ NewestInv
  BY DEF DoneInv, NewestInv
<1>8. AnswerInv
  <2>1. answered \in [Runs -> Seq({"told", "queued"})] /\ \A r \in Runs : answered[r] = <<>>
    OBVIOUS
  <2>2. \A r \in Yolo : r \in handover /\ r \in Runs
    OBVIOUS
  <2> QED BY <1>1, <2>1, <2>2 DEF AnswerInv
<1> QED BY <1>2, <1>3, <1>4, <1>5, <1>6, <1>7, <1>8 DEF IInv

-----------------------------------------------------------------------------
(* What a change of the registry keeps. *)

LEMMA JobChanges ==
  ASSUME JobsInv, NEW k \in 1..Len(jobs), NEW job \in Budgeted, jobs' = [jobs EXCEPT ![k] = job]
  PROVE  /\ JobsInv' /\ Len(jobs') = Len(jobs) /\ jobs'[k] = job
         /\ \A j \in 1..Len(jobs) : j # k => jobs'[j] = jobs[j]
BY DEF JobsInv

LEMMA JobAppends ==
  ASSUME JobsInv, NEW job \in Budgeted, jobs' = Append(jobs, job)
  PROVE  /\ JobsInv' /\ Len(jobs') = Len(jobs) + 1 /\ jobs'[Len(jobs) + 1] = job
         /\ \A j \in 1..Len(jobs) : jobs'[j] = jobs[j]
BY DEF JobsInv

LEMMA RunsStay ==
  ASSUME NewestInv, Len(jobs') = Len(jobs), \A j \in 1..Len(jobs) : jobs'[j].run = jobs[j].run
  PROVE  NewestInv'
BY DEF NewestInv

(* The new job is the newest of its run and changes nothing for the others. *)
LEMMA NewestAppends ==
  ASSUME JobsInv, NewestInv, NEW job \in Budgeted, jobs' = Append(jobs, job)
  PROVE  NewestInv'
<1>1. /\ Len(jobs') = Len(jobs) + 1 /\ jobs'[Len(jobs) + 1] = job /\ Len(jobs) \in Nat
      /\ \A j \in 1..Len(jobs) : jobs'[j] = jobs[j]
  BY JobAppends, JobsAre
<1> SUFFICES ASSUME NEW r \in Runs, NEW n \in 1..Len(jobs'), jobs'[n].run = r
             PROVE  \E j \in 1..Len(jobs') : jobs'[j].run = r
                      /\ \A k \in 1..Len(jobs') : jobs'[k].run = r => k <= j
  BY DEF NewestInv
<1>2. CASE job.run = r
  <2>1. Len(jobs) + 1 \in 1..Len(jobs') /\ jobs'[Len(jobs) + 1].run = r
    BY <1>1, <1>2
  <2>2. \A k \in 1..Len(jobs') : k <= Len(jobs) + 1
    BY <1>1
  <2> QED BY <2>1, <2>2
<1>3. CASE job.run # r
  <2>1. \A k \in 1..Len(jobs') : jobs'[k].run = r => k \in 1..Len(jobs) /\ jobs[k].run = r
    BY <1>1, <1>3
  <2>2. PICK j \in 1..Len(jobs) : jobs[j].run = r /\ \A k \in 1..Len(jobs) : jobs[k].run = r => k <= j
    BY <2>1 DEF NewestInv
  <2>3. j \in 1..Len(jobs') /\ jobs'[j].run = r
    BY <1>1, <2>2
  <2> QED BY <2>1, <2>2, <2>3
<1> QED BY <1>2, <1>3

(* An autonomous workflow that neither moves nor is answered. *)
LEMMA AnswerStays ==
  ASSUME AnswerInv, UNCHANGED <<answered, handover>>,
         accepting' = TRUE /\ stops' = 0 => accepting = TRUE /\ stops = 0,
         \A r \in Runs : Prepared(r) => Prepared(r)',
         \A j \in 1..Len(jobs') : jobs'[j].autonomous = TRUE =>
           /\ j \in 1..Len(jobs) /\ jobs[j].autonomous = TRUE /\ jobs'[j].run = jobs[j].run
           /\ Active(j)' => Active(j),
         \A j \in 1..Len(jobs) : jobs[j].autonomous = TRUE =>
           /\ j \in 1..Len(jobs') /\ jobs'[j].autonomous = TRUE /\ jobs'[j].run = jobs[j].run
           /\ Active(j) => Active(j)'
  PROVE  AnswerInv'
<1>1. \A j \in 1..Len(jobs') : jobs'[j].autonomous = TRUE =>
       /\ jobs'[j].run \notin handover'
       /\ Active(j)' => answered'[jobs'[j].run] = <<>>
       /\ \A k \in 1..Len(jobs') : jobs'[k].autonomous = TRUE /\ jobs'[k].run = jobs'[j].run => j = k
  <2> HIDE DEF Active
  <2> QED BY DEF AnswerInv
<1>2. \A r \in Yolo : accepting' = TRUE /\ stops' = 0 =>
       \/ r \in handover' \/ answered'[r] # <<>>
       \/ \E j \in 1..Len(jobs') : jobs'[j].autonomous = TRUE /\ jobs'[j].run = r /\ Active(j)'
  BY DEF AnswerInv
<1>3. \A r \in Runs : answered'[r] = <<"queued">> => Prepared(r)'
  BY DEF AnswerInv
<1> QED BY <1>1, <1>2, <1>3 DEF AnswerInv

(* An autonomous job that ends with an answer, or with none after the
   executors have been shut down. *)
LEMMA AnswerEnds ==
  ASSUME JobsInv, FlagsInv, AnswerInv, UNCHANGED <<handover, plans, stops, accepting, jobs>>,
         NEW k \in 1..Len(jobs), jobs[k].autonomous = TRUE, Active(k), ~Active(k)',
         \A j \in 1..Len(jobs) : j # k => (Active(j)' <=> Active(j)),
         NEW how \in {"told", "queued"}, how = "queued" => Prepared(jobs[k].run),
         \/ answered' = [answered EXCEPT ![jobs[k].run] = Append(@, how)]
         \/ UNCHANGED answered /\ accepting = FALSE
  PROVE  AnswerInv'
<1>1. jobs[k].run \in Runs /\ answered[jobs[k].run] = <<>> /\ jobs[k].run \notin handover
  <2>1. jobs[k].run \in Runs
    BY JobsAre DEF JobRecord
  <2> QED BY <2>1 DEF AnswerInv
<1>2. CASE UNCHANGED answered /\ accepting = FALSE
  <2>1. \A r \in Runs : Prepared(r) <=> Prepared(r)'
    BY DEF Prepared
  <2>2. \A j \in 1..Len(jobs) : Active(j)' => Active(j)
    BY DEF AnswerInv
  <2> QED BY <1>2, <2>1, <2>2 DEF AnswerInv
<1>3. CASE answered' = [answered EXCEPT ![jobs[k].run] = Append(@, how)]
  <2> DEFINE run == jobs[k].run
  <2>1. Append(answered[run], how) = <<how>> /\ <<how>> \in Seq({"told", "queued"})
    BY <1>1
  <2>2. answered' = [answered EXCEPT ![run] = <<how>>] /\ <<how>> # <<>>
    BY <1>3, <2>1
  <2>3. run \in Runs /\ run \notin handover /\ answered[run] = <<>>
    BY <1>1
  <2> HIDE DEF run
  <2>4. /\ answered' \in [Runs -> Seq({"told", "queued"})] /\ answered'[run] = <<how>>
        /\ \A r \in Runs : r # run => answered'[r] = answered[r]
    BY <2>1, <2>2, <2>3 DEF AnswerInv
  <2>5. \A j \in 1..Len(jobs) : jobs[j].autonomous = TRUE /\ j # k => jobs[j].run # run
    BY DEF AnswerInv, run
  <2>6. \A r \in Runs : answered'[r] = <<>> \/ answered'[r] = <<"told">> \/ answered'[r] = <<"queued">>
    BY <2>4 DEF AnswerInv
  <2>7. \A r \in handover' : answered'[r] = <<>>
    BY <2>3, <2>4, FixPreparationAssumption DEF AnswerInv, FlagsInv
  <2>8. \A j \in 1..Len(jobs') : jobs'[j].autonomous = TRUE =>
         /\ jobs'[j].run \notin handover'
         /\ Active(j)' => answered'[jobs'[j].run] = <<>>
         /\ \A n \in 1..Len(jobs') : jobs'[n].autonomous = TRUE /\ jobs'[n].run = jobs'[j].run => j = n
    <3>1. \A j \in 1..Len(jobs) : jobs[j].run \in Runs
      BY JobsAre DEF JobRecord
    <3> QED BY <2>4, <2>5, <3>1 DEF AnswerInv
  <2>9. \A r \in Yolo : accepting' = TRUE /\ stops' = 0 =>
         \/ r \in handover' \/ answered'[r] # <<>>
         \/ \E j \in 1..Len(jobs') : jobs'[j].autonomous = TRUE /\ jobs'[j].run = r /\ Active(j)'
    <3> SUFFICES ASSUME NEW r \in Yolo, accepting' = TRUE, stops' = 0, r # run
                 PROVE  \/ r \in handover' \/ answered'[r] # <<>>
                        \/ \E j \in 1..Len(jobs') : jobs'[j].autonomous = TRUE /\ jobs'[j].run = r /\ Active(j)'
      BY <2>2, <2>4
    <3>1. r \in Runs /\ answered'[r] = answered[r]
      BY <2>4, FixPreparationAssumption
    <3> QED BY <3>1 DEF AnswerInv, run
  <2>10. \A r \in Runs : answered'[r] = <<"queued">> => Prepared(r)'
    <3>1. \A r \in Runs : Prepared(r) <=> Prepared(r)'
      BY DEF Prepared
    <3>2. <<how>> = <<"queued">> => how = "queued"
      OBVIOUS
    <3> QED BY <2>4, <3>1, <3>2 DEF AnswerInv, run
  <2> QED BY <2>4, <2>6, <2>7, <2>8, <2>9, <2>10 DEF AnswerInv
<1> QED BY <1>2, <1>3

-----------------------------------------------------------------------------
(* The gates: the thread goes on with its job and adds what it has passed. *)

LEMMA GateMoves ==
  ASSUME IInv, UNCHANGED <<disk, branchMoved, handover, jobs, unsubmitted, queue, accepting, answered, stops>>,
         worker.pc \in AllGates \cup {"checkout"}, NEW next \in AllGates \cup {"write"},
         worker'.pc = next, worker'.job = worker.job, worker'.passed = Behind[next],
         worker' \in [job : Nat, pc : Pcs, passed : SUBSET AllGates]
  PROVE  IInv'
<1> USE DEF IInv
<1>1. JobsInv' /\ DiskInv' /\ FlagsInv' /\ QueueInv' /\ NewestInv'
  BY DEF disk, JobsInv, DiskInv, FlagsInv, QueueInv, NewestInv
<1>2. next \notin {"idle", "handoff", "record", "tell", "written"} /\ next \in AllGates \cup {"checkout", "write"}
  BY DEF AllGates
<1>3. worker.pc # "idle" /\ worker.pc \in Busy
  BY DEF AllGates, Busy
<1>4. ThreadInv'
  BY <1>2, <1>3 DEF ThreadInv
<1>5. DoneInv'
  BY <1>2 DEF DoneInv, Prepared, disk
<1>6. AnswerInv'
  <2>1. \A j \in 1..Len(jobs) : Active(j)' <=> Active(j)
    BY DEF Active
  <2>2. \A r \in Runs : Prepared(r)' <=> Prepared(r)
    BY DEF Prepared, disk
  <2> HIDE DEF IInv
  <2>3. AnswerInv
    BY DEF IInv
  <2> QED BY <2>1, <2>2, <2>3, AnswerStays
<1> QED BY <1>1, <1>4, <1>5, <1>6

LEMMA CheckoutKeeps == ASSUME IInv, Checkout PROVE IInv'
<1>1. worker.pc = "checkout" /\ worker' = [worker EXCEPT !.pc = "request"]
      /\ UNCHANGED <<disk, branchMoved, handover, jobs, unsubmitted, queue, accepting, answered, stops>>
  BY DEF Checkout, At, Go, Others
<1>2. worker \in [job : Nat, pc : Pcs, passed : SUBSET AllGates] /\ worker.passed = Behind["checkout"]
  BY <1>1 DEF IInv, ThreadInv
<1>3. Behind["checkout"] = {} /\ Behind["request"] = {} /\ "request" \in AllGates /\ "request" \in Pcs
  BY DEF Behind, AllGates, Pcs, Busy
<1> QED BY <1>1, <1>2, <1>3, GateMoves

LEMMA PassKeeps ==
  ASSUME IInv, NEW gate \in AllGates, NEW next \in AllGates \cup {"write"},
         Behind[next] = Behind[gate] \cup {gate}, Pass(gate, next)
  PROVE  IInv'
<1>1. worker.pc = gate /\ worker' = [worker EXCEPT !.pc = next, !.passed = @ \cup {gate}]
      /\ UNCHANGED <<disk, branchMoved, handover, jobs, unsubmitted, queue, accepting, answered, stops>>
  BY DEF Pass, At, Others
<1>2. worker \in [job : Nat, pc : Pcs, passed : SUBSET AllGates] /\ worker.passed = Behind[gate]
  BY <1>1 DEF IInv, ThreadInv
<1>3. next \in Pcs
  BY DEF Pcs, Busy
<1>4. worker' \in [job : Nat, pc : Pcs, passed : SUBSET AllGates]
      /\ worker'.pc = next /\ worker'.job = worker.job /\ worker'.passed = Behind[next]
  BY <1>1, <1>2, <1>3
<1> QED BY <1>1, <1>4, GateMoves

LEMMA GatesKeep ==
  ASSUME IInv, RequestEdits \/ BuildPatch \/ PreflightPatch \/ ConfirmFailure \/ ApplyPatch \/ ConfirmFix \/ RunSuite
  PROVE  IInv'
<1> USE DEF AllGates
<1>1. /\ Behind["request"] = {} /\ Behind["build"] = {"request"} /\ Behind["preflight"] = {"request", "build"}
      /\ Behind["regression_before"] = {"request", "build", "preflight"}
      /\ Behind["apply"] = {"request", "build", "preflight", "regression_before"}
      /\ Behind["regression_after"] = {"request", "build", "preflight", "regression_before", "apply"}
      /\ Behind["suite"] = AllGates \ {"suite"} /\ Behind["write"] = AllGates
  BY DEF Behind
<1>2. CASE RequestEdits
  BY <1>1, <1>2, PassKeeps DEF RequestEdits
<1>3. CASE BuildPatch
  BY <1>1, <1>3, PassKeeps DEF BuildPatch
<1>4. CASE PreflightPatch
  BY <1>1, <1>4, PassKeeps DEF PreflightPatch
<1>5. CASE ConfirmFailure
  BY <1>1, <1>5, PassKeeps DEF ConfirmFailure
<1>6. CASE ApplyPatch
  BY <1>1, <1>6, PassKeeps DEF ApplyPatch
<1>7. CASE ConfirmFix
  BY <1>1, <1>7, PassKeeps DEF ConfirmFix
<1>8. CASE RunSuite
  BY <1>1, <1>8, PassKeeps DEF RunSuite
<1> QED BY <1>2, <1>3, <1>4, <1>5, <1>6, <1>7, <1>8

-----------------------------------------------------------------------------
(* The thread changes the state of its job. *)

(* Another state of the thread's own job, which stays with the thread unless
   it is not autonomous. *)
LEMMA OwnJobChanges ==
  ASSUME IInv, UNCHANGED <<disk, branchMoved, handover, unsubmitted, queue, accepting, answered, stops>>,
         worker.pc \in Busy, NEW job \in Budgeted, jobs' = [jobs EXCEPT ![worker.job] = job],
         job.run = jobs[worker.job].run, job.autonomous = jobs[worker.job].autonomous,
         job.status = "done" => Prepared(job.run),
         \/ worker'.job = worker.job
         \/ worker'.job = 0 /\ job.autonomous # TRUE,
         worker'.pc # "written"
  PROVE  /\ JobsInv' /\ DiskInv' /\ FlagsInv' /\ QueueInv' /\ DoneInv' /\ NewestInv' /\ AnswerInv'
         /\ Len(jobs') = Len(jobs) /\ worker.job \in 1..Len(jobs) /\ jobs'[worker.job] = job
         /\ \A j \in 1..Len(jobs) : j # worker.job => jobs'[j] = jobs[j] /\ jobs[j].status # "running"
<1>1. worker.job \in 1..Len(jobs) /\ jobs[worker.job].status = "running" /\ JobsInv /\ Len(jobs) \in Nat
  <2>1. worker.pc # "idle"
    BY DEF Busy, AllGates
  <2> QED BY <2>1, JobsAre DEF IInv, ThreadInv
<1>2. /\ JobsInv' /\ Len(jobs') = Len(jobs) /\ jobs'[worker.job] = job
      /\ \A j \in 1..Len(jobs) : j # worker.job => jobs'[j] = jobs[j]
  BY <1>1, JobChanges
<1>3. \A j \in 1..Len(jobs) : jobs'[j].run = jobs[j].run /\ jobs'[j].autonomous = jobs[j].autonomous
  BY <1>2
<1>4. DiskInv' /\ FlagsInv'
  BY DEF IInv, DiskInv, FlagsInv, disk
<1>5. QueueInv'
  BY <1>1, <1>2 DEF IInv, QueueInv
<1>6. NewestInv'
  BY <1>2, <1>3, RunsStay DEF IInv
<1>7. \A r \in Runs : Prepared(r)' <=> Prepared(r)
  BY DEF Prepared, disk
<1>8. DoneInv'
  <2>1. \A j \in 1..Len(jobs) : jobs[j].run \in Runs
    BY <1>1, JobsAre DEF JobRecord
  <2> QED BY <1>1, <1>2, <1>7, <2>1 DEF IInv, DoneInv
<1>9. AnswerInv'
  <2>1. \A j \in 1..Len(jobs) : j # 0
    BY <1>1
  <2>2. \A j \in 1..Len(jobs) : j # worker.job => (Active(j)' <=> Active(j))
    <3>1. unsubmitted' = unsubmitted /\ queue' = queue /\ worker'.job \in {worker.job, 0}
      OBVIOUS
    <3> QED BY ONLY <2>1, <3>1 DEF Active
  <2>4. \A j \in 1..Len(jobs) : jobs[j].autonomous = TRUE => (Active(j)' <=> Active(j))
    <3> SUFFICES ASSUME NEW j \in 1..Len(jobs), jobs[j].autonomous = TRUE, j = worker.job PROVE Active(j)' <=> Active(j)
      BY <2>2
    <3>1. worker'.job = worker.job
      OBVIOUS
    <3> QED BY <3>1 DEF Active
  <2>5. AnswerInv
    BY DEF IInv
  <2> QED BY <1>2, <1>3, <1>7, <2>4, <2>5, AnswerStays
<1>10. \A j \in 1..Len(jobs) : j # worker.job => jobs[j].status # "running"
  BY DEF IInv, ThreadInv
<1> QED BY <1>1, <1>2, <1>4, <1>5, <1>6, <1>8, <1>9, <1>10

(* The thread of a running job. *)
LEMMA OwnJobIs ==
  ASSUME IInv, worker.pc \in Busy
  PROVE  /\ worker.job \in 1..Len(jobs) /\ jobs[worker.job] \in Budgeted /\ jobs[worker.job] \in JobRecord
         /\ jobs[worker.job].status = "running" /\ worker.job # 0
         /\ worker \in [job : Nat, pc : Pcs, passed : SUBSET AllGates]
<1>1. worker.pc # "idle"
  BY DEF Busy, AllGates
<1>2. worker.job \in 1..Len(jobs)
  BY <1>1, JobsAre DEF IInv, ThreadInv
<1> QED BY <1>2, JobsAre DEF IInv, ThreadInv

LEMMA CorrectKeeps == ASSUME IInv, Correct PROVE IInv'
<1>1. /\ worker.pc \in Correctable /\ Attempt < MaxFixAttempts
      /\ jobs' = [jobs EXCEPT ![worker.job].failures = Append(@, TRUE)]
      /\ worker' = [worker EXCEPT !.passed = {}, !.pc = "request"]
      /\ UNCHANGED <<disk, branchMoved, handover, unsubmitted, queue, accepting, answered, stops>>
  BY DEF Correct, Fail, Others
<1>2. worker.pc \in Busy
  BY <1>1 DEF Busy, AllGates, Correctable
<1>3. PICK old \in Budgeted : old = jobs[worker.job] /\ old \in JobRecord /\ old.status = "running"
  BY <1>2, OwnJobIs
<1>4. PICK job : job = [old EXCEPT !.failures = Append(@, TRUE)]
  OBVIOUS
<1>5. job \in Budgeted /\ job.run = old.run /\ job.autonomous = old.autonomous /\ job.status = "running"
  <2>1. old.failures \in Seq(BOOLEAN) /\ Len(old.failures) \in Nat
    BY <1>3 DEF JobRecord
  <2>2. Append(old.failures, TRUE) \in Seq(BOOLEAN) /\ Len(Append(old.failures, TRUE)) = Len(old.failures) + 1
    BY <2>1
  <2>3. job \in JobRecord /\ job.failures = Append(old.failures, TRUE) /\ job.status = "running"
        /\ job.run = old.run /\ job.autonomous = old.autonomous
    BY <1>3, <1>4, <2>2 DEF JobRecord
  <2>4. Len(old.failures) + 1 < MaxFixAttempts
    BY <1>1, <1>3 DEF Attempt, Job
  <2>5. \A i \in 1..Len(old.failures) : old.failures[i] = TRUE
    BY <1>3 DEF Budgeted
  <2>6. \A i \in 1..Len(job.failures) : job.failures[i] = TRUE
    <3>1. \A i \in 1..Len(job.failures) : i \in 1..Len(old.failures) \/ i = Len(old.failures) + 1
      BY <2>1, <2>2, <2>3
    <3>2. TRUE \in BOOLEAN
      BY Zenon
    <3>3. /\ Append(old.failures, TRUE)[Len(old.failures) + 1] = TRUE
          /\ \A i \in 1..Len(old.failures) : Append(old.failures, TRUE)[i] = old.failures[i]
      BY <2>1, <3>2, AppendIs
    <3> QED BY <2>3, <2>5, <3>1, <3>3, Zenon
  <2> QED BY <2>2, <2>3, <2>4, <2>6 DEF Budgeted
<1>6. jobs' = [jobs EXCEPT ![worker.job] = job]
  BY <1>1, <1>3, <1>4
<1>7. /\ worker \in [job : Nat, pc : Pcs, passed : SUBSET AllGates]
      /\ worker'.job = worker.job /\ worker'.pc = "request" /\ worker'.passed = {}
      /\ worker' \in [job : Nat, pc : Pcs, passed : SUBSET AllGates]
  BY <1>1, <1>2, OwnJobIs DEF Pcs, Busy, AllGates
<1>8. /\ JobsInv' /\ DiskInv' /\ FlagsInv' /\ QueueInv' /\ DoneInv' /\ NewestInv' /\ AnswerInv'
      /\ Len(jobs') = Len(jobs) /\ worker.job \in 1..Len(jobs) /\ jobs'[worker.job] = job
      /\ \A j \in 1..Len(jobs) : j # worker.job => jobs'[j] = jobs[j] /\ jobs[j].status # "running"
  BY <1>1, <1>2, <1>3, <1>5, <1>6, <1>7, OwnJobChanges
<1>9. ThreadInv'
  <2>1. Behind["request"] = {}
    BY DEF Behind, AllGates
  <2> QED BY <1>5, <1>7, <1>8, <2>1 DEF ThreadInv, IInv
<1> QED BY <1>8, <1>9 DEF IInv

LEMMA FailJobKeeps ==
  ASSUME IInv, worker.pc \in Busy, NEW correctable \in BOOLEAN, correctable = TRUE => Attempt = MaxFixAttempts,
         FailJob(correctable)
  PROVE  IInv'
<1>1. /\ jobs' = [jobs EXCEPT ![worker.job].status = "failed", ![worker.job].failures = Append(@, correctable)]
      /\ worker' = [worker EXCEPT !.pc = "record"]
      /\ UNCHANGED <<disk, branchMoved, handover, unsubmitted, queue, accepting, answered, stops>>
  BY DEF FailJob, Go, Others
<1>2. PICK old \in Budgeted : old = jobs[worker.job] /\ old \in JobRecord /\ old.status = "running"
  BY OwnJobIs
<1>3. PICK job : job = [old EXCEPT !.status = "failed", !.failures = Append(@, correctable)]
  OBVIOUS
<1>4. job \in Budgeted /\ job.run = old.run /\ job.autonomous = old.autonomous /\ job.status = "failed"
  <2>1. old.failures \in Seq(BOOLEAN)
    BY <1>2 DEF JobRecord
  <2>2. PICK f \in Seq(BOOLEAN) : f = Append(old.failures, correctable)
    BY <2>1, AppendIs
  <2>3. /\ Len(old.failures) \in Nat /\ Len(f) = Len(old.failures) + 1 /\ f[Len(f)] = correctable
        /\ \A i \in 1..Len(old.failures) : f[i] = old.failures[i]
    BY <2>1, <2>2, AppendIs
  <2>4. job \in JobRecord /\ job.failures = f /\ job.status = "failed"
        /\ job.run = old.run /\ job.autonomous = old.autonomous
    BY <1>2, <1>3, <2>2 DEF JobRecord
  <2>5. Len(old.failures) < MaxFixAttempts /\ \A i \in 1..Len(old.failures) : old.failures[i] = TRUE
    BY <1>2 DEF Budgeted
  <2>6. Len(f) \in 1..MaxFixAttempts /\ Len(f) - 1 = Len(old.failures)
    <3>1. MaxFixAttempts \in Nat /\ Len(old.failures) \in Nat /\ Len(f) = Len(old.failures) + 1
      BY <2>3, FixPreparationAssumption
    <3>2. Len(old.failures) < MaxFixAttempts
      BY <2>5
    <3> QED BY ONLY <3>1, <3>2
  <2>7. f[Len(f)] = TRUE => Len(f) = MaxFixAttempts
    <3>1. f[Len(f)] = TRUE => Attempt = MaxFixAttempts
      BY <2>3, Zenon
    <3>2. Attempt = Len(f)
      BY <1>2, <2>3 DEF Attempt, Job
    <3> QED BY <3>1, <3>2, Zenon
  <2>8. \A i \in 1..(Len(f) - 1) : f[i] = TRUE
    BY <2>3, <2>5, <2>6, Zenon
  <2>9. job.status = "failed" =>
           /\ Len(job.failures) \in 1..MaxFixAttempts
           /\ \A i \in 1..(Len(job.failures) - 1) : job.failures[i] = TRUE
           /\ job.failures[Len(job.failures)] = TRUE => Len(job.failures) = MaxFixAttempts
    BY <2>4, <2>6, <2>7, <2>8, Zenon
  <2> QED BY <2>4, <2>9 DEF Budgeted
<1>5. jobs' = [jobs EXCEPT ![worker.job] = job]
  BY <1>1, <1>2, <1>3
<1>6. /\ worker'.job = worker.job /\ worker'.pc = "record" /\ worker.job # 0
      /\ worker' \in [job : Nat, pc : Pcs, passed : SUBSET AllGates]
  BY <1>1, OwnJobIs DEF Pcs
<1>7. /\ JobsInv' /\ DiskInv' /\ FlagsInv' /\ QueueInv' /\ DoneInv' /\ NewestInv' /\ AnswerInv'
      /\ Len(jobs') = Len(jobs) /\ worker.job \in 1..Len(jobs) /\ jobs'[worker.job] = job
      /\ \A j \in 1..Len(jobs) : j # worker.job => jobs'[j] = jobs[j] /\ jobs[j].status # "running"
  BY <1>1, <1>2, <1>4, <1>5, <1>6, OwnJobChanges
<1>8. ThreadInv'
  BY <1>4, <1>6, <1>7 DEF ThreadInv, IInv, Busy, AllGates
<1> QED BY <1>7, <1>8 DEF IInv

LEMMA MarkFailedKeeps == ASSUME IInv, MarkFailed PROVE IInv'
<1>1. CASE LastCorrectable /\ FailJob(TRUE)
  <2>1. worker.pc \in Busy /\ Attempt = MaxFixAttempts
    BY <1>1 DEF LastCorrectable, Correctable, Busy, AllGates
  <2> QED BY <1>1, <2>1, FailJobKeeps
<1>2. CASE Fatal /\ FailJob(FALSE)
  <2>1. worker.pc \in Busy
    BY <1>2 DEF Fatal, Busy
  <2> QED BY <1>2, <2>1, FailJobKeeps
<1> QED BY <1>1, <1>2 DEF MarkFailed

LEMMA MarkDoneKeeps == ASSUME IInv, MarkDone PROVE IInv'
<1>1. /\ worker.pc = "written" /\ jobs' = [jobs EXCEPT ![worker.job].status = "done"]
      /\ worker' = IF jobs[worker.job].autonomous THEN [worker EXCEPT !.pc = "handoff"] ELSE Idle
      /\ UNCHANGED <<disk, branchMoved, handover, unsubmitted, queue, accepting, answered, stops>>
  BY DEF MarkDone, At, Done, AfterJob, Job, Others
<1>2. worker.pc \in Busy
  BY <1>1 DEF Busy
<1>3. PICK old \in Budgeted : old = jobs[worker.job] /\ old \in JobRecord /\ old.status = "running"
  BY <1>2, OwnJobIs
<1>4. PICK job : job = [old EXCEPT !.status = "done"]
  OBVIOUS
<1>5. job \in Budgeted /\ job.run = old.run /\ job.autonomous = old.autonomous /\ job.status = "done"
  <2>1. job \in JobRecord /\ job.failures = old.failures /\ job.status = "done"
        /\ job.run = old.run /\ job.autonomous = old.autonomous
    BY <1>3, <1>4 DEF JobRecord
  <2>2. Len(old.failures) < MaxFixAttempts /\ \A i \in 1..Len(old.failures) : old.failures[i] = TRUE
    BY <1>3 DEF Budgeted
  <2>3. job.status # "failed"
    BY <2>1
  <2> QED BY <2>1, <2>2, <2>3 DEF Budgeted
<1>6. jobs' = [jobs EXCEPT ![worker.job] = job]
  BY <1>1, <1>3, <1>4
<1>7. Prepared(job.run)
  BY <1>1, <1>3, <1>5 DEF IInv, DoneInv
<1>8. old.autonomous = TRUE \/ old.autonomous = FALSE
  BY <1>3 DEF JobRecord
<1>9. /\ old.autonomous = TRUE => worker' = [worker EXCEPT !.pc = "handoff"]
      /\ old.autonomous = FALSE => worker' = Idle
  BY <1>1, <1>3, Zenon
<1>10. worker \in [job : Nat, pc : Pcs, passed : SUBSET AllGates] /\ worker.job # 0
  BY <1>2, OwnJobIs
<1>11. /\ old.autonomous = TRUE => worker'.job = worker.job /\ worker'.pc = "handoff"
       /\ old.autonomous = FALSE => worker'.job = 0 /\ worker'.pc = "idle"
       /\ worker' \in [job : Nat, pc : Pcs, passed : SUBSET AllGates]
  BY <1>8, <1>9, <1>10 DEF Idle, Pcs
<1>12. worker'.pc # "written" /\ (worker'.job = worker.job \/ (worker'.job = 0 /\ job.autonomous # TRUE))
  <2>1. worker'.pc = "handoff" \/ worker'.pc = "idle"
    BY <1>8, <1>11
  <2>2. worker'.pc # "written"
    BY <2>1
  <2>3. worker'.job = worker.job \/ (worker'.job = 0 /\ job.autonomous # TRUE)
    <3>1. CASE old.autonomous = TRUE
      <4>1. worker'.job = worker.job
        BY <1>11, <3>1, Zenon
      <4> QED BY <4>1
    <3>2. CASE old.autonomous = FALSE
      <4>1. worker'.job = 0 /\ job.autonomous = FALSE
        BY <1>5, <1>11, <3>2, Zenon
      <4> QED BY <4>1
    <3> QED BY <1>8, <3>1, <3>2
  <2> QED BY <2>2, <2>3
<1>13. /\ JobsInv' /\ DiskInv' /\ FlagsInv' /\ QueueInv' /\ DoneInv' /\ NewestInv' /\ AnswerInv'
       /\ Len(jobs') = Len(jobs) /\ worker.job \in 1..Len(jobs) /\ jobs'[worker.job] = job
       /\ \A j \in 1..Len(jobs) : j # worker.job => jobs'[j] = jobs[j] /\ jobs[j].status # "running"
  BY <1>1, <1>2, <1>3, <1>5, <1>6, <1>7, <1>12, OwnJobChanges
<1>14. ThreadInv'
  <2>1. \A j \in 1..Len(jobs') : jobs'[j].status # "running"
    BY <1>5, <1>13
  <2>2. worker'.pc = "handoff" \/ worker'.pc = "idle"
    BY <1>8, <1>11
  <2>3. worker'.job <= Len(jobs') /\ (worker'.pc = "idle" <=> worker'.job = 0)
    BY <1>8, <1>10, <1>11, <1>13 DEF IInv, ThreadInv
  <2>4. worker'.pc = "handoff" => jobs'[worker'.job].status = "done" /\ jobs'[worker'.job].autonomous = TRUE
    BY <1>5, <1>8, <1>11, <1>13
  <2> QED BY <1>11, <2>1, <2>2, <2>3, <2>4 DEF ThreadInv, Busy, AllGates
<1> QED BY <1>13, <1>14 DEF IInv

LEMMA StartJobKeeps == ASSUME IInv, StartJob PROVE IInv'
<1>1. /\ worker.pc = "idle" /\ queue # <<>>
      /\ worker' = [job |-> Head(queue), pc |-> "checkout", passed |-> {}]
      /\ queue' = Tail(queue) /\ jobs' = [jobs EXCEPT ![Head(queue)].status = "running"]
      /\ UNCHANGED <<disk, branchMoved, handover, unsubmitted, accepting, answered, stops>>
  BY DEF StartJob, At
<1>2. PICK k : k = Head(queue)
  OBVIOUS
<1>3. /\ queue \in Seq(Nat) /\ Len(queue) \in Nat /\ Len(queue) >= 1 /\ k = queue[1]
      /\ Tail(queue) \in Seq(Nat) /\ Len(Tail(queue)) = Len(queue) - 1
      /\ \A a \in 1..Len(Tail(queue)) : a + 1 \in 1..Len(queue) /\ Tail(queue)[a] = queue[a + 1]
  BY <1>1, <1>2 DEF IInv, QueueInv
<1>4. k \in 1..Len(jobs) /\ k \notin unsubmitted /\ jobs[k].status = "queued" /\ Len(jobs) \in Nat
  BY <1>3, JobsAre DEF IInv, QueueInv
<1>5. PICK old \in Budgeted : old = jobs[k] /\ old \in JobRecord
  BY <1>4, JobsAre DEF IInv
<1>6. PICK job : job = [old EXCEPT !.status = "running"]
  OBVIOUS
<1>7. job \in Budgeted /\ job.run = old.run /\ job.autonomous = old.autonomous /\ job.status = "running"
  <2>1. job \in JobRecord /\ job.failures = old.failures /\ job.status = "running"
        /\ job.run = old.run /\ job.autonomous = old.autonomous
    BY <1>5, <1>6 DEF JobRecord
  <2>2. Len(old.failures) < MaxFixAttempts /\ \A i \in 1..Len(old.failures) : old.failures[i] = TRUE
    BY <1>4, <1>5 DEF Budgeted
  <2>3. job.status # "failed"
    BY <2>1
  <2> QED BY <2>1, <2>2, <2>3 DEF Budgeted
<1>8. jobs' = [jobs EXCEPT ![k] = job]
  BY <1>1, <1>2, <1>5, <1>6
<1>9. /\ JobsInv' /\ Len(jobs') = Len(jobs) /\ jobs'[k] = job
      /\ \A j \in 1..Len(jobs) : j # k => jobs'[j] = jobs[j]
  BY <1>4, <1>7, <1>8, JobChanges DEF IInv
<1>10. \A j \in 1..Len(jobs) : jobs'[j].run = jobs[j].run /\ jobs'[j].autonomous = jobs[j].autonomous
  BY <1>5, <1>7, <1>9
<1>11. DiskInv' /\ FlagsInv'
  BY <1>1 DEF IInv, DiskInv, FlagsInv, disk
<1>12. QueueInv'
  <2>1. unsubmitted' \subseteq 1..Len(jobs') /\ \A j \in unsubmitted' : jobs'[j].status = "queued"
    BY <1>1, <1>4, <1>9 DEF IInv, QueueInv
  <2>2. \A a \in 1..Len(Tail(queue)) : Tail(queue)[a] # k
    BY <1>3 DEF IInv, QueueInv
  <2>3. \A a \in 1..Len(Tail(queue)) :
         Tail(queue)[a] \in 1..Len(jobs') /\ Tail(queue)[a] \notin unsubmitted' /\ jobs'[Tail(queue)[a]].status = "queued"
    BY <1>1, <1>3, <1>9, <2>2 DEF IInv, QueueInv
  <2>4. \A a, b \in 1..Len(Tail(queue)) : Tail(queue)[a] = Tail(queue)[b] => a = b
    <3> SUFFICES ASSUME NEW a \in 1..Len(Tail(queue)), NEW b \in 1..Len(Tail(queue)), Tail(queue)[a] = Tail(queue)[b]
                 PROVE  a = b
      OBVIOUS
    <3>1. queue[a + 1] = queue[b + 1] /\ a + 1 \in 1..Len(queue) /\ b + 1 \in 1..Len(queue)
      BY <1>3
    <3>2. a + 1 = b + 1
      BY <3>1 DEF IInv, QueueInv
    <3> QED BY <1>3, <3>2
  <2> QED BY <1>1, <1>3, <2>1, <2>3, <2>4 DEF QueueInv
<1>13. ThreadInv'
  <2>1. worker'.job = k /\ worker'.pc = "checkout" /\ worker'.passed = {} /\ k # 0
        /\ worker' \in [job : Nat, pc : Pcs, passed : SUBSET AllGates]
    BY <1>1, <1>2, <1>4 DEF Pcs, Busy, AllGates
  <2>2. \A j \in 1..Len(jobs) : jobs[j].status # "running"
    BY <1>1, <1>4 DEF IInv, ThreadInv
  <2>3. Behind["checkout"] = {}
    BY DEF Behind, AllGates
  <2> QED BY <1>4, <1>7, <1>9, <2>1, <2>2, <2>3 DEF ThreadInv
<1>14. \A r \in Runs : Prepared(r)' <=> Prepared(r)
  BY <1>1 DEF Prepared, disk
<1>15. DoneInv'
  <2>1. \A j \in 1..Len(jobs) : jobs[j].run \in Runs
    BY JobsAre DEF JobRecord, IInv
  <2> QED BY <1>1, <1>7, <1>9, <1>14, <2>1 DEF IInv, DoneInv
<1>16. NewestInv'
  BY <1>9, <1>10, RunsStay DEF IInv
<1>17. AnswerInv'
  <2>1. worker.job = 0 /\ worker'.job = k /\ unsubmitted' = unsubmitted
    BY <1>1, <1>2 DEF IInv, ThreadInv
  <2>2. \A j \in 1..Len(jobs) : (\E a \in 1..Len(queue) : queue[a] = j) <=> j = k \/ \E a \in 1..Len(queue') : queue'[a] = j
    <3>1. queue' = Tail(queue) /\ \A a \in 1..Len(queue) : a = 1 \/ (a - 1 \in 1..Len(Tail(queue)) /\ Tail(queue)[a - 1] = queue[a])
      BY <1>1, <1>3
    <3>2. 1 \in 1..Len(queue)
      BY <1>3
    <3> QED BY <1>3, <3>1, <3>2
  <2>3. \A j \in 1..Len(jobs) : j # 0
    BY <1>4
  <2>4. \A j \in 1..Len(jobs) : Active(j)' <=> Active(j)
    BY <2>1, <2>2, <2>3, Zenon DEF Active
  <2>5. AnswerInv
    BY DEF IInv
  <2> QED BY <1>1, <1>9, <1>10, <1>14, <2>4, <2>5, AnswerStays
<1> QED BY <1>9, <1>11, <1>12, <1>13, <1>15, <1>16, <1>17 DEF IInv

-----------------------------------------------------------------------------
(* The plan, and the end of a job. *)

LEMMA WritePlanKeeps == ASSUME IInv, WritePlan PROVE IInv'
<1>1. /\ worker.pc = "write" /\ plans' = Append(plans, Plan) /\ worker' = [worker EXCEPT !.pc = "written"]
      /\ UNCHANGED <<bundles, failureFile, branchMoved, handover, jobs, unsubmitted, queue, accepting, answered, stops>>
  BY DEF WritePlan, At, Go, Others
<1>2. worker.pc \in Busy
  BY <1>1 DEF Busy
<1>3. /\ worker \in [job : Nat, pc : Pcs, passed : SUBSET AllGates] /\ worker.passed = AllGates
      /\ worker.job \in 1..Len(jobs) /\ jobs[worker.job] \in JobRecord /\ jobs[worker.job].status = "running"
      /\ worker.job # 0
  <2>1. Behind["write"] = AllGates
    BY DEF Behind
  <2> QED BY <1>1, <1>2, <2>1, OwnJobIs DEF IInv, ThreadInv
<1>4. PICK plan \in PlanRecord : plan = Plan /\ plan.passed = AllGates /\ plan.run = jobs[worker.job].run
  <2>1. PICK run \in Runs : run = jobs[worker.job].run
    BY <1>3 DEF JobRecord
  <2>2. Plan = [run |-> run, regression |-> 1, passed |-> AllGates]
    BY <1>3, <2>1 DEF Plan, Job
  <2>3. Plan \in PlanRecord /\ Plan.passed = AllGates /\ Plan.run = run
    BY <2>2 DEF PlanRecord
  <2> QED BY <2>1, <2>3
<1>5. /\ plans' \in Seq(PlanRecord) /\ Len(plans) \in Nat /\ Len(plans') = Len(plans) + 1
      /\ plans'[Len(plans) + 1] = plan /\ \A i \in 1..Len(plans) : plans'[i] = plans[i]
  BY <1>1, <1>4, AppendIs DEF IInv, DiskInv
<1>6. DiskInv'
  <2>1. \A i \in 1..Len(plans') : i \in 1..Len(plans) \/ i = Len(plans) + 1
    BY <1>5
  <2> QED BY <1>1, <1>4, <1>5, <2>1 DEF IInv, DiskInv
<1>7. JobsInv' /\ FlagsInv' /\ QueueInv' /\ NewestInv'
  BY <1>1 DEF IInv, JobsInv, FlagsInv, QueueInv, NewestInv
<1>8. worker'.pc = "written" /\ worker'.job = worker.job /\ worker' \in [job : Nat, pc : Pcs, passed : SUBSET AllGates]
  BY <1>1, <1>3 DEF Pcs, Busy
<1>9. ThreadInv'
  BY <1>1, <1>3, <1>8 DEF IInv, ThreadInv, AllGates
<1>10. \A r : Prepared(r) => Prepared(r)'
  BY <1>5 DEF Prepared
<1>11. DoneInv'
  <2>1. Prepared(plan.run)'
    BY <1>5 DEF Prepared
  <2> QED BY <1>1, <1>4, <1>8, <1>10, <2>1 DEF IInv, DoneInv
<1>12. AnswerInv'
  <2>1. \A j \in 1..Len(jobs) : Active(j)' <=> Active(j)
    BY <1>1, <1>8 DEF Active
  <2>2. AnswerInv
    BY DEF IInv
  <2> QED BY <1>1, <1>10, <2>1, <2>2, AnswerStays
<1> QED BY <1>6, <1>7, <1>9, <1>11, <1>12 DEF IInv

(* The thread lets go of an autonomous job. *)
LEMMA OwnJobEnds ==
  ASSUME IInv, UNCHANGED <<bundles, plans, branchMoved, handover, jobs, unsubmitted, queue, accepting, stops>>,
         worker.pc \in {"handoff", "tell"}, worker' = Idle, failureFile' = failureFile,
         NEW how \in {"told", "queued"}, how = "queued" => worker.pc = "handoff",
         \/ answered' = [answered EXCEPT ![jobs[worker.job].run] = Append(@, how)]
         \/ UNCHANGED answered /\ accepting = FALSE
  PROVE  IInv'
<1>1. JobsInv' /\ DiskInv' /\ FlagsInv' /\ QueueInv' /\ NewestInv'
  BY DEF IInv, JobsInv, DiskInv, FlagsInv, QueueInv, NewestInv
<1>2. worker.job \in 1..Len(jobs) /\ jobs[worker.job].autonomous = TRUE
      /\ jobs[worker.job].status \in {"done", "failed"} /\ Len(jobs) \in Nat
      /\ (worker.pc = "handoff" => jobs[worker.job].status = "done")
  BY JobsAre DEF IInv, ThreadInv
<1>3. worker'.job = 0 /\ worker'.pc = "idle" /\ worker' \in [job : Nat, pc : Pcs, passed : SUBSET AllGates]
  BY DEF Idle, Pcs
<1>4. ThreadInv'
  <2>1. \A j \in 1..Len(jobs) : jobs[j].status # "running"
    BY <1>2 DEF IInv, ThreadInv
  <2> QED BY <1>2, <1>3, <2>1 DEF ThreadInv, Busy, AllGates
<1>5. DoneInv'
  BY <1>3 DEF IInv, DoneInv, Prepared
<1>6. AnswerInv'
  <2>1. PICK k \in 1..Len(jobs) : k = worker.job
    BY <1>2
  <2>2. \A j \in unsubmitted : jobs[j].status = "queued"
    BY DEF IInv, QueueInv
  <2>3. \A a \in 1..Len(queue) : jobs[queue[a]].status = "queued"
    BY DEF IInv, QueueInv
  <2>4. \A j \in 1..Len(jobs) : j # 0
    BY <1>2
  <2>5. Active(k)
    BY <2>1 DEF Active
  <2>6. ~Active(k)'
    BY <1>2, <1>3, <2>1, <2>2, <2>3, <2>4 DEF Active
  <2>7. \A j \in 1..Len(jobs) : j # k => (Active(j)' <=> Active(j))
    <3>1. unsubmitted' = unsubmitted /\ queue' = queue /\ worker'.job = 0 /\ worker.job = k
      BY <1>3, <2>1
    <3> QED BY ONLY <2>4, <3>1 DEF Active
  <2>8. how = "queued" => Prepared(jobs[k].run)
    BY <1>2, <2>1 DEF IInv, DoneInv
  <2>9. JobsInv /\ FlagsInv /\ AnswerInv /\ jobs[k].autonomous = TRUE
    BY <1>2, <2>1 DEF IInv
  <2> QED BY <2>1, <2>5, <2>6, <2>7, <2>8, <2>9, AnswerEnds
<1> QED BY <1>1, <1>4, <1>5, <1>6 DEF IInv

LEMMA HandOffKeeps == ASSUME IInv, HandOff PROVE IInv'
<1>1. /\ worker.pc = "handoff" /\ worker' = Idle
      /\ UNCHANGED <<disk, branchMoved, handover, jobs, unsubmitted, queue, accepting, stops>>
      /\ IF accepting THEN Answer(Job.run, "queued") ELSE UNCHANGED answered
  BY DEF HandOff, At, Others
<1>2. accepting = TRUE \/ accepting = FALSE
  BY DEF IInv, FlagsInv
<1>3. CASE accepting = TRUE
  <2>1. answered' = [answered EXCEPT ![jobs[worker.job].run] = Append(@, "queued")]
    BY <1>1, <1>3 DEF Answer, Job
  <2> QED BY <1>1, <2>1, OwnJobEnds DEF disk
<1>4. CASE accepting = FALSE
  <2>1. UNCHANGED answered
    BY <1>1, <1>4
  <2> QED BY <1>1, <1>4, <2>1, OwnJobEnds DEF disk
<1> QED BY <1>2, <1>3, <1>4

LEMMA TellIssueKeeps == ASSUME IInv, TellIssue PROVE IInv'
<1>1. /\ worker.pc = "tell" /\ worker' = Idle
      /\ UNCHANGED <<disk, branchMoved, handover, jobs, unsubmitted, queue, accepting, stops>>
      /\ answered' = [answered EXCEPT ![jobs[worker.job].run] = Append(@, "told")]
  BY DEF TellIssue, At, Others, Answer, Job
<1> QED BY <1>1, OwnJobEnds DEF disk

LEMMA RecordFailureKeeps == ASSUME IInv, RecordFailure PROVE IInv'
<1>1. /\ worker.pc = "record" /\ failureFile' \in {failureFile, failureFile \cup {jobs[worker.job].run}}
      /\ worker' = IF jobs[worker.job].autonomous THEN [worker EXCEPT !.pc = "tell"] ELSE Idle
      /\ UNCHANGED <<bundles, plans, branchMoved, handover, jobs, unsubmitted, queue, accepting, answered, stops>>
  BY DEF RecordFailure, At, AfterJob, Job, Others
<1>2. /\ worker.job \in 1..Len(jobs) /\ jobs[worker.job].status = "failed" /\ jobs[worker.job] \in JobRecord
      /\ worker \in [job : Nat, pc : Pcs, passed : SUBSET AllGates] /\ Len(jobs) \in Nat
  BY <1>1, JobsAre DEF IInv, ThreadInv
<1>3. jobs[worker.job].run \in Runs /\ (jobs[worker.job].autonomous = TRUE \/ jobs[worker.job].autonomous = FALSE)
  BY <1>2 DEF JobRecord
<1>4. DiskInv'
  BY <1>1, <1>3 DEF IInv, DiskInv
<1>5. JobsInv' /\ FlagsInv' /\ QueueInv' /\ NewestInv'
  BY <1>1 DEF IInv, JobsInv, FlagsInv, QueueInv, NewestInv
<1>6. /\ jobs[worker.job].autonomous = TRUE => worker' = [worker EXCEPT !.pc = "tell"]
      /\ jobs[worker.job].autonomous = FALSE => worker' = Idle
  BY <1>1, Zenon
<1>7. /\ jobs[worker.job].autonomous = TRUE => worker'.job = worker.job /\ worker'.pc = "tell"
      /\ jobs[worker.job].autonomous = FALSE => worker'.job = 0 /\ worker'.pc = "idle"
      /\ worker' \in [job : Nat, pc : Pcs, passed : SUBSET AllGates]
  BY <1>2, <1>3, <1>6 DEF Idle, Pcs
<1>8. ThreadInv'
  <2>1. worker'.pc = "tell" \/ worker'.pc = "idle"
    BY <1>3, <1>7
  <2>2. \A j \in 1..Len(jobs) : jobs[j].status # "running"
    BY <1>2 DEF IInv, ThreadInv
  <2>3. worker'.job <= Len(jobs) /\ (worker'.pc = "idle" <=> worker'.job = 0)
    BY <1>2, <1>3, <1>7
  <2>4. worker'.pc = "tell" => jobs[worker'.job].status = "failed" /\ jobs[worker'.job].autonomous = TRUE
    BY <1>2, <1>3, <1>7
  <2> QED BY <1>1, <1>7, <2>1, <2>2, <2>3, <2>4 DEF ThreadInv, Busy, AllGates
<1>9. DoneInv'
  <2>1. worker'.pc # "written"
    BY <1>3, <1>7
  <2> QED BY <1>1, <2>1 DEF IInv, DoneInv, Prepared
<1>10. AnswerInv'
  <2>1. \A j \in 1..Len(jobs) : j # 0
    BY <1>2
  <2>2. \A j \in 1..Len(jobs) : j # worker.job => (Active(j)' <=> Active(j))
    <3>1. unsubmitted' = unsubmitted /\ queue' = queue /\ worker'.job \in {worker.job, 0}
      BY <1>1, <1>3, <1>7
    <3> QED BY ONLY <2>1, <3>1 DEF Active
  <2>3. jobs[worker.job].autonomous = TRUE => worker'.job = worker.job
    BY <1>7
  <2>4. \A j \in 1..Len(jobs) : jobs[j].autonomous = TRUE => (Active(j)' <=> Active(j))
    BY <2>2, <2>3 DEF Active
  <2>5. \A r \in Runs : Prepared(r)' <=> Prepared(r)
    BY <1>1 DEF Prepared
  <2>6. AnswerInv
    BY DEF IInv
  <2> QED BY <1>1, <2>4, <2>5, <2>6, AnswerStays
<1> QED BY <1>4, <1>5, <1>8, <1>9, <1>10 DEF IInv

-----------------------------------------------------------------------------
(* Intake and what goes on around the jobs. *)

LEMMA CreateKeeps ==
  ASSUME IInv, NEW r \in Runs, NEW autonomous \in BOOLEAN, Create(r, autonomous),
         UNCHANGED <<disk, branchMoved, queue, worker, accepting, answered, stops>>,
         \/ autonomous = FALSE /\ UNCHANGED handover
         \/ autonomous = TRUE /\ r \in handover /\ handover' = handover \ {r}
  PROVE  IInv'
<1>1. PICK job : job = [run |-> r, autonomous |-> autonomous, status |-> "queued", failures |-> <<>>]
  OBVIOUS
<1>2. /\ jobs' = Append(jobs, job) /\ unsubmitted' = unsubmitted \cup {Len(jobs) + 1}
  BY <1>1 DEF Create
<1>3. job \in Budgeted /\ job.run = r /\ job.autonomous = autonomous /\ job.status = "queued"
  <2>1. job \in JobRecord
    BY <1>1 DEF JobRecord
  <2>2. Len(job.failures) = 0 /\ 0 < MaxFixAttempts
    BY <1>1, FixPreparationAssumption
  <2>3. job.run = r /\ job.autonomous = autonomous /\ job.status = "queued"
    BY <1>1
  <2> QED BY <2>1, <2>2, <2>3 DEF Budgeted
<1>4. /\ JobsInv' /\ Len(jobs') = Len(jobs) + 1 /\ jobs'[Len(jobs) + 1] = job /\ Len(jobs) \in Nat
      /\ \A j \in 1..Len(jobs) : jobs'[j] = jobs[j]
  BY <1>2, <1>3, JobAppends, JobsAre DEF IInv
<1>5. \A j \in 1..Len(jobs') : j \in 1..Len(jobs) \/ j = Len(jobs) + 1
  BY <1>4
<1>6. DiskInv' /\ FlagsInv'
  BY DEF IInv, DiskInv, FlagsInv, disk
<1>7. QueueInv'
  <2>1. unsubmitted' \subseteq 1..Len(jobs') /\ \A j \in unsubmitted' : jobs'[j].status = "queued"
    <3>1. unsubmitted \subseteq 1..Len(jobs) /\ \A j \in unsubmitted : jobs[j].status = "queued"
      BY DEF IInv, QueueInv
    <3>2. \A j \in unsubmitted' : j \in unsubmitted \/ j = Len(jobs) + 1
      BY <1>2
    <3>3. \A j \in 1..Len(jobs) : j \in 1..Len(jobs')
      BY <1>4
    <3>4. Len(jobs) + 1 \in 1..Len(jobs')
      BY <1>4
    <3> QED BY <1>3, <1>4, <3>1, <3>2, <3>3, <3>4
  <2>2. \A a \in 1..Len(queue) : queue[a] \in 1..Len(jobs) /\ queue[a] # Len(jobs) + 1
    BY <1>4 DEF IInv, QueueInv
  <2>3. \A a \in 1..Len(queue) : queue[a] \in 1..Len(jobs') /\ queue[a] \notin unsubmitted' /\ jobs'[queue[a]].status = "queued"
    BY <1>2, <1>4, <2>2 DEF IInv, QueueInv
  <2>4. queue' = queue
    OBVIOUS
  <2> QED BY <2>1, <2>3, <2>4 DEF IInv, QueueInv
<1>8. ThreadInv'
  <2>1. worker.pc # "idle" => worker.job \in 1..Len(jobs)
    BY <1>4 DEF IInv, ThreadInv
  <2>2. worker' = worker /\ Len(jobs) <= Len(jobs')
    BY <1>4
  <2>3. worker.pc # "idle" => jobs'[worker.job] = jobs[worker.job]
    BY <1>4, <2>1
  <2>4. \A j \in 1..Len(jobs') : jobs'[j].status = "running" => j = worker.job
    BY <1>3, <1>4, <1>5 DEF IInv, ThreadInv
  <2>5. "idle" \notin Busy
    BY DEF Busy, AllGates
  <2>6. worker.job <= Len(jobs') /\ worker.job \in Nat
    BY <1>4, <2>2 DEF IInv, ThreadInv
  <2> QED BY <2>2, <2>3, <2>4, <2>5, <2>6 DEF IInv, ThreadInv
<1>9. \A q : Prepared(q)' <=> Prepared(q)
  BY DEF Prepared, disk
<1>10. DoneInv'
  <2>1. worker.pc = "written" => worker.job \in 1..Len(jobs)
    BY <1>4 DEF IInv, ThreadInv
  <2> QED BY <1>3, <1>4, <1>5, <1>9, <2>1 DEF IInv, DoneInv
<1>11. NewestInv'
  BY <1>2, <1>3, NewestAppends DEF IInv
<1>12. \A j \in 1..Len(jobs) : Active(j)' <=> Active(j)
  BY <1>2, <1>4 DEF Active
<1>13. CASE autonomous = FALSE /\ UNCHANGED handover
  <2>1. \A j \in 1..Len(jobs') : jobs'[j].autonomous = TRUE => j \in 1..Len(jobs) /\ jobs'[j] = jobs[j]
    BY <1>3, <1>4, <1>5, <1>13
  <2>2. \A j \in 1..Len(jobs) : j \in 1..Len(jobs') /\ jobs'[j] = jobs[j]
    BY <1>4
  <2>3. AnswerInv
    BY DEF IInv
  <2>4. AnswerInv'
    BY <1>9, <1>12, <1>13, <2>1, <2>2, <2>3, AnswerStays
  <2> QED BY <1>4, <1>6, <1>7, <1>8, <1>10, <1>11, <2>4 DEF IInv
<1>14. CASE autonomous = TRUE /\ r \in handover /\ handover' = handover \ {r}
  <2>1. AnswerInv /\ answered' = answered /\ accepting' = accepting /\ stops' = stops
    BY DEF IInv
  <2>2. answered[r] = <<>> /\ \A j \in 1..Len(jobs) : jobs[j].autonomous = TRUE => jobs[j].run # r
    BY <1>14, <2>1 DEF AnswerInv
  <2>3. \A j \in 1..Len(jobs') : jobs'[j].autonomous = TRUE =>
         /\ jobs'[j].run \notin handover'
         /\ Active(j)' => answered'[jobs'[j].run] = <<>>
         /\ \A k \in 1..Len(jobs') : jobs'[k].autonomous = TRUE /\ jobs'[k].run = jobs'[j].run => j = k
    <3> SUFFICES ASSUME NEW j \in 1..Len(jobs'), jobs'[j].autonomous = TRUE
                 PROVE  /\ jobs'[j].run \notin handover'
                        /\ Active(j)' => answered'[jobs'[j].run] = <<>>
                        /\ \A k \in 1..Len(jobs') : jobs'[k].autonomous = TRUE /\ jobs'[k].run = jobs'[j].run => j = k
      OBVIOUS
    <3>1. CASE j \in 1..Len(jobs)
      BY <1>3, <1>4, <1>5, <1>12, <1>14, <2>1, <2>2, <3>1 DEF AnswerInv
    <3>2. CASE j = Len(jobs) + 1
      BY <1>3, <1>4, <1>5, <1>14, <2>1, <2>2, <3>2
    <3> QED BY <1>5, <3>1, <3>2
  <2>4. \A q \in Yolo : accepting' = TRUE /\ stops' = 0 =>
         \/ q \in handover' \/ answered'[q] # <<>>
         \/ \E j \in 1..Len(jobs') : jobs'[j].autonomous = TRUE /\ jobs'[j].run = q /\ Active(j)'
    <3> SUFFICES ASSUME NEW q \in Yolo, accepting' = TRUE, stops' = 0
                 PROVE  \/ q \in handover' \/ answered'[q] # <<>>
                        \/ \E j \in 1..Len(jobs') : jobs'[j].autonomous = TRUE /\ jobs'[j].run = q /\ Active(j)'
      OBVIOUS
    <3>1. CASE q = r
      <4>1. Len(jobs) + 1 \in 1..Len(jobs') /\ Len(jobs) + 1 \in unsubmitted'
        BY <1>2, <1>4
      <4>2. Active(Len(jobs) + 1)' \/ TRUE
        OBVIOUS
      <4>3. PICK n \in 1..Len(jobs') : n = Len(jobs) + 1 /\ n \in unsubmitted'
        BY <4>1
      <4>4. Active(n)'
        BY <4>3 DEF Active
      <4> QED BY <1>3, <1>4, <1>14, <3>1, <4>3, <4>4
    <3>2. CASE q # r
      <4>1. \A j \in 1..Len(jobs) : j \in 1..Len(jobs')
        BY <1>4
      <4> QED BY <1>4, <1>12, <1>14, <2>1, <3>2, <4>1 DEF AnswerInv
    <3> QED BY <3>1, <3>2
  <2>5. AnswerInv'
    BY <1>9, <1>14, <2>1, <2>3, <2>4 DEF AnswerInv
  <2> QED BY <1>4, <1>6, <1>7, <1>8, <1>10, <1>11, <2>5 DEF IInv
<1> QED BY <1>13, <1>14

LEMMA PrepareFixKeeps == ASSUME IInv, NEW r \in Runs, PrepareFix(r) PROVE IInv'
<1>1. Create(r, FALSE) /\ UNCHANGED <<disk, branchMoved, handover, queue, worker, accepting, answered, stops>>
  BY DEF PrepareFix
<1> QED BY <1>1, CreateKeeps

LEMMA ContinueYoloKeeps == ASSUME IInv, NEW r \in Runs, ContinueYolo(r) PROVE IInv'
<1>1. /\ r \in handover /\ handover' = handover \ {r}
      /\ UNCHANGED <<disk, branchMoved, queue, worker, accepting, stops>>
  BY DEF ContinueYolo
<1>2. CASE Create(r, TRUE) /\ UNCHANGED answered
  BY <1>1, <1>2, CreateKeeps
<1>3. CASE Answer(r, "told") /\ UNCHANGED <<jobs, unsubmitted>>
  <2>1. answered[r] = <<>> /\ \A j \in 1..Len(jobs) : jobs[j].autonomous = TRUE => jobs[j].run # r
    BY <1>1 DEF IInv, AnswerInv
  <2>2. Append(answered[r], "told") = <<"told">> /\ <<"told">> \in Seq({"told", "queued"})
    BY <2>1
  <2>3. answered' = [answered EXCEPT ![r] = <<"told">>]
    BY <1>3, <2>2 DEF Answer
  <2>4. /\ answered' \in [Runs -> Seq({"told", "queued"})] /\ answered'[r] = <<"told">>
        /\ \A q \in Runs : q # r => answered'[q] = answered[q]
    BY <2>2, <2>3 DEF IInv, AnswerInv
  <2>5. JobsInv' /\ DiskInv' /\ FlagsInv' /\ QueueInv' /\ ThreadInv' /\ DoneInv' /\ NewestInv'
    <3>1. FlagsInv'
      BY <1>1 DEF IInv, FlagsInv
    <3>2. JobsInv' /\ DiskInv' /\ DoneInv' /\ NewestInv'
      BY <1>1, <1>3 DEF IInv, JobsInv, DiskInv, DoneInv, Prepared, NewestInv, disk
    <3>3. QueueInv'
      BY <1>1, <1>3 DEF IInv, QueueInv
    <3>4. ThreadInv'
      BY <1>1, <1>3 DEF IInv, ThreadInv
    <3> QED BY <3>1, <3>2, <3>3, <3>4
  <2>6. \A j \in 1..Len(jobs) : (Active(j)' <=> Active(j)) /\ jobs[j].run \in Runs
    BY <1>1, <1>3, JobsAre DEF Active, IInv, JobRecord
  <2>7. \A q : Prepared(q)' <=> Prepared(q)
    BY <1>1 DEF Prepared, disk
  <2>8. <<"told">> # <<>> /\ <<"told">> # <<"queued">>
    OBVIOUS
  <2>9. handover \subseteq Runs /\ Yolo \subseteq Runs
    BY FixPreparationAssumption DEF IInv, FlagsInv
  <2>10. AnswerInv'
    <3>1. \A q \in Runs : answered'[q] = <<>> \/ answered'[q] = <<"told">> \/ answered'[q] = <<"queued">>
      BY <2>4 DEF IInv, AnswerInv
    <3>2. \A q \in handover' : answered'[q] = <<>>
      BY <1>1, <2>4, <2>9 DEF IInv, AnswerInv
    <3>3. \A j \in 1..Len(jobs') : jobs'[j].autonomous = TRUE =>
           /\ jobs'[j].run \notin handover'
           /\ Active(j)' => answered'[jobs'[j].run] = <<>>
           /\ \A k \in 1..Len(jobs') : jobs'[k].autonomous = TRUE /\ jobs'[k].run = jobs'[j].run => j = k
      BY <1>1, <1>3, <2>1, <2>4, <2>6 DEF IInv, AnswerInv
    <3>4. \A q \in Yolo : accepting' = TRUE /\ stops' = 0 =>
           \/ q \in handover' \/ answered'[q] # <<>>
           \/ \E j \in 1..Len(jobs') : jobs'[j].autonomous = TRUE /\ jobs'[j].run = q /\ Active(j)'
      <4> SUFFICES ASSUME NEW q \in Yolo, accepting' = TRUE, stops' = 0, q # r
                   PROVE  \/ q \in handover' \/ answered'[q] # <<>>
                          \/ \E j \in 1..Len(jobs') : jobs'[j].autonomous = TRUE /\ jobs'[j].run = q /\ Active(j)'
        BY <2>4, <2>8
      <4> QED BY <1>1, <1>3, <2>4, <2>6, <2>9 DEF IInv, AnswerInv
    <3>5. \A q \in Runs : answered'[q] = <<"queued">> => Prepared(q)'
      BY <2>4, <2>7, <2>8 DEF IInv, AnswerInv
    <3> QED BY <2>4, <3>1, <3>2, <3>3, <3>4, <3>5 DEF AnswerInv
  <2> QED BY <2>5, <2>10 DEF IInv
<1> QED BY <1>2, <1>3 DEF ContinueYolo

LEMMA SubmitJobKeeps == ASSUME IInv, NEW j \in unsubmitted, SubmitJob(j) PROVE IInv'
<1>1. /\ unsubmitted' = unsubmitted \ {j}
      /\ UNCHANGED <<disk, branchMoved, handover, jobs, worker, accepting, stops>>
      /\ IF accepting THEN queue' = Append(queue, j) /\ UNCHANGED answered
         ELSE /\ IF jobs[j].autonomous THEN Answer(jobs[j].run, "told") ELSE UNCHANGED answered
              /\ UNCHANGED queue
  BY DEF SubmitJob
<1>2. /\ j \in 1..Len(jobs) /\ jobs[j].status = "queued" /\ jobs[j] \in JobRecord
      /\ \A a \in 1..Len(queue) : queue[a] # j
      /\ j # worker.job
  <2>1. j \in 1..Len(jobs) /\ jobs[j].status = "queued" /\ jobs[j] \in JobRecord
    BY JobsAre DEF IInv, QueueInv
  <2>2. worker.job # 0 => jobs[worker.job].status # "queued"
    BY DEF IInv, ThreadInv, Pcs, Busy
  <2>3. j # 0
    BY <2>1, JobsAre DEF IInv
  <2> QED BY <2>1, <2>2, <2>3 DEF IInv, QueueInv
<1>3. JobsInv' /\ DiskInv' /\ DoneInv' /\ NewestInv' /\ FlagsInv'
  <2>1. FlagsInv'
    BY <1>1 DEF IInv, FlagsInv
  <2>2. JobsInv' /\ DiskInv'
    BY <1>1 DEF IInv, JobsInv, DiskInv, disk
  <2>3. NewestInv'
    BY <1>1 DEF IInv, NewestInv
  <2>4. DoneInv'
    <3>1. UNCHANGED <<jobs, plans, worker>>
      BY <1>1 DEF disk
    <3> QED BY <3>1 DEF IInv, DoneInv, Prepared
  <2> QED BY <2>1, <2>2, <2>3, <2>4
<1>4. ThreadInv'
  BY <1>1 DEF IInv, ThreadInv
<1>5. accepting = TRUE \/ accepting = FALSE
  BY DEF IInv, FlagsInv
<1>6. \A r \in Runs : Prepared(r)' <=> Prepared(r)
  BY <1>1 DEF Prepared, disk
<1>7. CASE accepting = TRUE
  <2>1. queue' = Append(queue, j) /\ UNCHANGED answered
    BY <1>1, <1>7
  <2>2. /\ queue' \in Seq(Nat) /\ Len(queue) \in Nat /\ Len(queue') = Len(queue) + 1
        /\ queue'[Len(queue) + 1] = j /\ \A a \in 1..Len(queue) : queue'[a] = queue[a]
    <3>1. j \in Nat /\ queue \in Seq(Nat)
      BY <1>2, JobsAre DEF IInv, QueueInv
    <3> QED BY <2>1, <3>1, AppendIs
  <2>3. \A a \in 1..Len(queue') : a \in 1..Len(queue) \/ a = Len(queue) + 1
    BY <2>2
  <2>4. QueueInv'
    <3>1. \A a \in 1..Len(queue') :
            queue'[a] \in 1..Len(jobs') /\ queue'[a] \notin unsubmitted' /\ jobs'[queue'[a]].status = "queued"
      BY <1>1, <1>2, <2>2, <2>3 DEF IInv, QueueInv
    <3>2. \A a, b \in 1..Len(queue') : queue'[a] = queue'[b] => a = b
      BY <1>2, <2>2, <2>3 DEF IInv, QueueInv
    <3> QED BY <1>1, <2>2, <3>1, <3>2 DEF IInv, QueueInv
  <2>5. \A k : (\E a \in 1..Len(queue') : queue'[a] = k) <=> k = j \/ \E a \in 1..Len(queue) : queue[a] = k
    <3>1. Len(queue) + 1 \in 1..Len(queue') /\ \A a \in 1..Len(queue) : a \in 1..Len(queue')
      BY <2>2
    <3> QED BY <2>2, <2>3, <3>1
  <2>6. \A k \in 1..Len(jobs) : Active(k)' <=> Active(k)
    BY <1>1, <2>5 DEF Active
  <2>7. AnswerInv
    BY DEF IInv
  <2>8. AnswerInv'
    BY <1>1, <1>6, <2>1, <2>6, <2>7, AnswerStays
  <2> QED BY <1>3, <1>4, <2>4, <2>8 DEF IInv
<1>8. CASE accepting = FALSE
  <2>1. UNCHANGED queue /\ IF jobs[j].autonomous THEN Answer(jobs[j].run, "told") ELSE UNCHANGED answered
    BY <1>1, <1>8
  <2>2. QueueInv'
    BY <1>1, <2>1 DEF IInv, QueueInv
  <2>3. \A k \in 1..Len(jobs) : k # j => (Active(k)' <=> Active(k))
    BY <1>1, <2>1 DEF Active
  <2>4. JobsInv /\ FlagsInv /\ AnswerInv
    BY DEF IInv
  <2>5. jobs[j].autonomous = TRUE \/ jobs[j].autonomous = FALSE
    BY <1>2 DEF JobRecord
  <2>6. CASE jobs[j].autonomous = TRUE
    <3>1. answered' = [answered EXCEPT ![jobs[j].run] = Append(@, "told")]
      BY <2>1, <2>6 DEF Answer
    <3>2. Active(j) /\ ~Active(j)'
      BY <1>1, <1>2, <2>1 DEF Active
    <3>3. AnswerInv'
      BY <1>1, <1>2, <2>3, <2>4, <2>6, <3>1, <3>2, AnswerEnds DEF disk
    <3> QED BY <1>3, <1>4, <2>2, <3>3 DEF IInv
  <2>7. CASE jobs[j].autonomous = FALSE
    <3>1. UNCHANGED answered
      BY <2>1, <2>7
    <3>2. \A k \in 1..Len(jobs) : jobs[k].autonomous = TRUE => (Active(k)' <=> Active(k))
      BY <2>3, <2>7
    <3>3. AnswerInv'
      BY <1>1, <1>6, <2>4, <3>1, <3>2, AnswerStays
    <3> QED BY <1>3, <1>4, <2>2, <3>3 DEF IInv
  <2> QED BY <2>5, <2>6, <2>7
<1> QED BY <1>5, <1>7, <1>8

LEMMA SurroundingsKeep == ASSUME IInv, MoveBranch \/ ClearRuns \/ Close PROVE IInv'
<1>1. /\ UNCHANGED <<plans, failureFile, handover, jobs, unsubmitted, queue, worker, answered, stops>>
      /\ bundles' \in {bundles, {}} /\ accepting' \in {accepting, FALSE} /\ branchMoved' \in {branchMoved, TRUE}
  BY DEF MoveBranch, ClearRuns, Close, disk, memory
<1>2. FlagsInv'
  <2>1. accepting' = accepting \/ accepting' = FALSE
    BY <1>1
  <2>2. branchMoved' = branchMoved \/ branchMoved' = TRUE
    BY <1>1
  <2>3. accepting' \in BOOLEAN /\ branchMoved' \in BOOLEAN
    BY <2>1, <2>2, Zenon DEF IInv, FlagsInv
  <2>4. handover' \subseteq Yolo /\ stops' \in 0..MaxStops
    BY <1>1 DEF IInv, FlagsInv
  <2> QED BY <2>3, <2>4 DEF FlagsInv
<1>3. DiskInv' /\ JobsInv' /\ NewestInv' /\ DoneInv'
  BY <1>1 DEF IInv, DiskInv, JobsInv, NewestInv, DoneInv, Prepared
<1>4. QueueInv' /\ ThreadInv'
  BY <1>1 DEF IInv, QueueInv, ThreadInv
<1>5. AnswerInv'
  <2>1. AnswerInv /\ (accepting' = TRUE => accepting = TRUE)
    BY <1>1 DEF IInv
  <2>2. \A k \in 1..Len(jobs) : Active(k)' <=> Active(k)
    BY <1>1 DEF Active
  <2>3. \A r \in Runs : Prepared(r)' <=> Prepared(r)
    BY <1>1 DEF Prepared
  <2> QED BY <1>1, <2>1, <2>2, <2>3, AnswerStays
<1> QED BY <1>2, <1>3, <1>4, <1>5 DEF IInv

LEMMA StopKeeps == ASSUME IInv, Stop PROVE IInv'
<1>1. /\ stops < MaxStops /\ stops' = stops + 1 /\ handover' = {} /\ jobs' = <<>> /\ unsubmitted' = {}
      /\ queue' = <<>> /\ worker' = [job |-> 0, pc |-> "idle", passed |-> {}] /\ accepting' = TRUE
      /\ UNCHANGED <<disk, branchMoved, answered>>
  BY DEF Stop, Idle
<1>2. Len(jobs') = 0 /\ Len(queue') = 0
  BY <1>1
<1>3. JobsInv' /\ DiskInv' /\ QueueInv' /\ NewestInv'
  BY <1>1, <1>2 DEF IInv, JobsInv, DiskInv, QueueInv, NewestInv, disk
<1>4. FlagsInv'
  <2>1. branchMoved' \in BOOLEAN /\ accepting' \in BOOLEAN
    BY <1>1, Zenon DEF IInv, FlagsInv
  <2>2. stops' \in 0..MaxStops /\ stops' # 0
    BY <1>1, FixPreparationAssumption DEF IInv, FlagsInv
  <2> QED BY <1>1, <2>1, <2>2 DEF FlagsInv
<1>5. ThreadInv' /\ DoneInv'
  <2>1. worker'.job = 0 /\ worker'.pc = "idle" /\ worker' \in [job : Nat, pc : Pcs, passed : SUBSET AllGates]
    BY <1>1 DEF Pcs
  <2> QED BY <1>2, <2>1 DEF ThreadInv, DoneInv, Busy, AllGates
<1>6. AnswerInv'
  <2>1. stops' # 0
    BY <1>1 DEF IInv, FlagsInv
  <2>2. \A r \in Runs : Prepared(r)' <=> Prepared(r)
    BY <1>1 DEF Prepared, disk
  <2> QED BY <1>1, <1>2, <2>1, <2>2 DEF IInv, AnswerInv
<1> QED BY <1>3, <1>4, <1>5, <1>6 DEF IInv

-----------------------------------------------------------------------------
LEMMA InvNext == IInv /\ [Next]_vars => IInv'
<1> SUFFICES ASSUME IInv, [Next]_vars PROVE IInv'
  OBVIOUS
<1>1. CASE UNCHANGED vars
  <2>1. UNCHANGED <<bundles, plans, failureFile, branchMoved, handover, jobs, unsubmitted, queue, worker, accepting, answered, stops>>
    BY <1>1 DEF vars, disk, memory
  <2>2. FlagsInv' /\ DiskInv' /\ JobsInv' /\ NewestInv' /\ DoneInv'
    BY <2>1 DEF IInv, FlagsInv, DiskInv, JobsInv, NewestInv, DoneInv, Prepared
  <2>3. QueueInv'
    BY <2>1 DEF IInv, QueueInv
  <2>4. ThreadInv'
    BY <2>1 DEF IInv, ThreadInv
  <2>5. AnswerInv'
    <3>1. \A j : Active(j)' <=> Active(j)
      BY <2>1 DEF Active
    <3>2. \A r \in Runs : Prepared(r)' <=> Prepared(r)
      BY <2>1 DEF Prepared
    <3>3. AnswerInv
      BY DEF IInv
    <3> QED BY <2>1, <3>1, <3>2, <3>3, AnswerStays
  <2> QED BY <2>2, <2>3, <2>4, <2>5 DEF IInv
<1>2. ASSUME NEW r \in Runs, PrepareFix(r) \/ ContinueYolo(r) PROVE IInv'
  BY <1>2, PrepareFixKeeps, ContinueYoloKeeps
<1>3. ASSUME NEW j \in unsubmitted, SubmitJob(j) PROVE IInv'
  BY <1>3, SubmitJobKeeps
<1>4. CASE Worker
  <2>1. CASE RequestEdits \/ BuildPatch \/ PreflightPatch \/ ConfirmFailure \/ ApplyPatch \/ ConfirmFix \/ RunSuite
    BY <2>1, GatesKeep
  <2> QED BY <1>4, <2>1, StartJobKeeps, CheckoutKeeps, CorrectKeeps, MarkFailedKeeps, WritePlanKeeps, MarkDoneKeeps,
             HandOffKeeps, RecordFailureKeeps, TellIssueKeeps DEF Worker
<1>5. CASE MoveBranch \/ ClearRuns \/ Close \/ Stop
  BY <1>5, SurroundingsKeep, StopKeeps
<1> QED BY <1>1, <1>2, <1>3, <1>4, <1>5 DEF Next

THEOREM Invariance == Spec => []IInv
BY InvInit, InvNext, PTL DEF Spec

(* Every variable has its type and every job is in one place. *)
THEOREM TypeCorrect == Spec => []TypeOK
BY InvTypes, Invariance, PTL

(* A plan exists only for a patch that itself passed every gate
   (propose_and_validate_fix, PatchValidator.validate). *)
THEOREM ValidatedPlans == Spec => []PlansAreValidated
BY InvGates, Invariance, PTL

(* A job retries only what a proposal can correct, and gives up on it only
   with the budget used up (propose_and_validate_fix). *)
THEOREM CorrectableRetries == Spec => []RetriesAreCorrectable
BY InvRetries, Invariance, PTL

(* An autonomous workflow is answered once, unless its process stopped or was
   shutting down (_run_fix_job, _continue_yolo). *)
THEOREM OneAnswer == Spec => []AutonomousAnswered
BY InvAnswers, Invariance, PTL

(* Without a registry, a run that has a plan is shown as done. *)
LEMMA DoneIsOnDisk ==
  ASSUME IInv, IInv', [Next]_vars, jobs' = <<>>, NEW r \in bundles, FixStatus(r) = "done"
  PROVE  FixStatus(r)' = "done"
<1>1. r \in Runs
  BY DEF IInv, DiskInv
<1>2. Prepared(r)
  <2>1. CASE JobsOf(r) # {}
    <3>1. DOMAIN jobs = 1..Len(jobs)
      BY JobsAre DEF IInv
    <3>2. \E j \in JobsOf(r) : \A k \in JobsOf(r) : k <= j
      BY <1>1, <2>1, <3>1 DEF JobsOf, IInv, NewestInv
    <3>3. PICK j \in JobsOf(r) : jobs[j].status = "done"
      BY <2>1, <3>2 DEF FixStatus
    <3> QED BY <3>1, <3>3 DEF JobsOf, IInv, DoneInv
  <2>2. CASE JobsOf(r) = {}
    <3>1. PlansOf(r) # {}
      BY <2>2 DEF FixStatus
    <3> QED BY <3>1 DEF PlansOf, Prepared, IInv, DiskInv
  <2> QED BY <2>1, <2>2
<1>3. \A i \in 1..Len(plans) : i \in 1..Len(plans') /\ plans'[i].run = plans[i].run
  <2>1. CASE UNCHANGED plans
    BY <2>1
  <2>2. CASE WritePlan
    <3>1. plans' = Append(plans, Plan) /\ plans \in Seq(PlanRecord) /\ Len(plans) \in Nat
      BY <2>2 DEF WritePlan, IInv, DiskInv
    <3>2. jobs' = jobs /\ worker.pc = "write"
      BY <2>2 DEF WritePlan, At
    <3>3. FALSE
      BY <3>2, OwnJobIs DEF Busy
    <3> QED BY <3>3
  <2> QED
    BY <2>1, <2>2 DEF Next, vars, disk, memory, PrepareFix, ContinueYolo, SubmitJob, Worker, StartJob, Checkout, RequestEdits,
       BuildPatch, PreflightPatch, ConfirmFailure, ApplyPatch, ConfirmFix, RunSuite, Pass, Correct, MarkFailed, FailJob,
       MarkDone, HandOff, RecordFailure, TellIssue, MoveBranch, ClearRuns, Close, Stop, Others
<1>4. PlansOf(r)' # {}
  BY <1>2, <1>3 DEF Prepared, PlansOf, IInv, DiskInv
<1>5. JobsOf(r)' = {}
  BY DEF JobsOf
<1> QED BY <1>4, <1>5 DEF FixStatus

(* A validated fix is not lost with the process (fix_status). *)
THEOREM DoneOutlivesTheProcess == Spec => DoneSurvivesRestart
<1>1. IInv /\ IInv' /\ [Next]_vars =>
        [jobs' = <<>> => \A r \in bundles : FixStatus(r) = "done" => FixStatus(r)' = "done"]_vars
  BY DoneIsOnDisk
<1> QED BY <1>1, Invariance, PTL DEF Spec, DoneSurvivesRestart
=============================================================================

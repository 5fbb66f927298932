------------------------- MODULE Publication_proofs -------------------------
(***************************************************************************)
(* Proofs about Publication, for every set of plans, runs and clients and  *)
(* every bound: types, no plan published again, pull requests that carry   *)
(* the validated plan, settled jobs, the status shown of a run, and the    *)
(* refinement of PublishOnce.                                              *)
(***************************************************************************)
EXTENDS Publication, TLAPS

-----------------------------------------------------------------------------
(* The inductive invariant, one part for each piece of the system. *)

RecordStatus == {"none", "pending", "posted", "failed", "not_applicable"}
JobStatus == {"none", "queued", "running", "done", "failed"}
Commits == [plan : Plans, parent : Nat]
Published(p) == \E i \in 1..Len(pulls) : pulls[i] = p
StepOf(a) == publisher[a].step

DiskInv ==
  /\ prepared \subseteq Plans
  /\ record \in [Plans -> RecordStatus]
  /\ bundles \subseteq RunIds
  /\ stops \in 0..MaxStops

RemoteInv ==
  /\ base \in 0..MaxMoves
  /\ branch \in [RunIds -> Commits \cup {None}]
  /\ pulls \in Seq(Plans)
  /\ links \subseteq Plans /\ denials \subseteq Plans

MemoryInv ==
  /\ handoff \subseteq Autonomous /\ byYolo \subseteq Autonomous
  /\ request \in [Clients -> Plans \cup {None}]
  /\ job \in [Plans -> JobStatus]

(* A queued job is in the queue, once. *)
QueueInv ==
  /\ queue \in Seq(Plans)
  /\ \A i \in 1..Len(queue) : job[queue[i]] = "queued"
  /\ \A i, k \in 1..Len(queue) : queue[i] = queue[k] => i = k
  /\ \A p \in Plans : job[p] = "queued" => \E i \in 1..Len(queue) : queue[i] = p

(* A publisher at work has a prepared plan; the API's has its job running. *)
PublisherInv ==
  /\ publisher \in [Actors -> PublisherState]
  /\ \A a \in Actors : StepOf(a) # "idle" => PlanOf(a) \in Plans
  /\ StepOf("api") # "idle" => job[PlanOf("api")] = "running"

(* A run's branch is set once: to the commit of the plan that then opens its
   pull request, on the commit the plan was validated against. *)
BranchInv ==
  /\ \A a \in Actors : StepOf(a) \in {"push", "open"} => publisher[a].parent = RunCommit[BranchOf(a)]
  /\ \A a \in Actors : StepOf(a) = "open" => branch[BranchOf(a)] = Commit(a)
  /\ \A i \in 1..Len(pulls) :
       branch[RunOf[pulls[i]]] = [plan |-> pulls[i], parent |-> RunCommit[RunOf[pulls[i]]]]

(* Only opened pull requests are recorded and linked. *)
AnnounceInv ==
  /\ \A a \in Actors : StepOf(a) \in {"opened", "link", "settle", "recorded"} => Published(PlanOf(a))
  /\ \A p \in Plans : record[p] # "none" \/ p \in links => Published(p)

(* Only prepared plans are requested, handed off, submitted and recorded. *)
PreparedInv ==
  /\ \A p \in Plans : record[p] # "none" \/ job[p] # "none" => p \in prepared
  /\ handoff \subseteq prepared
  /\ \A c \in Clients : request[c] # None => request[c] \in prepared

(* Whatever is about to be submitted has no record, or has a job that keeps
   it from being submitted. *)
RecordInv ==
  /\ \A p \in Plans : job[p] = "queued" => record[p] = "none"
  /\ StepOf("api") \in {"clone", "push", "open"} => record[PlanOf("api")] = "none"
  /\ \A c \in Clients : request[c] # None => record[request[c]] = "none" \/ job[request[c]] # "none"
  /\ \A p \in handoff : record[p] = "none" \/ job[p] # "none"

(* What the records say of a job that is done. *)
SettledInv ==
  /\ \A p \in Plans : job[p] = "done" => record[p] \notin {"none", "pending"}
  /\ \A p \in Plans : record[p] = "posted" => p \in links
  /\ StepOf("api") = "settle" =>
       /\ publisher["api"].comment \in {"posted", "failed", "not_applicable"}
       /\ publisher["api"].comment = "posted" => PlanOf("api") \in links
  /\ StepOf("api") = "recorded" => record[PlanOf("api")] \notin {"none", "pending"}

IInv ==
  /\ DiskInv /\ RemoteInv /\ MemoryInv
  /\ QueueInv /\ PublisherInv /\ BranchInv
  /\ AnnounceInv /\ PreparedInv /\ RecordInv /\ SettledInv

-----------------------------------------------------------------------------
(* The invariant says all that the checked properties say. *)

LEMMA RunsOfPlans == \A p \in Plans : RunOf[p] \in RunIds /\ RunCommit[RunOf[p]] \in Nat
<1>1. \A p \in Plans : RunOf[p] \in RunIds
  BY DEF RunIds
<1> QED BY <1>1, PublicationAssumption

LEMMA SeqOfSubset ==
  ASSUME NEW S, NEW T, NEW s \in Seq(S), \A i \in 1..Len(s) : s[i] \in T
  PROVE  s \in Seq(T)
OBVIOUS

LEMMA InvTypes == IInv => TypeOK
<1> SUFFICES ASSUME IInv PROVE TypeOK
  OBVIOUS
<1> USE DEF IInv
<1>1. queue \in Seq({ p \in Plans : job[p] = "queued" })
  <2>1. \A i \in 1..Len(queue) : queue[i] \in { p \in Plans : job[p] = "queued" }
    BY DEF QueueInv
  <2>2. queue \in Seq(Plans)
    BY DEF QueueInv
  <2> QED BY <2>1, <2>2, SeqOfSubset
<1>2. \A p \in Plans : job[p] = "queued" => \E i \in DOMAIN queue : queue[i] = p
  BY DEF QueueInv
<1> QED BY <1>1, <1>2 DEF TypeOK, DiskInv, RemoteInv, MemoryInv, PublisherInv, RecordStatus, JobStatus, Commits

LEMMA InvProperties == IInv => NeverRepublished /\ PullCarriesValidatedPlan /\ DoneIsSettled
<1> SUFFICES ASSUME IInv PROVE NeverRepublished /\ PullCarriesValidatedPlan /\ DoneIsSettled
  OBVIOUS
<1>1. DOMAIN pulls = 1..Len(pulls)
  BY DEF IInv, RemoteInv
<1>2. NeverRepublished
  BY DEF IInv, RecordInv, NeverRepublished, StepOf
<1>3. PullCarriesValidatedPlan
  BY <1>1 DEF IInv, BranchInv, PullCarriesValidatedPlan
<1>4. DoneIsSettled
  BY <1>1 DEF IInv, AnnounceInv, SettledInv, DoneIsSettled, Published
<1> QED BY <1>2, <1>3, <1>4

-----------------------------------------------------------------------------
(* It holds at the start. *)

LEMMA InvInit == Init => IInv
<1> SUFFICES ASSUME Init PROVE IInv
  OBVIOUS
<1> USE PublicationAssumption DEF Init
<1>1. DiskInv
  BY DEF DiskInv, RecordStatus
<1>2. RemoteInv
  BY DEF RemoteInv
<1>3. MemoryInv
  BY DEF MemoryInv, JobStatus
<1>4. QueueInv
  BY DEF QueueInv
<1>5. publisher \in [Actors -> PublisherState] /\ \A a \in Actors : StepOf(a) = "idle"
  BY DEF Idle, PublisherState, StepOf
<1>6. PublisherInv
  BY <1>5 DEF PublisherInv, Actors
<1>7. BranchInv
  BY <1>5 DEF BranchInv
<1>8. AnnounceInv
  BY <1>5 DEF AnnounceInv
<1>9. RecordInv
  BY <1>5 DEF RecordInv, Actors
<1>10. SettledInv
  BY <1>5 DEF SettledInv, Actors
<1>11. PreparedInv
  BY DEF PreparedInv
<1> QED BY <1>1, <1>2, <1>3, <1>4, <1>6, <1>7, <1>8, <1>9, <1>10, <1>11 DEF IInv

-----------------------------------------------------------------------------
(* The parts that a step leaves alone. *)

LEMMA Frames ==
  ASSUME IInv
  PROVE  /\ UNCHANGED <<prepared, record, bundles, stops>> => DiskInv'
         /\ UNCHANGED <<base, branch, pulls, links, denials>> => RemoteInv'
         /\ UNCHANGED <<handoff, byYolo, request, job>> => MemoryInv'
         /\ UNCHANGED <<job, queue>> => QueueInv'
         /\ UNCHANGED <<job, publisher>> => PublisherInv'
         /\ UNCHANGED <<branch, pulls, publisher>> => BranchInv'
         /\ UNCHANGED <<record, pulls, links, publisher>> => AnnounceInv'
         /\ UNCHANGED <<prepared, record, job, request, handoff, publisher>> => RecordInv'
         /\ UNCHANGED <<record, job, links, publisher>> => SettledInv'
         /\ UNCHANGED <<prepared, record, job, request, handoff>> => PreparedInv'
<1> USE DEF IInv
<1>1. UNCHANGED <<prepared, record, bundles, stops>> => DiskInv'
  BY DEF DiskInv
<1>2. UNCHANGED <<base, branch, pulls, links, denials>> => RemoteInv'
  BY DEF RemoteInv
<1>3. UNCHANGED <<handoff, byYolo, request, job>> => MemoryInv'
  BY DEF MemoryInv
<1>4. UNCHANGED <<job, queue>> => QueueInv'
  BY DEF QueueInv
<1>5. UNCHANGED <<job, publisher>> => PublisherInv'
  BY DEF PublisherInv, StepOf, PlanOf
<1>6. UNCHANGED <<branch, pulls, publisher>> => BranchInv'
  BY DEF BranchInv, StepOf, PlanOf, BranchOf, Commit
<1>7. UNCHANGED <<record, pulls, links, publisher>> => AnnounceInv'
  BY DEF AnnounceInv, StepOf, PlanOf, Published
<1>8. UNCHANGED <<prepared, record, job, request, handoff, publisher>> => RecordInv'
  BY DEF RecordInv, StepOf, PlanOf
<1>9. UNCHANGED <<record, job, links, publisher>> => SettledInv'
  BY DEF SettledInv, StepOf, PlanOf
<1>10. UNCHANGED <<prepared, record, job, request, handoff>> => PreparedInv'
  BY DEF PreparedInv
<1> QED BY <1>1, <1>2, <1>3, <1>4, <1>5, <1>6, <1>7, <1>8, <1>9, <1>10

-----------------------------------------------------------------------------
(* Around publication, and what is submitted. *)

LEMMA PreparePlanKeeps == ASSUME IInv, NEW p \in Plans, PreparePlan(p) PROVE IInv'
<1>1. DiskInv'
  BY DEF PreparePlan, IInv, DiskInv
<1>2. MemoryInv'
  BY DEF PreparePlan, IInv, MemoryInv
<1>3. record[p] = "none"
  BY DEF PreparePlan, IInv, PreparedInv
<1>5. PreparedInv'
  BY DEF PreparePlan, IInv, PreparedInv
<1>4. RecordInv'
  BY <1>3 DEF PreparePlan, IInv, RecordInv, StepOf, PlanOf
<1> QED BY <1>1, <1>2, <1>4, <1>5, Frames DEF PreparePlan, remote, IInv

LEMMA MoveBaseKeeps == ASSUME IInv, MoveBase PROVE IInv'
<1>1. RemoteInv'
  BY PublicationAssumption DEF MoveBase, IInv, RemoteInv
<1> QED BY <1>1, Frames DEF MoveBase, disk, memory, IInv

LEMMA ClearRunsKeeps == ASSUME IInv, ClearRuns PROVE IInv'
<1>1. DiskInv'
  BY DEF ClearRuns, IInv, DiskInv
<1> QED BY <1>1, Frames DEF ClearRuns, remote, memory, IInv

LEMMA SubmitKeeps ==
  ASSUME IInv, NEW p \in Plans, NEW yolo, yolo => p \in Autonomous, record[p] = "none" \/ job[p] # "none",
         CreateAndSubmit(p, yolo), UNCHANGED <<record, links, publisher>>
  PROVE  /\ job' \in [Plans -> JobStatus] /\ byYolo' \subseteq Autonomous
         /\ \A q \in Plans : \/ job'[q] = job[q]
                             \/ q = p /\ job[q] = "none" /\ job'[q] = "queued" /\ record[q] = "none"
         /\ QueueInv' /\ PublisherInv' /\ SettledInv'
<1>1. CASE job[p] # "none"
  <2>1. UNCHANGED <<job, queue, byYolo>>
    BY <1>1 DEF CreateAndSubmit
  <2> QED BY <2>1, Frames DEF IInv, MemoryInv
<1>2. CASE job[p] = "none"
  <2>1. /\ job' = [job EXCEPT ![p] = "queued"] /\ queue' = Append(queue, p) /\ byYolo' \subseteq byYolo \cup {p}
        /\ yolo \/ byYolo' = byYolo
    BY <1>2 DEF CreateAndSubmit, Submit
  <2>2. job' \in [Plans -> JobStatus] /\ job'[p] = "queued" /\ \A q \in Plans : q # p => job'[q] = job[q]
    BY <2>1 DEF IInv, MemoryInv, JobStatus
  <2>3. byYolo' \subseteq Autonomous
    BY <2>1 DEF IInv, MemoryInv
  <2>4. /\ queue' \in Seq(Plans) /\ Len(queue') = Len(queue) + 1 /\ Len(queue) \in Nat
        /\ queue'[Len(queue) + 1] = p
        /\ \A i \in 1..Len(queue) : queue'[i] = queue[i]
    BY <2>1 DEF IInv, QueueInv
  <2>5. \A i \in 1..Len(queue) : queue[i] \in Plans /\ queue[i] # p
    BY <1>2 DEF IInv, QueueInv
  <2>6. \A i \in 1..Len(queue') : i \in 1..Len(queue) \/ i = Len(queue) + 1
    BY <2>4
  <2>7. QueueInv'
    <3>1. \A i \in 1..Len(queue') : job'[queue'[i]] = "queued"
      <4>1. \A i \in 1..Len(queue) : job'[queue[i]] = "queued"
        BY <2>2, <2>5 DEF IInv, QueueInv
      <4> QED BY <2>2, <2>4, <2>6, <4>1
    <3>2. \A i, k \in 1..Len(queue') : queue'[i] = queue'[k] => i = k
      BY <2>4, <2>5, <2>6 DEF IInv, QueueInv
    <3>3. ASSUME NEW q \in Plans, job'[q] = "queued" PROVE \E i \in 1..Len(queue') : queue'[i] = q
      <4>1. CASE q = p
        <5>1. Len(queue) + 1 \in 1..Len(queue')
          BY <2>4
        <5> QED BY <2>4, <4>1, <5>1
      <4>2. CASE q # p
        <5>1. PICK i \in 1..Len(queue) : queue[i] = q
          BY <2>2, <3>3, <4>2 DEF IInv, QueueInv
        <5>2. i \in 1..Len(queue') /\ queue'[i] = q
          BY <2>4, <5>1
        <5> QED BY <5>2
      <4> QED BY <4>1, <4>2
    <3> QED BY <2>4, <3>1, <3>2, <3>3 DEF QueueInv
  <2>8. PublisherInv'
    <3>1. "api" \in Actors /\ (StepOf("api") # "idle" => PlanOf("api") \in Plans /\ job[PlanOf("api")] = "running")
      BY DEF IInv, PublisherInv, Actors
    <3>2. StepOf("api") # "idle" => job'[PlanOf("api")] = "running"
      BY <1>2, <2>2, <3>1
    <3> QED BY <3>2 DEF IInv, PublisherInv, StepOf, PlanOf
  <2>9. SettledInv'
    BY <2>2 DEF IInv, SettledInv, StepOf, PlanOf
  <2> QED BY <1>2, <2>2, <2>3, <2>7, <2>8, <2>9
<1> QED BY <1>1, <1>2

LEMMA CheckRequestKeeps == ASSUME IInv, NEW c \in Clients, NEW p \in Plans, CheckRequest(c, p) PROVE IInv'
<1>1. MemoryInv'
  BY DEF CheckRequest, IInv, MemoryInv
<1>2. RecordInv'
  <2>1. request' = [request EXCEPT ![c] = p] /\ record[p] = "none" /\ request \in [Clients -> Plans \cup {None}]
    BY DEF CheckRequest, IInv, MemoryInv
  <2> QED BY <2>1 DEF CheckRequest, disk, IInv, RecordInv, StepOf, PlanOf
<1>3. PreparedInv'
  <2>1. request' = [request EXCEPT ![c] = p] /\ p \in prepared /\ request \in [Clients -> Plans \cup {None}]
    BY DEF CheckRequest, IInv, MemoryInv
  <2> QED BY <2>1 DEF CheckRequest, disk, IInv, PreparedInv
<1> QED BY <1>1, <1>2, <1>3, Frames DEF CheckRequest, disk, remote, IInv

LEMMA AcceptRequestKeeps == ASSUME IInv, NEW c \in Clients, AcceptRequest(c) PROVE IInv'
<1>1. /\ request[c] \in Plans /\ request[c] \in prepared
      /\ record[request[c]] = "none" \/ job[request[c]] # "none"
      /\ request' = [request EXCEPT ![c] = None] /\ request \in [Clients -> Plans \cup {None}]
  BY DEF AcceptRequest, IInv, MemoryInv, RecordInv, PreparedInv
<1>2. /\ job' \in [Plans -> JobStatus] /\ byYolo' \subseteq Autonomous
      /\ \A q \in Plans : \/ job'[q] = job[q]
                          \/ q = request[c] /\ job[q] = "none" /\ job'[q] = "queued" /\ record[q] = "none"
      /\ QueueInv' /\ PublisherInv' /\ SettledInv'
  BY <1>1, SubmitKeeps DEF AcceptRequest, disk, remote
<1>3. MemoryInv'
  BY <1>1, <1>2 DEF AcceptRequest, IInv, MemoryInv
<1>4. RecordInv'
  <2>1. ASSUME NEW d \in Clients, request'[d] # None PROVE record[request'[d]] = "none" \/ job'[request'[d]] # "none"
    <3>1. request'[d] = request[d] /\ request[d] \in Plans
      BY <1>1, <2>1
    <3> QED BY <1>2, <2>1, <3>1 DEF IInv, RecordInv
  <2>2. \A p \in handoff : record[p] = "none" \/ job'[p] # "none"
    BY <1>2, PublicationAssumption DEF IInv, RecordInv, MemoryInv
  <2> QED BY <1>2, <2>1, <2>2 DEF AcceptRequest, disk, IInv, RecordInv, StepOf, PlanOf
<1>5. PreparedInv'
  BY <1>1, <1>2 DEF AcceptRequest, disk, IInv, PreparedInv
<1> QED BY <1>2, <1>3, <1>4, <1>5, Frames DEF AcceptRequest, disk, remote, IInv

LEMMA RefuseRequestKeeps == ASSUME IInv, NEW c \in Clients, RefuseRequest(c) PROVE IInv'
<1>1. request' = [request EXCEPT ![c] = None] /\ request \in [Clients -> Plans \cup {None}]
  BY DEF RefuseRequest, IInv, MemoryInv
<1>2. MemoryInv'
  BY <1>1 DEF RefuseRequest, IInv, MemoryInv
<1>3. RecordInv'
  BY <1>1 DEF RefuseRequest, disk, IInv, RecordInv, StepOf, PlanOf
<1>4. PreparedInv'
  BY <1>1 DEF RefuseRequest, disk, IInv, PreparedInv
<1> QED BY <1>2, <1>3, <1>4, Frames DEF RefuseRequest, disk, remote, IInv

LEMMA HandOffKeeps == ASSUME IInv, NEW p \in Plans, HandOff(p) PROVE IInv'
<1>1. /\ p \in Autonomous
      /\ record[p] = "none" \/ job[p] # "none"
      /\ handoff' \subseteq handoff /\ CreateAndSubmit(p, TRUE)
  BY DEF HandOff, IInv, MemoryInv, RecordInv
<1>2. /\ job' \in [Plans -> JobStatus] /\ byYolo' \subseteq Autonomous
      /\ \A q \in Plans : \/ job'[q] = job[q]
                          \/ q = p /\ job[q] = "none" /\ job'[q] = "queued" /\ record[q] = "none"
      /\ QueueInv' /\ PublisherInv' /\ SettledInv'
  BY <1>1, SubmitKeeps DEF HandOff, disk, remote
<1>3. MemoryInv'
  BY <1>1, <1>2 DEF HandOff, IInv, MemoryInv
<1>4. RecordInv'
  <2>1. ASSUME NEW d \in Clients, request[d] # None PROVE record[request[d]] = "none" \/ job'[request[d]] # "none"
    BY <1>2, <2>1 DEF IInv, RecordInv, MemoryInv
  <2>2. \A q \in handoff' : record[q] = "none" \/ job'[q] # "none"
    BY <1>1, <1>2, PublicationAssumption DEF IInv, RecordInv, MemoryInv
  <2> QED BY <1>2, <2>1, <2>2 DEF HandOff, disk, IInv, RecordInv, StepOf, PlanOf
<1>5. PreparedInv'
  BY <1>1, <1>2 DEF HandOff, disk, IInv, PreparedInv
<1> QED BY <1>2, <1>3, <1>4, <1>5, Frames DEF HandOff, disk, remote, IInv

-----------------------------------------------------------------------------
(* The publishers. *)

Steps == {"idle", "clone", "push", "open", "opened", "link", "settle", "recorded", "failed"}

LEMMA PublisherIs ==
  ASSUME IInv, NEW a \in Actors
  PROVE  /\ publisher \in [Actors -> PublisherState] /\ publisher[a] \in PublisherState
         /\ StepOf(a) # "idle" => /\ PlanOf(a) \in Plans
                                  /\ BranchOf(a) \in RunIds /\ RunCommit[BranchOf(a)] \in Nat
                                  /\ Commit(a) \in Commits
<1>1. publisher \in [Actors -> PublisherState] /\ publisher[a] \in PublisherState
  BY DEF IInv, PublisherInv
<1>2. publisher[a].parent \in Nat
  BY <1>1 DEF PublisherState
<1> QED BY <1>1, <1>2, RunsOfPlans DEF IInv, PublisherInv, BranchOf, Commit, Commits

(* A step of a publisher that only moves on. *)
LEMMA GoKeeps ==
  ASSUME IInv, NEW a \in Actors, NEW next \in Steps, Go(a, next), StepOf(a) # "idle", UNCHANGED job
  PROVE  /\ publisher'[a].step = next /\ publisher'[a].plan = publisher[a].plan
         /\ publisher'[a].parent = publisher[a].parent /\ publisher'[a].comment = publisher[a].comment
         /\ \A b \in Actors : b # a => publisher'[b] = publisher[b]
         /\ PublisherInv'
<1>1. publisher' = [publisher EXCEPT ![a] = [publisher[a] EXCEPT !.step = next]]
  BY DEF Go
<1>2. /\ publisher[a] \in PublisherState
      /\ [publisher[a] EXCEPT !.step = next] \in PublisherState
  BY PublisherIs DEF PublisherState, Steps
<1>3. /\ publisher' \in [Actors -> PublisherState]
      /\ publisher'[a] = [publisher[a] EXCEPT !.step = next]
      /\ \A b \in Actors : b # a => publisher'[b] = publisher[b]
  BY <1>1, <1>2, PublisherIs
<1>4. /\ publisher'[a].step = next /\ publisher'[a].plan = publisher[a].plan
      /\ publisher'[a].parent = publisher[a].parent /\ publisher'[a].comment = publisher[a].comment
  BY <1>2, <1>3 DEF PublisherState
<1>5. \A b \in Actors : publisher'[b].step # "idle" => StepOf(b) # "idle" /\ publisher'[b].plan = PlanOf(b)
  BY <1>3, <1>4 DEF StepOf, PlanOf
<1>6. "api" \in Actors
  BY DEF Actors
<1>7. PublisherInv'
  BY <1>3, <1>5, <1>6 DEF IInv, PublisherInv, StepOf, PlanOf
<1> QED BY <1>3, <1>4, <1>7

LEMMA StartJobKeeps == ASSUME IInv, StartJob PROVE IInv'
<1> DEFINE p == Head(queue)
<1>1. /\ queue \in Seq(Plans) /\ Len(queue) \in Nat /\ Len(queue) > 0 /\ p = queue[1] /\ 1 \in 1..Len(queue)
      /\ queue' \in Seq(Plans) /\ Len(queue') = Len(queue) - 1
      /\ \A i \in 1..Len(queue') : queue'[i] = queue[i + 1]
  BY DEF StartJob, IInv, QueueInv
<1>2. p \in Plans /\ job[p] = "queued" /\ record[p] = "none"
  BY <1>1 DEF IInv, QueueInv, RecordInv
<1>3. job' = [job EXCEPT ![p] = "running"] /\ publisher' = [publisher EXCEPT !["api"] = [Idle EXCEPT !.plan = p, !.step = "clone"]]
  BY DEF StartJob
<1>4. job' \in [Plans -> JobStatus] /\ job'[p] = "running" /\ \A q \in Plans : q # p => job'[q] = job[q]
  BY <1>2, <1>3 DEF IInv, MemoryInv, JobStatus
<1>5. MemoryInv'
  BY <1>4 DEF StartJob, IInv, MemoryInv
<1>6. QueueInv'
  <2>1. ASSUME NEW i \in 1..Len(queue')
        PROVE  i + 1 \in 1..Len(queue) /\ queue'[i] = queue[i + 1] /\ queue[i + 1] \in Plans /\ queue[i + 1] # p
    <3>1. i + 1 \in 1..Len(queue) /\ i + 1 # 1
      BY <1>1
    <3> QED BY <1>1, <3>1 DEF IInv, QueueInv
  <2>2. \A i \in 1..Len(queue') : job'[queue'[i]] = "queued"
    BY <1>4, <2>1 DEF IInv, QueueInv
  <2>3. \A i, k \in 1..Len(queue') : queue'[i] = queue'[k] => i = k
    <3> SUFFICES ASSUME NEW i \in 1..Len(queue'), NEW k \in 1..Len(queue'), queue[i + 1] = queue[k + 1] PROVE i = k
      BY <2>1
    <3>1. i + 1 = k + 1
      BY <2>1 DEF IInv, QueueInv
    <3> QED BY <3>1
  <2>4. ASSUME NEW q \in Plans, job'[q] = "queued" PROVE \E i \in 1..Len(queue') : queue'[i] = q
    <3>1. PICK i \in 1..Len(queue) : queue[i] = q
      BY <1>4, <2>4 DEF IInv, QueueInv
    <3>2. i # 1
      BY <1>1, <1>4, <2>4, <3>1
    <3>3. i - 1 \in 1..Len(queue') /\ queue'[i - 1] = q
      BY <1>1, <3>1, <3>2
    <3> QED BY <3>3
  <2> QED BY <1>1, <2>2, <2>3, <2>4 DEF QueueInv
<1> HIDE DEF p
<1>7. /\ publisher' \in [Actors -> PublisherState]
      /\ publisher'["api"].step = "clone" /\ publisher'["api"].plan = p
      /\ \A a \in Actors : a # "api" => publisher'[a] = publisher[a]
  <2>1. [Idle EXCEPT !.plan = p, !.step = "clone"] \in PublisherState
    BY <1>2 DEF Idle, PublisherState
  <2> QED BY <1>3, <2>1 DEF IInv, PublisherInv, Actors, Idle
<1>8. PublisherInv'
  BY <1>2, <1>4, <1>7 DEF IInv, PublisherInv, StepOf, PlanOf
<1>9. UNCHANGED <<disk, remote, handoff, request>>
  BY DEF StartJob
<1>10. BranchInv'
  BY <1>7, <1>9 DEF remote, IInv, BranchInv, StepOf, PlanOf, BranchOf, Commit
<1>11. AnnounceInv'
  BY <1>7, <1>9 DEF remote, disk, IInv, AnnounceInv, StepOf, PlanOf, Published
<1>12. RecordInv'
  <2>1. \A q \in Plans : job'[q] = "none" => job[q] = "none"
    BY <1>4
  <2>2. \A q \in Plans : job'[q] = "queued" => record[q] = "none"
    BY <1>4 DEF IInv, RecordInv
  <2>3. \A c \in Clients : request[c] # None => record[request[c]] = "none" \/ job'[request[c]] # "none"
    BY <2>1 DEF IInv, RecordInv, MemoryInv
  <2>4. \A q \in handoff : record[q] = "none" \/ job'[q] # "none"
    BY <2>1, PublicationAssumption DEF IInv, RecordInv, MemoryInv
  <2> QED BY <1>2, <1>7, <1>9, <2>2, <2>3, <2>4 DEF disk, IInv, RecordInv, StepOf, PlanOf
<1>13. SettledInv'
  BY <1>4, <1>7, <1>9 DEF disk, remote, IInv, SettledInv, StepOf
<1>14. PreparedInv'
  BY <1>2, <1>4, <1>9 DEF disk, IInv, PreparedInv
<1> QED BY <1>5, <1>6, <1>8, <1>9, <1>10, <1>11, <1>12, <1>13, <1>14, Frames DEF StartJob, disk, remote, IInv

LEMMA StartCommandKeeps == ASSUME IInv, NEW p \in Plans, StartCommand(p) PROVE IInv'
<1>1. publisher' = [publisher EXCEPT !["cli"] = [Idle EXCEPT !.plan = p, !.step = "clone"]]
  BY DEF StartCommand
<1>2. /\ publisher' \in [Actors -> PublisherState]
      /\ publisher'["cli"].step = "clone" /\ publisher'["cli"].plan = p
      /\ publisher'["api"] = publisher["api"]
  <2>1. [Idle EXCEPT !.plan = p, !.step = "clone"] \in PublisherState
    BY DEF Idle, PublisherState
  <2> QED BY <1>1, <2>1 DEF IInv, PublisherInv, Actors, Idle
<1>3. UNCHANGED <<disk, remote, memory, stops>>
  BY DEF StartCommand
<1>4. \A a \in Actors : a = "api" \/ a = "cli"
  BY DEF Actors
<1>5. PublisherInv'
  BY <1>2, <1>3, <1>4 DEF memory, IInv, PublisherInv, StepOf, PlanOf
<1>6. BranchInv'
  BY <1>2, <1>3, <1>4 DEF remote, IInv, BranchInv, StepOf, PlanOf, BranchOf, Commit
<1>7. AnnounceInv'
  BY <1>2, <1>3, <1>4 DEF remote, disk, IInv, AnnounceInv, StepOf, PlanOf, Published
<1>8. RecordInv'
  BY <1>2, <1>3 DEF disk, memory, IInv, RecordInv, StepOf, PlanOf
<1>9. SettledInv'
  BY <1>2, <1>3 DEF disk, memory, remote, IInv, SettledInv, StepOf, PlanOf
<1> QED BY <1>3, <1>5, <1>6, <1>7, <1>8, <1>9, Frames DEF disk, remote, memory, IInv

LEMMA CloneAndCommitKeeps == ASSUME IInv, NEW a \in Actors, CloneAndCommit(a) PROVE IInv'
<1>1. StepOf(a) = "clone" /\ UNCHANGED <<disk, remote, memory, stops>> /\ publisher[a] \in PublisherState
  BY PublisherIs DEF CloneAndCommit, At, StepOf
<1>2. /\ base \in Nat
      /\ \/ /\ base = RunCommit[BranchOf(a)]
            /\ publisher' = [publisher EXCEPT ![a] = [publisher[a] EXCEPT !.step = "push", !.parent = base]]
         \/ publisher' = [publisher EXCEPT ![a] = [publisher[a] EXCEPT !.step = "failed"]]
  <2>1. base \in Nat
    BY PublicationAssumption DEF IInv, RemoteInv
  <2>2. CASE base = RunCommit[BranchOf(a)]
    BY <2>1, <2>2, Zenon DEF CloneAndCommit
  <2>3. CASE base # RunCommit[BranchOf(a)]
    BY <2>1, <2>3, Zenon DEF CloneAndCommit
  <2> QED BY <2>2, <2>3
<1>3. /\ publisher' \in [Actors -> PublisherState]
      /\ publisher'[a].plan = publisher[a].plan
      /\ \/ publisher'[a].step = "push" /\ publisher'[a].parent = RunCommit[BranchOf(a)]
         \/ publisher'[a].step = "failed"
      /\ \A b \in Actors : b # a => publisher'[b] = publisher[b]
  <2>1. CASE /\ base = RunCommit[BranchOf(a)]
             /\ publisher' = [publisher EXCEPT ![a] = [publisher[a] EXCEPT !.step = "push", !.parent = base]]
    <3>1. [publisher[a] EXCEPT !.step = "push", !.parent = base] \in PublisherState
      BY <1>1, <1>2 DEF PublisherState
    <3> QED BY <1>1, <2>1, <3>1, PublisherIs DEF PublisherState
  <2>2. CASE publisher' = [publisher EXCEPT ![a] = [publisher[a] EXCEPT !.step = "failed"]]
    <3>1. [publisher[a] EXCEPT !.step = "failed"] \in PublisherState
      BY <1>1 DEF PublisherState
    <3> QED BY <1>1, <2>2, <3>1, PublisherIs DEF PublisherState
  <2> QED BY <1>2, <2>1, <2>2
<1>4. "api" \in Actors
  BY DEF Actors
<1>5. PublisherInv'
  BY <1>1, <1>3, <1>4 DEF memory, IInv, PublisherInv, StepOf, PlanOf
<1>6. BranchInv'
  BY <1>1, <1>3 DEF remote, IInv, BranchInv, StepOf, PlanOf, BranchOf, Commit
<1>7. AnnounceInv'
  BY <1>1, <1>3 DEF remote, disk, IInv, AnnounceInv, StepOf, PlanOf, Published
<1>8. RecordInv'
  BY <1>1, <1>3, <1>4 DEF disk, memory, IInv, RecordInv, StepOf, PlanOf
<1>9. SettledInv'
  BY <1>1, <1>3, <1>4 DEF disk, memory, remote, IInv, SettledInv, StepOf, PlanOf
<1> QED BY <1>1, <1>5, <1>6, <1>7, <1>8, <1>9, Frames DEF disk, remote, memory, IInv

(* A branch that is set stays: a second push brings the same commit. *)
LEMMA PushKeeps == ASSUME IInv, NEW a \in Actors, Push(a) PROVE IInv'
<1>1. /\ StepOf(a) = "push" /\ branch[BranchOf(a)] \in {None, Commit(a)}
      /\ branch' = [branch EXCEPT ![BranchOf(a)] = Commit(a)]
      /\ UNCHANGED <<disk, base, pulls, links, denials, memory, stops>>
  BY DEF Push, SetBranch, At, StepOf
<1>2. PICK next \in {"open", "failed"} : Go(a, next)
  BY DEF Push, SetBranch
<1>3. BranchOf(a) \in RunIds /\ Commit(a) \in Commits /\ branch \in [RunIds -> Commits \cup {None}] /\ None \notin Commits
  BY <1>1, PublisherIs, PublicationAssumption DEF IInv, RemoteInv, Commits
<1>4. /\ publisher'[a].step = next /\ publisher'[a].plan = publisher[a].plan
      /\ publisher'[a].parent = publisher[a].parent
      /\ \A b \in Actors : b # a => publisher'[b] = publisher[b]
      /\ PublisherInv'
  BY <1>1, <1>2, GoKeeps DEF Steps, memory
<1>5. RemoteInv'
  BY <1>1, <1>3 DEF IInv, RemoteInv
<1>6. ASSUME NEW r \in RunIds, branch[r] \in Commits PROVE branch'[r] = branch[r]
  BY <1>1, <1>3, <1>6
<1>7. BranchInv'
  <2>1. ASSUME NEW b \in Actors
        PROVE  publisher'[b].plan = publisher[b].plan /\ publisher'[b].parent = publisher[b].parent
    BY <1>4
  <2>2. \A b \in Actors : publisher'[b].step \in {"push", "open"} =>
          publisher'[b].parent = RunCommit[RunOf[publisher'[b].plan]]
    BY <1>1, <1>4, <2>1 DEF IInv, BranchInv, StepOf, BranchOf, PlanOf
  <2>3. ASSUME NEW b \in Actors, publisher'[b].step = "open"
        PROVE  branch'[RunOf[publisher'[b].plan]] = [plan |-> publisher'[b].plan, parent |-> publisher'[b].parent]
    <3>1. CASE b = a
      <4>1. branch'[BranchOf(a)] = Commit(a)
        BY <1>1, <1>3
      <4> QED BY <2>1, <3>1, <4>1 DEF Commit, BranchOf, PlanOf
    <3>2. CASE b # a
      <4>1. StepOf(b) = "open"
        BY <1>4, <2>3, <3>2 DEF StepOf
      <4>2. branch[BranchOf(b)] = Commit(b) /\ BranchOf(b) \in RunIds /\ Commit(b) \in Commits
        BY <4>1, PublisherIs DEF IInv, BranchInv
      <4>3. branch'[BranchOf(b)] = Commit(b)
        BY <1>6, <4>2
      <4> QED BY <2>1, <4>3 DEF Commit, BranchOf, PlanOf
    <3> QED BY <3>1, <3>2
  <2>4. ASSUME NEW i \in 1..Len(pulls)
        PROVE  branch'[RunOf[pulls[i]]] = [plan |-> pulls[i], parent |-> RunCommit[RunOf[pulls[i]]]]
    <3>1. pulls[i] \in Plans
      BY DEF IInv, RemoteInv
    <3>2. branch[RunOf[pulls[i]]] = [plan |-> pulls[i], parent |-> RunCommit[RunOf[pulls[i]]]]
      BY DEF IInv, BranchInv
    <3>3. branch[RunOf[pulls[i]]] \in Commits /\ RunOf[pulls[i]] \in RunIds
      BY <3>1, <3>2, RunsOfPlans DEF Commits
    <3> QED BY <1>6, <3>2, <3>3
  <2> QED BY <1>1, <2>2, <2>3, <2>4 DEF BranchInv, StepOf, PlanOf, BranchOf, Commit
<1>8. AnnounceInv'
  BY <1>1, <1>4 DEF disk, IInv, AnnounceInv, StepOf, PlanOf, Published
<1>9. "api" \in Actors
  BY DEF Actors
<1>10. RecordInv'
  BY <1>1, <1>4, <1>9 DEF disk, memory, IInv, RecordInv, StepOf, PlanOf
<1>11. SettledInv'
  BY <1>1, <1>4, <1>9 DEF disk, memory, IInv, SettledInv, StepOf, PlanOf
<1> QED BY <1>1, <1>4, <1>5, <1>7, <1>8, <1>10, <1>11, Frames DEF disk, memory, IInv

(* What is published stays so. *)
LEMMA OpenPullKeeps == ASSUME IInv, NEW a \in Actors, OpenPull(a) PROVE IInv'
<1>1. /\ StepOf(a) = "open" /\ pulls' = Append(pulls, PlanOf(a)) /\ PlanOf(a) \in Plans
      /\ UNCHANGED <<disk, base, branch, links, denials, memory, stops>>
  BY PublisherIs DEF OpenPull, At, StepOf
<1>2. PICK next \in {"opened", "failed"} : Go(a, next)
  BY DEF OpenPull
<1>3. /\ publisher'[a].step = next /\ publisher'[a].plan = publisher[a].plan
      /\ publisher'[a].parent = publisher[a].parent
      /\ \A b \in Actors : b # a => publisher'[b] = publisher[b]
      /\ PublisherInv'
  BY <1>1, <1>2, GoKeeps DEF Steps, memory
<1>4. /\ pulls' \in Seq(Plans) /\ Len(pulls') = Len(pulls) + 1 /\ Len(pulls) \in Nat
      /\ pulls'[Len(pulls) + 1] = PlanOf(a)
      /\ \A i \in 1..Len(pulls) : pulls'[i] = pulls[i]
  BY <1>1 DEF IInv, RemoteInv
<1>5. RemoteInv'
  BY <1>1, <1>4 DEF IInv, RemoteInv
<1>6. BranchInv'
  <2>1. branch[RunOf[PlanOf(a)]] = [plan |-> PlanOf(a), parent |-> RunCommit[RunOf[PlanOf(a)]]]
    BY <1>1 DEF IInv, BranchInv, Commit, BranchOf
  <2>2. \A i \in 1..Len(pulls') : i \in 1..Len(pulls) \/ i = Len(pulls) + 1
    BY <1>4
  <2>3. \A i \in 1..Len(pulls') :
          branch[RunOf[pulls'[i]]] = [plan |-> pulls'[i], parent |-> RunCommit[RunOf[pulls'[i]]]]
    BY <1>4, <2>1, <2>2 DEF IInv, BranchInv
  <2> QED BY <1>1, <1>3, <2>3 DEF IInv, BranchInv, StepOf, PlanOf, BranchOf, Commit
<1>7. AnnounceInv'
  <2>1. \A p \in Plans : Published(p) => Published(p)'
    BY <1>4 DEF Published
  <2>2. \E i \in 1..Len(pulls') : pulls'[i] = publisher'[a].plan
    <3>1. Len(pulls) + 1 \in 1..Len(pulls') /\ pulls'[Len(pulls) + 1] = publisher'[a].plan
      BY <1>3, <1>4 DEF PlanOf
    <3> QED BY <3>1
  <2>3. ASSUME NEW b \in Actors, publisher'[b].step \in {"opened", "link", "settle", "recorded"}
        PROVE  \E i \in 1..Len(pulls') : pulls'[i] = publisher'[b].plan
    <3>1. CASE b = a
      BY <2>2, <3>1
    <3>2. CASE b # a
      <4>1. publisher'[b].plan = PlanOf(b) /\ PlanOf(b) \in Plans /\ Published(PlanOf(b))
        BY <1>3, <2>3, <3>2 DEF IInv, AnnounceInv, PublisherInv, StepOf, PlanOf
      <4>2. PICK i \in 1..Len(pulls) : pulls[i] = PlanOf(b)
        BY <4>1 DEF Published
      <4>3. i \in 1..Len(pulls') /\ pulls'[i] = PlanOf(b)
        BY <1>4, <4>2
      <4> QED BY <4>1, <4>3
    <3> QED BY <3>1, <3>2
  <2> QED BY <1>1, <2>1, <2>3 DEF disk, IInv, AnnounceInv, StepOf, PlanOf, Published
<1>8. "api" \in Actors
  BY DEF Actors
<1>9. RecordInv'
  BY <1>1, <1>3, <1>8 DEF disk, memory, IInv, RecordInv, StepOf, PlanOf
<1>10. SettledInv'
  BY <1>1, <1>3, <1>8 DEF disk, memory, IInv, SettledInv, StepOf, PlanOf
<1> QED BY <1>1, <1>3, <1>5, <1>6, <1>7, <1>9, <1>10, Frames DEF disk, memory, IInv

LEMMA FailPublishingKeeps == ASSUME IInv, NEW a \in Actors, FailPublishing(a) PROVE IInv'
<1>1. Go(a, "failed") /\ StepOf(a) # "idle" /\ UNCHANGED <<disk, remote, memory, stops>> /\ "api" \in Actors
  BY DEF FailPublishing, StepOf, Actors
<1>2. /\ publisher'[a].step = "failed" /\ publisher'[a].plan = publisher[a].plan
      /\ \A b \in Actors : b # a => publisher'[b] = publisher[b]
      /\ PublisherInv'
  BY <1>1, GoKeeps DEF Steps, memory
<1>3. BranchInv'
  BY <1>1, <1>2 DEF remote, IInv, BranchInv, StepOf, PlanOf, BranchOf, Commit
<1>4. AnnounceInv'
  BY <1>1, <1>2 DEF remote, disk, IInv, AnnounceInv, StepOf, PlanOf, Published
<1>5. RecordInv'
  BY <1>1, <1>2 DEF disk, memory, IInv, RecordInv, StepOf, PlanOf
<1>6. SettledInv'
  BY <1>1, <1>2 DEF disk, memory, remote, IInv, SettledInv, StepOf, PlanOf
<1> QED BY <1>1, <1>2, <1>3, <1>4, <1>5, <1>6, Frames DEF disk, remote, memory, IInv

(* A publisher is done with its plan. *)
LEMMA BecomesIdle ==
  ASSUME IInv, NEW a \in Actors, publisher' = [publisher EXCEPT ![a] = Idle]
  PROVE  /\ publisher' \in [Actors -> PublisherState] /\ publisher'[a].step = "idle"
         /\ \A b \in Actors : b # a => publisher'[b] = publisher[b]
<1>1. Idle \in PublisherState /\ Idle.step = "idle"
  BY DEF Idle, PublisherState
<1> QED BY <1>1, PublisherIs

LEMMA EndCommandKeeps == ASSUME IInv, EndCommand PROVE IInv'
<1>1. "api" \in Actors /\ "cli" \in Actors /\ UNCHANGED <<disk, remote, memory, stops>>
  BY DEF EndCommand, Actors
<1>2. /\ publisher' \in [Actors -> PublisherState] /\ publisher'["cli"].step = "idle"
      /\ \A b \in Actors : b # "cli" => publisher'[b] = publisher[b]
  BY <1>1, BecomesIdle DEF EndCommand
<1>3. PublisherInv'
  BY <1>1, <1>2 DEF memory, IInv, PublisherInv, StepOf, PlanOf
<1>4. BranchInv'
  BY <1>1, <1>2 DEF remote, IInv, BranchInv, StepOf, PlanOf, BranchOf, Commit
<1>5. AnnounceInv'
  BY <1>1, <1>2 DEF remote, disk, IInv, AnnounceInv, StepOf, PlanOf, Published
<1>6. RecordInv'
  BY <1>1, <1>2 DEF disk, memory, IInv, RecordInv, StepOf, PlanOf
<1>7. SettledInv'
  BY <1>1, <1>2 DEF disk, memory, remote, IInv, SettledInv, StepOf, PlanOf
<1> QED BY <1>1, <1>3, <1>4, <1>5, <1>6, <1>7, Frames DEF disk, remote, memory, IInv

-----------------------------------------------------------------------------
(* The rest of the API's publication job. *)

LEMMA WriteRecordKeeps ==
  ASSUME IInv, StepOf("api") \in {"opened", "settle"}, NEW next \in {"link", "recorded"},
         NEW status \in RecordStatus \ {"none"}, WriteRecord(status, next)
  PROVE  /\ publisher'["api"].step = next /\ publisher'["api"].plan = PlanOf("api")
         /\ PlanOf("api") \in Plans /\ record'[PlanOf("api")] = status /\ job[PlanOf("api")] = "running"
         /\ \A p \in Plans : p # PlanOf("api") => record'[p] = record[p]
         /\ DiskInv' /\ RemoteInv' /\ MemoryInv' /\ QueueInv' /\ PublisherInv'
         /\ BranchInv' /\ AnnounceInv' /\ PreparedInv' /\ RecordInv'
<1>1. /\ "api" \in Actors /\ Go("api", next) /\ record' = [record EXCEPT ![PlanOf("api")] = status]
      /\ UNCHANGED <<prepared, bundles, remote, memory, stops>>
  BY DEF WriteRecord, Actors
<1>2. PlanOf("api") \in Plans /\ job[PlanOf("api")] = "running" /\ Published(PlanOf("api"))
  BY <1>1 DEF IInv, PublisherInv, AnnounceInv
<1>3. /\ publisher'["api"].step = next /\ publisher'["api"].plan = publisher["api"].plan
      /\ publisher'["api"].parent = publisher["api"].parent
      /\ \A b \in Actors : b # "api" => publisher'[b] = publisher[b]
      /\ PublisherInv'
  BY <1>1, GoKeeps DEF Steps, memory
<1>4. /\ record' \in [Plans -> RecordStatus] /\ record'[PlanOf("api")] = status
      /\ \A p \in Plans : p # PlanOf("api") => record'[p] = record[p]
  BY <1>1, <1>2 DEF IInv, DiskInv
<1>5. DiskInv'
  BY <1>1, <1>4 DEF IInv, DiskInv
<1>6. BranchInv'
  BY <1>1, <1>3 DEF remote, IInv, BranchInv, StepOf, PlanOf, BranchOf, Commit
<1>7. AnnounceInv'
  <2>1. \A p : Published(p)' <=> Published(p)
    BY <1>1 DEF remote, Published
  <2>2. \A p \in Plans : record'[p] # "none" \/ p \in links' => Published(p)
    BY <1>1, <1>2, <1>4 DEF remote, IInv, AnnounceInv
  <2>3. \A a \in Actors : publisher'[a].step \in {"opened", "link", "settle", "recorded"} => Published(publisher'[a].plan)
    BY <1>2, <1>3 DEF IInv, AnnounceInv, StepOf, PlanOf
  <2> QED BY <1>1, <2>1, <2>2, <2>3 DEF remote, AnnounceInv, StepOf, PlanOf, Published
<1>8. PreparedInv'
  BY <1>1, <1>2, <1>4 DEF memory, IInv, PreparedInv
<1>9. RecordInv'
  <2>1. \A p \in Plans : record'[p] = record[p] \/ job[p] = "running"
    BY <1>2, <1>4
  <2>2. \A p \in Plans : job[p] = "queued" => record'[p] = "none"
    BY <2>1 DEF IInv, RecordInv
  <2>3. \A c \in Clients : request[c] # None => record'[request[c]] = "none" \/ job[request[c]] # "none"
    BY <2>1 DEF IInv, RecordInv, MemoryInv
  <2>4. \A p \in handoff : record'[p] = "none" \/ job[p] # "none"
    BY <2>1, PublicationAssumption DEF IInv, RecordInv, MemoryInv
  <2> QED BY <1>1, <1>3, <2>2, <2>3, <2>4 DEF memory, RecordInv, StepOf
<1> QED BY <1>1, <1>2, <1>3, <1>4, <1>5, <1>6, <1>7, <1>8, <1>9, Frames DEF PlanOf, remote, memory, IInv

LEMMA RecordPendingKeeps == ASSUME IInv, RecordPending PROVE IInv'
<1>1. /\ publisher'["api"].step = "link" /\ publisher'["api"].plan = PlanOf("api")
      /\ PlanOf("api") \in Plans /\ record'[PlanOf("api")] = "pending" /\ job[PlanOf("api")] = "running"
      /\ \A p \in Plans : p # PlanOf("api") => record'[p] = record[p]
      /\ DiskInv' /\ RemoteInv' /\ MemoryInv' /\ QueueInv' /\ PublisherInv'
      /\ BranchInv' /\ AnnounceInv' /\ PreparedInv' /\ RecordInv'
  BY WriteRecordKeeps DEF RecordPending, At, StepOf, RecordStatus
<1>2. SettledInv'
  BY <1>1 DEF RecordPending, WriteRecord, remote, memory, IInv, SettledInv, StepOf
<1> QED BY <1>1, <1>2 DEF IInv

LEMMA RecordSettledKeeps == ASSUME IInv, RecordSettled PROVE IInv'
<1> DEFINE comment == publisher["api"].comment
<1>1. /\ comment \in {"posted", "failed", "not_applicable"}
      /\ comment = "posted" => PlanOf("api") \in links
      /\ UNCHANGED <<links, job>>
  BY DEF RecordSettled, WriteRecord, At, remote, memory, IInv, SettledInv, StepOf
<1>2. /\ publisher'["api"].step = "recorded" /\ publisher'["api"].plan = PlanOf("api")
      /\ PlanOf("api") \in Plans /\ record'[PlanOf("api")] = comment /\ job[PlanOf("api")] = "running"
      /\ \A p \in Plans : p # PlanOf("api") => record'[p] = record[p]
      /\ DiskInv' /\ RemoteInv' /\ MemoryInv' /\ QueueInv' /\ PublisherInv'
      /\ BranchInv' /\ AnnounceInv' /\ PreparedInv' /\ RecordInv'
  BY <1>1, WriteRecordKeeps DEF RecordSettled, At, StepOf, RecordStatus
<1> HIDE DEF comment
<1>3. SettledInv'
  <2>1. publisher'["api"].step = "recorded" => record'[publisher'["api"].plan] \notin {"none", "pending"}
    BY <1>1, <1>2
  <2>2. \A p \in Plans : job'[p] = "done" => record'[p] \notin {"none", "pending"}
    BY <1>1, <1>2 DEF IInv, SettledInv
  <2>3. \A p \in Plans : record'[p] = "posted" => p \in links'
    BY <1>1, <1>2 DEF IInv, SettledInv
  <2> QED BY <1>2, <2>1, <2>2, <2>3 DEF SettledInv, StepOf, PlanOf
<1> QED BY <1>2, <1>3 DEF IInv

LEMMA LinkFromJiraKeeps == ASSUME IInv, LinkFromJira PROVE IInv'
<1>1. /\ StepOf("api") = "link" /\ "api" \in Actors
      /\ UNCHANGED <<disk, base, branch, pulls, denials, memory, stops>>
  BY DEF LinkFromJira, At, StepOf, Actors
<1>2. PlanOf("api") \in Plans /\ Published(PlanOf("api")) /\ publisher["api"] \in PublisherState
  BY <1>1, PublisherIs DEF IInv, AnnounceInv
<1>3. PICK comment \in {"posted", "failed", "not_applicable"} :
        /\ publisher' = [publisher EXCEPT !["api"].step = "settle", !["api"].comment = comment]
        /\ links \subseteq links' /\ links' \subseteq links \cup {PlanOf("api")}
        /\ comment = "posted" => PlanOf("api") \in links'
  BY DEF LinkFromJira
<1>4. /\ publisher' \in [Actors -> PublisherState]
      /\ publisher'["api"].step = "settle" /\ publisher'["api"].comment = comment
      /\ publisher'["api"].plan = publisher["api"].plan
      /\ \A b \in Actors : b # "api" => publisher'[b] = publisher[b]
  <2>1. publisher' = [publisher EXCEPT !["api"] = [publisher["api"] EXCEPT !.step = "settle", !.comment = comment]]
    BY <1>3
  <2>2. [publisher["api"] EXCEPT !.step = "settle", !.comment = comment] \in PublisherState
    BY <1>2 DEF PublisherState
  <2> QED BY <1>1, <1>2, <2>1, <2>2, PublisherIs DEF PublisherState
<1>5. RemoteInv'
  BY <1>1, <1>2, <1>3 DEF IInv, RemoteInv
<1>6. PublisherInv'
  BY <1>1, <1>4 DEF memory, IInv, PublisherInv, StepOf, PlanOf
<1>7. BranchInv'
  BY <1>1, <1>4 DEF IInv, BranchInv, StepOf, PlanOf, BranchOf, Commit
<1>8. AnnounceInv'
  <2>1. \A p : Published(p)' <=> Published(p)
    BY <1>1 DEF Published
  <2>2. \A p \in Plans : record'[p] # "none" \/ p \in links' => Published(p)
    BY <1>1, <1>2, <1>3 DEF disk, IInv, AnnounceInv
  <2>3. \A a \in Actors : publisher'[a].step \in {"opened", "link", "settle", "recorded"} => Published(publisher'[a].plan)
    BY <1>2, <1>4 DEF IInv, AnnounceInv, StepOf, PlanOf
  <2> QED BY <2>1, <2>2, <2>3, <1>1 DEF AnnounceInv, StepOf, PlanOf, Published
<1>9. RecordInv'
  BY <1>1, <1>4 DEF disk, memory, IInv, RecordInv, StepOf, PlanOf
<1>10. SettledInv'
  BY <1>1, <1>3, <1>4 DEF disk, memory, IInv, SettledInv, StepOf, PlanOf
<1> QED BY <1>1, <1>5, <1>6, <1>7, <1>8, <1>9, <1>10, Frames DEF disk, memory, IInv

LEMMA FailToRecordKeeps == ASSUME IInv, FailToRecord PROVE IInv'
<1>1. Go("api", "failed") /\ StepOf("api") # "idle" /\ UNCHANGED <<disk, remote, memory, stops>> /\ "api" \in Actors
  BY DEF FailToRecord, StepOf, Actors
<1>2. /\ publisher'["api"].step = "failed" /\ publisher'["api"].plan = publisher["api"].plan
      /\ \A b \in Actors : b # "api" => publisher'[b] = publisher[b]
      /\ PublisherInv'
  BY <1>1, GoKeeps DEF Steps, memory
<1>3. BranchInv'
  BY <1>1, <1>2 DEF remote, IInv, BranchInv, StepOf, PlanOf, BranchOf, Commit
<1>4. AnnounceInv'
  BY <1>1, <1>2 DEF remote, disk, IInv, AnnounceInv, StepOf, PlanOf, Published
<1>5. RecordInv'
  BY <1>1, <1>2 DEF disk, memory, IInv, RecordInv, StepOf, PlanOf
<1>6. SettledInv'
  BY <1>1, <1>2 DEF disk, memory, remote, IInv, SettledInv, StepOf, PlanOf
<1> QED BY <1>1, <1>2, <1>3, <1>4, <1>5, <1>6, Frames DEF disk, remote, memory, IInv

(* The job of the API's publisher ends. *)
LEMMA EndJobKeeps ==
  ASSUME IInv, StepOf("api") # "idle", NEW status \in {"done", "failed"},
         status = "done" => StepOf("api") = "recorded",
         job' = [job EXCEPT ![PlanOf("api")] = status], publisher' = [publisher EXCEPT !["api"] = Idle],
         denials' \subseteq denials \cup {PlanOf("api")},
         UNCHANGED <<disk, base, branch, pulls, links, handoff, request, byYolo, queue, stops>>
  PROVE  IInv'
<1>1. "api" \in Actors /\ PlanOf("api") \in Plans /\ job[PlanOf("api")] = "running"
  BY DEF IInv, PublisherInv, Actors
<1>2. /\ publisher' \in [Actors -> PublisherState] /\ publisher'["api"].step = "idle"
      /\ \A b \in Actors : b # "api" => publisher'[b] = publisher[b]
  BY <1>1, BecomesIdle
<1>3. /\ job' \in [Plans -> JobStatus] /\ job'[PlanOf("api")] = status
      /\ \A p \in Plans : p # PlanOf("api") => job'[p] = job[p]
  BY <1>1 DEF IInv, MemoryInv, JobStatus
<1>4. RemoteInv'
  BY <1>1 DEF IInv, RemoteInv
<1>5. MemoryInv'
  BY <1>3 DEF IInv, MemoryInv
<1>6. QueueInv'
  <2>1. \A i \in 1..Len(queue) : queue[i] \in Plans /\ queue[i] # PlanOf("api")
    BY <1>1 DEF IInv, QueueInv
  <2>2. \A i \in 1..Len(queue) : job'[queue[i]] = "queued"
    BY <1>3, <2>1 DEF IInv, QueueInv
  <2>3. \A p \in Plans : job'[p] = "queued" => \E i \in 1..Len(queue) : queue[i] = p
    BY <1>3 DEF IInv, QueueInv
  <2> QED BY <2>2, <2>3 DEF IInv, QueueInv
<1>7. PublisherInv'
  BY <1>2 DEF IInv, PublisherInv, StepOf, PlanOf
<1>8. BranchInv'
  BY <1>2 DEF IInv, BranchInv, StepOf, PlanOf, BranchOf, Commit
<1>9. AnnounceInv'
  BY <1>2 DEF disk, IInv, AnnounceInv, StepOf, PlanOf, Published
<1>10. PreparedInv'
  BY <1>1, <1>3 DEF disk, IInv, PreparedInv
<1>11. RecordInv'
  <2>1. \A p \in Plans : job'[p] = "none" => job[p] = "none"
    BY <1>3
  <2>2. \A p \in Plans : job'[p] = "queued" => record[p] = "none"
    BY <1>3 DEF IInv, RecordInv
  <2>3. \A c \in Clients : request[c] # None => record[request[c]] = "none" \/ job'[request[c]] # "none"
    BY <2>1 DEF IInv, RecordInv, MemoryInv
  <2>4. \A p \in handoff : record[p] = "none" \/ job'[p] # "none"
    BY <2>1, PublicationAssumption DEF IInv, RecordInv, MemoryInv
  <2> QED BY <1>2, <2>2, <2>3, <2>4 DEF disk, RecordInv, StepOf
<1>12. SettledInv'
  <2>1. \A p \in Plans : job'[p] = "done" => record[p] \notin {"none", "pending"}
    BY <1>3 DEF IInv, SettledInv
  <2> QED BY <1>2, <2>1 DEF disk, IInv, SettledInv, StepOf
<1> QED BY <1>4, <1>5, <1>6, <1>7, <1>8, <1>9, <1>10, <1>11, <1>12, Frames DEF disk, IInv

LEMMA MarkDoneKeeps == ASSUME IInv, MarkDone PROVE IInv'
BY EndJobKeeps DEF MarkDone, At, StepOf, remote

LEMMA MarkFailedKeeps == ASSUME IInv, MarkFailed PROVE IInv'
<1>1. denials' \subseteq denials \cup {PlanOf("api")}
  BY DEF MarkFailed, Deny
<1> QED BY <1>1, EndJobKeeps DEF MarkFailed, Deny, At, StepOf

LEMMA RestartKeeps == ASSUME IInv, Restart PROVE IInv'
<1>1. "api" \in Actors /\ UNCHANGED <<disk, remote>>
  BY DEF Restart, Actors
<1>2. /\ publisher' \in [Actors -> PublisherState] /\ publisher'["api"].step = "idle"
      /\ \A b \in Actors : b # "api" => publisher'[b] = publisher[b]
  BY <1>1, BecomesIdle DEF Restart
<1>3. DiskInv'
  BY PublicationAssumption DEF Restart, disk, IInv, DiskInv
<1>4. MemoryInv'
  BY DEF Restart, MemoryInv, JobStatus
<1>5. QueueInv'
  BY DEF Restart, QueueInv
<1>6. PublisherInv'
  BY <1>2 DEF IInv, PublisherInv, StepOf, PlanOf
<1>7. BranchInv'
  BY <1>1, <1>2 DEF remote, IInv, BranchInv, StepOf, PlanOf, BranchOf, Commit
<1>8. AnnounceInv'
  BY <1>1, <1>2 DEF disk, remote, IInv, AnnounceInv, StepOf, PlanOf, Published
<1>9. PreparedInv'
  BY DEF Restart, disk, IInv, PreparedInv
<1>10. RecordInv'
  BY <1>2 DEF Restart, RecordInv, StepOf
<1>11. SettledInv'
  BY <1>1, <1>2 DEF Restart, disk, remote, IInv, SettledInv, StepOf
<1> QED BY <1>1, <1>3, <1>4, <1>5, <1>6, <1>7, <1>8, <1>9, <1>10, <1>11, Frames DEF remote, IInv

-----------------------------------------------------------------------------
(* The invariant is inductive, so every behaviour has it. *)

LEMMA InvNext == IInv /\ [Next]_vars => IInv'
<1> SUFFICES ASSUME IInv, [Next]_vars PROVE IInv'
  OBVIOUS
<1>1. CASE UNCHANGED vars
  BY <1>1, Frames DEF vars, disk, remote, memory, IInv
<1>2. CASE Next
  <2>1. ASSUME NEW a \in Actors, Publisher(a) PROVE IInv'
    BY <2>1, CloneAndCommitKeeps, PushKeeps, OpenPullKeeps, FailPublishingKeeps DEF Publisher
  <2>2. CASE ApiWorker
    <3>1. CASE Publisher("api")
      BY <2>1, <3>1 DEF Actors
    <3> QED BY <2>2, <3>1, StartJobKeeps, RecordPendingKeeps, LinkFromJiraKeeps, RecordSettledKeeps,
               FailToRecordKeeps, MarkDoneKeeps, MarkFailedKeeps DEF ApiWorker
  <2>3. CASE Publisher("cli") \/ EndCommand
    BY <2>1, <2>3, EndCommandKeeps DEF Actors
  <2>4. ASSUME NEW p \in Plans, PreparePlan(p) \/ HandOff(p) \/ StartCommand(p) PROVE IInv'
    BY <2>4, PreparePlanKeeps, HandOffKeeps, StartCommandKeeps
  <2>5. ASSUME NEW c \in Clients, NEW p \in Plans, CheckRequest(c, p) PROVE IInv'
    BY <2>5, CheckRequestKeeps
  <2>6. ASSUME NEW c \in Clients, AcceptRequest(c) \/ RefuseRequest(c) PROVE IInv'
    BY <2>6, AcceptRequestKeeps, RefuseRequestKeeps
  <2>7. CASE MoveBase \/ ClearRuns \/ Restart
    BY <2>7, MoveBaseKeeps, ClearRunsKeeps, RestartKeeps
  <2> QED BY <1>2, <2>2, <2>3, <2>4, <2>5, <2>6, <2>7 DEF Next
<1> QED BY <1>1, <1>2

THEOREM Invariance == Spec => []IInv
BY InvInit, InvNext, PTL DEF Spec

(* Every reachable state is well typed, and the executor's queue holds each
   queued job once. *)
THEOREM TypeCorrect == Spec => []TypeOK
BY Invariance, InvTypes, PTL

(* A plan with a publication record is never published again by the API
   (api.py, publish_jobs.py). *)
THEOREM RecordedPlansStay == Spec => []NeverRepublished
BY Invariance, InvProperties, PTL

(* An opened pull request shows the plan it was opened for, on the commit
   that plan was validated against (PullRequestPublisher.publish). *)
THEOREM PullsAreValidated == Spec => []PullCarriesValidatedPlan
BY Invariance, InvProperties, PTL

(* A job is shown as done only with everything settled
   (_run_publication_job). *)
THEOREM DoneJobsAreSettled == Spec => []DoneIsSettled
BY Invariance, InvProperties, PTL

-----------------------------------------------------------------------------
(* What is shown of a run. *)

LEMMA RecordsStay ==
  ASSUME IInv, [Next]_vars
  PROVE  prepared \subseteq prepared' /\ \A p \in Plans : record[p] # "none" => record'[p] # "none"
<1>1. CASE UNCHANGED <<prepared, record>>
  BY <1>1
<1>2. ASSUME NEW p \in Plans, PreparePlan(p)
      PROVE  prepared \subseteq prepared' /\ UNCHANGED record
  BY <1>2 DEF PreparePlan
<1>3. CASE RecordPending
  BY <1>3, WriteRecordKeeps DEF RecordPending, WriteRecord, At, StepOf, RecordStatus
<1>4. CASE RecordSettled
  <2>1. publisher["api"].comment \in RecordStatus \ {"none"}
    BY <1>4 DEF RecordSettled, At, IInv, SettledInv, StepOf, RecordStatus
  <2> QED BY <1>4, <2>1, WriteRecordKeeps DEF RecordSettled, WriteRecord, At, StepOf
<1>5. ASSUME NEW a \in Actors, Publisher(a) PROVE UNCHANGED <<prepared, record>>
  BY <1>5 DEF Publisher, CloneAndCommit, Push, SetBranch, OpenPull, FailPublishing, disk
<1>6. CASE StartJob \/ LinkFromJira \/ FailToRecord \/ MarkDone \/ MarkFailed
  BY <1>1, <1>6 DEF StartJob, LinkFromJira, FailToRecord, MarkDone, MarkFailed, Deny, disk
<1>7. CASE ApiWorker
  BY <1>1, <1>3, <1>4, <1>5, <1>6, <1>7 DEF ApiWorker, Actors
<1>8. CASE Publisher("cli") \/ EndCommand
  BY <1>1, <1>5, <1>8 DEF EndCommand, disk, Actors
<1>9. ASSUME NEW p \in Plans, HandOff(p) \/ StartCommand(p) PROVE UNCHANGED <<prepared, record>>
  BY <1>9 DEF HandOff, StartCommand, disk
<1>10. ASSUME NEW c \in Clients, NEW p \in Plans, CheckRequest(c, p) PROVE UNCHANGED <<prepared, record>>
  BY <1>10 DEF CheckRequest, disk
<1>11. ASSUME NEW c \in Clients, AcceptRequest(c) \/ RefuseRequest(c) PROVE UNCHANGED <<prepared, record>>
  BY <1>11 DEF AcceptRequest, RefuseRequest, disk
<1>12. CASE MoveBase \/ ClearRuns \/ Restart
  BY <1>1, <1>12 DEF MoveBase, ClearRuns, Restart, disk
<1>13. CASE UNCHANGED vars
  BY <1>1, <1>13 DEF vars, disk
<1> QED BY <1>1, <1>2, <1>7, <1>8, <1>9, <1>10, <1>11, <1>12, <1>13 DEF Next

(* A run shown with its draft pull request open stays so, unless a further
   plan of the run appears, whatever the order of the identifiers
   (_fix_status_for_run). *)
THEOREM OpenStaysShown == Spec => OpenPullRequestStaysShown
<1> DEFINE Shown == \A p \in prepared : record[p] # "none" =>
                      LET r == RunOf[p]
                      IN \A rank \in Ranks :
                           SpeaksFor(p, r, rank) =>
                             ShownStatus(r, rank)' = "DRAFT_PR_OPEN" \/ PlansOf(r)' # PlansOf(r)
<1>1. IInv /\ [Next]_vars => Shown
  <2> SUFFICES ASSUME IInv, [Next]_vars,
                      NEW p \in prepared, record[p] # "none",
                      NEW rank \in Ranks, SpeaksFor(p, RunOf[p], rank),
                      PlansOf(RunOf[p])' = PlansOf(RunOf[p])
               PROVE  ShownStatus(RunOf[p], rank)' = "DRAFT_PR_OPEN"
    OBVIOUS
  <2>1. p \in Plans /\ p \in prepared' /\ record'[p] # "none"
    BY RecordsStay DEF IInv, DiskInv
  <2>2. SpeaksFor(p, RunOf[p], rank)'
    BY DEF SpeaksFor
  <2> QED BY <2>1, <2>2 DEF ShownStatus
<1> QED BY <1>1, Invariance, PTL DEF Spec, OpenPullRequestStaysShown

-----------------------------------------------------------------------------
(* The refinement. *)

Announced == { p \in Plans : record[p] # "none" } \cup links
Stutters == UNCHANGED <<pulls, Announced>>

LEMMA AnnouncedStays == ASSUME UNCHANGED <<record, pulls, links>> PROVE Stutters
BY DEF Stutters, Announced

LEMMA OpenedArePublished ==
  ASSUME IInv PROVE \A p : p \in Promise!Opened <=> Published(p)
<1>1. DOMAIN pulls = 1..Len(pulls)
  BY DEF IInv, RemoteInv
<1> QED BY <1>1 DEF Promise!Opened, Published

LEMMA RefinesWrite ==
  ASSUME IInv, IInv', NEW p \in Plans, Published(p), UNCHANGED <<pulls, links>>,
         record'[p] # "none", \A q \in Plans : q # p => record'[q] = record[q]
  PROVE  Promise!Next
<1>1. Announced' = Announced \cup {p}
  BY DEF Announced
<1>2. Promise!Announce(p)
  BY <1>1, OpenedArePublished DEF Promise!Announce, Announced
<1> QED BY <1>2 DEF Promise!Next

LEMMA RefinesPublisher == ASSUME IInv, NEW a \in Actors, Publisher(a) PROVE Promise!Next \/ Stutters
<1>1. CASE CloneAndCommit(a) \/ Push(a) \/ FailPublishing(a)
  BY <1>1, AnnouncedStays DEF CloneAndCommit, Push, SetBranch, FailPublishing, disk, remote
<1>2. CASE OpenPull(a)
  <2>1. /\ ~HasPull(BranchOf(a)) /\ pulls' = Append(pulls, PlanOf(a)) /\ UNCHANGED <<disk, links>>
        /\ PlanOf(a) \in Plans
    BY <1>2, PublisherIs DEF OpenPull, At, StepOf
  <2>2. \A q \in Promise!Opened : RunOf[q] # RunOf[PlanOf(a)]
    BY <2>1 DEF Promise!Opened, HasPull, BranchOf
  <2>3. Announced' = Announced
    BY <2>1 DEF disk, Announced
  <2>4. Promise!Open(PlanOf(a))
    BY <2>1, <2>2, <2>3 DEF Promise!Open, Announced
  <2> QED BY <2>1, <2>4 DEF Promise!Next
<1> QED BY <1>1, <1>2 DEF Publisher

LEMMA RefinesNext ==
  IInv /\ IInv' /\ [Next]_vars => [Promise!Next]_<<pulls, Announced>>
<1> SUFFICES ASSUME IInv, IInv', [Next]_vars PROVE Promise!Next \/ Stutters
  BY DEF Stutters
<1>1. CASE UNCHANGED vars
  BY <1>1, AnnouncedStays DEF vars, disk, remote
<1>2. CASE Next
  <2>1. ASSUME NEW a \in Actors, Publisher(a) PROVE Promise!Next \/ Stutters
    BY <2>1, RefinesPublisher
  <2>2. CASE RecordPending
    <3>1. /\ publisher'["api"].step = "link" /\ PlanOf("api") \in Plans /\ record'[PlanOf("api")] = "pending"
          /\ \A p \in Plans : p # PlanOf("api") => record'[p] = record[p]
      BY <2>2, WriteRecordKeeps DEF RecordPending, At, StepOf, RecordStatus
    <3>2. Published(PlanOf("api")) /\ UNCHANGED <<pulls, links>>
      BY <2>2 DEF RecordPending, WriteRecord, At, remote, IInv, AnnounceInv, StepOf, Actors
    <3> QED BY <3>1, <3>2, RefinesWrite
  <2>3. CASE RecordSettled
    <3>1. publisher["api"].comment \in RecordStatus \ {"none"}
      BY <2>3 DEF RecordSettled, At, IInv, SettledInv, StepOf, RecordStatus
    <3>2. /\ PlanOf("api") \in Plans /\ record'[PlanOf("api")] # "none"
          /\ \A p \in Plans : p # PlanOf("api") => record'[p] = record[p]
      BY <2>3, <3>1, WriteRecordKeeps DEF RecordSettled, At, StepOf
    <3>3. Published(PlanOf("api")) /\ UNCHANGED <<pulls, links>>
      BY <2>3 DEF RecordSettled, WriteRecord, At, remote, IInv, AnnounceInv, StepOf, Actors
    <3> QED BY <3>2, <3>3, RefinesWrite
  <2>4. CASE LinkFromJira
    <3>1. /\ UNCHANGED <<disk, pulls>> /\ PlanOf("api") \in Plans /\ Published(PlanOf("api"))
          /\ links' = links \/ links' = links \cup {PlanOf("api")}
      BY <2>4, PublisherIs DEF LinkFromJira, At, IInv, AnnounceInv, StepOf, Actors
    <3>2. CASE links' = links
      BY <3>1, <3>2, AnnouncedStays DEF disk
    <3>3. CASE links' = links \cup {PlanOf("api")}
      <4>1. Announced' = Announced \cup {PlanOf("api")}
        BY <3>1, <3>3 DEF disk, Announced
      <4>2. PICK p \in Plans : p = PlanOf("api")
        BY <3>1
      <4>3. Promise!Announce(p)
        BY <3>1, <4>1, <4>2, OpenedArePublished DEF Promise!Announce, Announced
      <4> QED BY <4>3 DEF Promise!Next
    <3> QED BY <3>1, <3>2, <3>3
  <2>5. CASE StartJob \/ FailToRecord \/ MarkDone \/ MarkFailed
    BY <2>5, AnnouncedStays DEF StartJob, FailToRecord, MarkDone, MarkFailed, Deny, disk, remote
  <2>6. CASE ApiWorker
    BY <2>1, <2>2, <2>3, <2>4, <2>5, <2>6 DEF ApiWorker, Actors
  <2>7. CASE Publisher("cli") \/ EndCommand
    BY <2>1, <2>7, AnnouncedStays DEF EndCommand, disk, remote, Actors
  <2>8. ASSUME NEW p \in Plans, PreparePlan(p) \/ HandOff(p) \/ StartCommand(p) PROVE Stutters
    BY <2>8, AnnouncedStays DEF PreparePlan, HandOff, StartCommand, disk, remote
  <2>9. ASSUME NEW c \in Clients, NEW p \in Plans, CheckRequest(c, p) PROVE Stutters
    BY <2>9, AnnouncedStays DEF CheckRequest, disk, remote
  <2>10. ASSUME NEW c \in Clients, AcceptRequest(c) \/ RefuseRequest(c) PROVE Stutters
    BY <2>10, AnnouncedStays DEF AcceptRequest, RefuseRequest, disk, remote
  <2>11. CASE MoveBase \/ ClearRuns \/ Restart
    BY <2>11, AnnouncedStays DEF MoveBase, ClearRuns, Restart, disk, remote
  <2> QED BY <1>2, <2>6, <2>7, <2>8, <2>9, <2>10, <2>11 DEF Next
<1> QED BY <1>1, <1>2

(* At most one pull request is opened per run, and nothing is announced that
   is not open, through every race, retry and restart. *)
THEOREM Refinement == Spec => ImplementsPublishOnce
<1>1. Init => Promise!Init
  BY DEF Init, Promise!Init
<1>2. IInv /\ IInv' /\ [Next]_vars => [Promise!Next]_<<pulls, Announced>>
  BY RefinesNext
<1>3. Spec => []IInv
  BY Invariance
<1> QED BY <1>1, <1>2, <1>3, PTL DEF Spec, ImplementsPublishOnce, Promise!Spec, Announced
=============================================================================

----------------------------- MODULE JobStream -----------------------------
(***************************************************************************)
(* The retained progress stream of an investigation job: JobRegistry       *)
(* (bugagent/api_jobs.py) and the Server-Sent Event generator that reads   *)
(* it (_sse_events in bugagent/api.py).  One worker thread writes job      *)
(* after job; each open stream is a thread of its own.  They share one     *)
(* condition variable, and every action below is one critical section of   *)
(* it (or a step that needs no lock).  mark_running, mark_done and         *)
(* mark_failed replace the snapshot and append the event in two sections.  *)
(*                                                                         *)
(* A reader is a browser's EventSource: it remembers the last event it     *)
(* received and reconnects from there when a stream ends or breaks.        *)
(***************************************************************************)
EXTENDS Integers, Sequences, FiniteSets

CONSTANTS
  Jobs,        \* job identifiers
  Readers,     \* event-stream clients
  Follows,     \* the job each client is interested in
  After,       \* the "after" cursor of each client's first request
  MaxStages,   \* bound: progress events a worker emits within one job
  MaxDrops     \* bound: streams a client loses to its network

ASSUME JobStreamAssumption ==
  /\ Follows \in [Readers -> Jobs]
  /\ After \in [Readers -> Nat]
  /\ MaxStages \in Nat /\ MaxDrops \in Nat

VARIABLES
  status,    \* status of each job's snapshot
  log,       \* retained events of each job; the index is the sequence number
  worker,    \* where the worker is in each job
  reader,    \* where each stream is
  cursor,    \* local cursor of each stream
  batch,     \* [over, upto] of the last wait_for_events: terminal? how far?
  lastId,    \* last event id each client received, After[r] before any
  received,  \* history: sequence numbers each client received
  drops      \* history: streams lost by each client

vars == <<status, log, worker, reader, cursor, batch, lastId, received, drops>>

Terminal == {"done", "failed"}
EventKind == {"queued", "running", "stage", "completed", "failed"}
NoBatch == [over |-> FALSE, upto |-> 0]

Init ==
  /\ status = [j \in Jobs |-> "absent"]
  /\ log = [j \in Jobs |-> <<>>]
  /\ worker = [j \in Jobs |-> "idle"]
  /\ reader = [r \in Readers |-> "disconnected"]
  /\ cursor = After
  /\ batch = [r \in Readers |-> NoBatch]
  /\ lastId = After
  /\ received = [r \in Readers |-> <<>>]
  /\ drops = [r \in Readers |-> 0]

-----------------------------------------------------------------------------
(* Mutation: notify instead of notify_all. *)
NotifyAll_One ==
  reader' = IF \E r \in Readers : reader[r] = "waiting"
              THEN [reader EXCEPT ![CHOOSE r \in Readers : reader[r] = "waiting"] = "woken"]
              ELSE reader

(* The writers.  notify_all wakes every waiting stream, whatever its job. *)
NotifyAll ==
  reader' = [r \in Readers |-> IF reader[r] = "waiting" THEN "woken" ELSE reader[r]]

ReaderLocals == <<cursor, batch, lastId, received, drops>>

EmitLocked(j, kind) == log' = [log EXCEPT ![j] = Append(@, kind)] /\ NotifyAll

(* _replace: a new snapshot, in a critical section of its own. *)
Replace(j, s) == status' = [status EXCEPT ![j] = s] /\ NotifyAll

GoTo(j, from, to) == worker[j] = from /\ worker' = [worker EXCEPT ![j] = to]

(* create: the snapshot and its first event in one critical section. *)
Create(j) ==
  /\ GoTo(j, "idle", "queued")
  /\ status' = [status EXCEPT ![j] = "queued"]
  /\ EmitLocked(j, "queued")
  /\ UNCHANGED ReaderLocals

(* mark_running, the first of two sections; one worker, so one job at once. *)
ReplaceRunning(j) ==
  /\ \A k \in Jobs : worker[k] \in {"idle", "queued", "finished"}
  /\ GoTo(j, "queued", "replaced_running")
  /\ Replace(j, "running")
  /\ UNCHANGED <<log, ReaderLocals>>

EmitRunning(j) ==
  /\ GoTo(j, "replaced_running", "working")
  /\ EmitLocked(j, "running")
  /\ UNCHANGED <<status, ReaderLocals>>

(* A stage boundary from the checkout, the reporter or an automation. *)
EmitStage(j) ==
  /\ worker[j] = "working"
  /\ Cardinality({ i \in DOMAIN log[j] : log[j][i] = "stage" }) < MaxStages
  /\ EmitLocked(j, "stage")
  /\ UNCHANGED <<status, worker, ReaderLocals>>

(* mark_done and mark_failed, again in two sections. *)
ReplaceDone(j) ==
  /\ GoTo(j, "working", "replaced_done")
  /\ Replace(j, "done")
  /\ UNCHANGED <<log, ReaderLocals>>

ReplaceFailed(j) ==
  /\ GoTo(j, "working", "replaced_failed")
  /\ Replace(j, "failed")
  /\ UNCHANGED <<log, ReaderLocals>>

EmitVerdict(j) ==
  /\ \/ GoTo(j, "replaced_done", "finished") /\ EmitLocked(j, "completed")
     \/ GoTo(j, "replaced_failed", "finished") /\ EmitLocked(j, "failed")
  /\ UNCHANGED <<status, ReaderLocals>>

Worker(j) == \/ ReplaceRunning(j) \/ EmitRunning(j) \/ EmitStage(j)
             \/ ReplaceDone(j) \/ ReplaceFailed(j) \/ EmitVerdict(j)

-----------------------------------------------------------------------------
(* The streams. *)

WriterState == <<status, log, worker>>

Unread(r) == Len(log[Follows[r]]) > cursor[r]
Over(r)   == status[Follows[r]] \in Terminal

Open(r, from) ==
  /\ status[Follows[r]] # "absent"
  /\ reader' = [reader EXCEPT ![r] = "calling"]
  /\ cursor' = [cursor EXCEPT ![r] = from]
  /\ UNCHANGED <<WriterState, batch, lastId, received, drops>>

Closed(r) == reader[r] \in {"disconnected", "closed"}

(* Mutation: a client does not come back to an ended stream. *)
Connect_NotAfterEnd(r) == reader[r] = "disconnected" /\ Open(r, lastId[r])

(* GET .../events: the job must exist; the cursor is the larger of
   Last-Event-ID and the "after" parameter. *)
Connect(r) == Closed(r) /\ Open(r, lastId[r])

(* wait_for_events returns the snapshot's status and the unread events. *)
TakeBatch(r) ==
  /\ reader' = [reader EXCEPT ![r] = "yielding"]
  /\ batch' = [batch EXCEPT ![r] =
       [over |-> Over(r),
        upto |-> IF Unread(r) THEN Len(log[Follows[r]]) ELSE cursor[r]]]
  /\ UNCHANGED <<WriterState, cursor, lastId, received, drops>>

ReturnAtOnce(r) ==
  /\ reader[r] = "calling"
  /\ Unread(r) \/ Over(r)
  /\ TakeBatch(r)

(* Nothing to report: wait on the condition, releasing the lock. *)
Wait(r) ==
  /\ reader[r] = "calling"
  /\ ~Unread(r) /\ ~Over(r)
  /\ reader' = [reader EXCEPT ![r] = "waiting"]
  /\ UNCHANGED <<WriterState, ReaderLocals>>

Timeout(r) ==
  /\ reader[r] = "waiting"
  /\ reader' = [reader EXCEPT ![r] = "woken"]
  /\ UNCHANGED <<WriterState, ReaderLocals>>

(* A woken reader re-acquires the lock and returns what it finds. *)
ReturnWoken(r) == reader[r] = "woken" /\ TakeBatch(r)

(* The generator yields the batch one event at a time ... *)
Yield(r) ==
  /\ reader[r] = "yielding"
  /\ cursor[r] < batch[r].upto
  /\ cursor' = [cursor EXCEPT ![r] = @ + 1]
  /\ lastId' = [lastId EXCEPT ![r] = cursor[r] + 1]
  /\ received' = [received EXCEPT ![r] = Append(@, cursor[r] + 1)]
  /\ UNCHANGED <<WriterState, reader, batch, drops>>

AfterBatch(r, over) ==
  /\ reader[r] = "yielding"
  /\ cursor[r] >= batch[r].upto
  /\ reader' = [reader EXCEPT ![r] = IF over THEN "closed" ELSE "calling"]
  /\ UNCHANGED <<WriterState, ReaderLocals>>

(* Mutations: the end is decided by the job's current status; never. *)
EndBatch_LiveStatus(r) == AfterBatch(r, Over(r))
EndBatch_Never(r)      == AfterBatch(r, FALSE)

(* ... then ends the stream if the snapshot it took was terminal, or waits
   again (with a keepalive comment if the batch was empty). *)
EndBatch(r) == AfterBatch(r, batch[r].over)

(* The connection breaks; what the client already has is kept. *)
Drop(r) ==
  /\ reader[r] \in {"calling", "waiting", "woken", "yielding"}
  /\ drops[r] < MaxDrops
  /\ drops' = [drops EXCEPT ![r] = @ + 1]
  /\ reader' = [reader EXCEPT ![r] = "disconnected"]
  /\ UNCHANGED <<WriterState, cursor, batch, lastId, received>>

Stream(r) == ReturnAtOnce(r) \/ Wait(r) \/ ReturnWoken(r) \/ Yield(r) \/ EndBatch(r)

Next ==
  \/ \E j \in Jobs : Create(j) \/ Worker(j)
  \/ \E r \in Readers : Connect(r) \/ Stream(r) \/ Timeout(r) \/ Drop(r)

(* The worker and the stream threads are scheduled; investigations end; a
   client's EventSource reconnects.  No fairness of the wait's timeout is
   assumed: streams must make progress by notification alone. *)
Fairness ==
  /\ \A j \in Jobs : WF_vars(Worker(j))
  /\ \A r \in Readers : WF_vars(Stream(r)) /\ WF_vars(Connect(r))

Spec == Init /\ [][Next]_vars /\ Fairness

-----------------------------------------------------------------------------
(* Every variable has its type. *)
TypeOK ==
  /\ status \in [Jobs -> {"absent", "queued", "running"} \cup Terminal]
  /\ log \in [Jobs -> Seq(EventKind)]
  /\ worker \in [Jobs -> {"idle", "queued", "replaced_running", "working",
                          "replaced_done", "replaced_failed", "finished"}]
  /\ reader \in [Readers -> {"disconnected", "calling", "waiting", "woken", "yielding", "closed"}]
  /\ cursor \in [Readers -> Nat]
  /\ batch \in [Readers -> [over : BOOLEAN, upto : Nat]]
  /\ lastId \in [Readers -> Nat]
  /\ received \in [Readers -> Seq(Nat)]
  /\ drops \in [Readers -> 0..MaxDrops]

(* No lost wakeup: a stream never sleeps on the condition while there is an
   event it has not sent or its job is over.  Only the 15-second timeout
   would end such a sleep, so a test would see a slow stream at most. *)
NoLostWakeup == \A r \in Readers : reader[r] = "waiting" => ~Unread(r) /\ ~Over(r)

(* Across all its connections a client receives the retained events from its
   starting point on in order, each exactly once, and none that is not in
   the log; and when the server ends its stream it lacks nothing but, at
   most, the one event that reports the verdict. *)
DeliveryIsExact ==
  \A r \in Readers :
    LET events == log[Follows[r]]
    IN /\ received[r] = [i \in 1..Len(received[r]) |-> After[r] + i]
       /\ received[r] # <<>> => lastId[r] <= Len(events)
       /\ lastId[r] = After[r] + Len(received[r])
       /\ reader[r] = "closed" /\ lastId[r] < Len(events) =>
            lastId[r] + 1 = Len(events) /\ events[Len(events)] \in {"completed", "failed"}

(* Every stream ends: notifications alone, without the wait's timeout, lead
   a stream to the end of its job, or the client's network ends it. *)
StreamEnds ==
  \A r \in Readers : reader[r] = "calling" ~> reader[r] \in {"closed", "disconnected"}

(* A client that reconnects with its last event id ends up with every
   retained event of a finished job, the verdict included. *)
ReconnectCompletes ==
  \A r \in Readers :
    worker[Follows[r]] = "finished" ~> lastId[r] >= Len(log[Follows[r]])
=============================================================================

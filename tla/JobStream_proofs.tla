-------------------------- MODULE JobStream_proofs --------------------------
(***************************************************************************)
(* Proofs about JobStream, for every set of jobs and clients, every        *)
(* starting cursor and every bound: types, no lost wakeup, and exact       *)
(* delivery across reconnections.                                          *)
(***************************************************************************)
EXTENDS JobStream, TLAPS

-----------------------------------------------------------------------------
(* The inductive invariant. *)

Writing == {"replaced_done", "replaced_failed"}
Connected(r) == reader[r] \in {"calling", "waiting", "woken", "yielding"}
Verdicts == {"completed", "failed"}

(* The snapshot of a job is terminal when its verdict is all that is missing
   from the log, or when nothing is. *)
WriterInv ==
  \A j \in Jobs :
    /\ status[j] \in Terminal <=> worker[j] \in Writing \cup {"finished"}
    /\ worker[j] = "finished" => Len(log[j]) > 0 /\ log[j][Len(log[j])] \in Verdicts

(* What the client has is what its connection has sent. *)
CursorInv ==
  \A r \in Readers :
    /\ lastId[r] = After[r] + Len(received[r])
    /\ \A i \in 1..Len(received[r]) : received[r][i] = After[r] + i
    /\ received[r] # <<>> => lastId[r] <= Len(log[Follows[r]])
    /\ Connected(r) => cursor[r] = lastId[r]
    /\ reader[r] = "yielding" /\ cursor[r] < batch[r].upto => batch[r].upto <= Len(log[Follows[r]])

(* n events are all a stream may send before it ends. *)
Enough(j, n) ==
  /\ worker[j] \in Writing \cup {"finished"}
  /\ worker[j] \in Writing => n >= Len(log[j])
  /\ worker[j] = "finished" => n + 1 >= Len(log[j])

EndInv ==
  \A r \in Readers :
    /\ reader[r] = "yielding" /\ batch[r].over => Enough(Follows[r], batch[r].upto)
    /\ reader[r] = "closed" => Enough(Follows[r], lastId[r])

IInv == TypeOK /\ WriterInv /\ CursorInv /\ EndInv /\ NoLostWakeup

LEMMA InvDelivery == IInv => DeliveryIsExact
<1> SUFFICES ASSUME IInv, NEW r \in Readers
             PROVE  LET events == log[Follows[r]]
                    IN /\ received[r] = [i \in 1..Len(received[r]) |-> After[r] + i]
                       /\ received[r] # <<>> => lastId[r] <= Len(events)
                       /\ lastId[r] = After[r] + Len(received[r])
                       /\ reader[r] = "closed" /\ lastId[r] < Len(events) =>
                            lastId[r] + 1 = Len(events) /\ events[Len(events)] \in {"completed", "failed"}
  BY DEF DeliveryIsExact
<1>1. /\ Follows[r] \in Jobs /\ received[r] \in Seq(Nat) /\ lastId[r] \in Nat
      /\ log[Follows[r]] \in Seq(EventKind) /\ Len(log[Follows[r]]) \in Nat
  BY JobStreamAssumption DEF IInv, TypeOK
<1>2. received[r] = [i \in 1..Len(received[r]) |-> After[r] + i]
  <2>1. PICK s \in Seq(Nat) : s = received[r]
    BY <1>1
  <2>2. \A i \in 1..Len(s) : s[i] = After[r] + i
    BY <2>1 DEF IInv, CursorInv
  <2>3. s = [i \in 1..Len(s) |-> s[i]]
    OBVIOUS
  <2> QED BY <2>1, <2>2, <2>3
<1>3. ASSUME reader[r] = "closed", lastId[r] < Len(log[Follows[r]])
      PROVE  lastId[r] + 1 = Len(log[Follows[r]]) /\ log[Follows[r]][Len(log[Follows[r]])] \in Verdicts
  <2>1. Enough(Follows[r], lastId[r])
    BY <1>3 DEF IInv, EndInv
  <2>2. worker[Follows[r]] = "finished" /\ lastId[r] + 1 >= Len(log[Follows[r]])
    BY <1>1, <1>3, <2>1 DEF Enough
  <2>3. log[Follows[r]][Len(log[Follows[r]])] \in Verdicts
    BY <1>1, <2>2 DEF IInv, WriterInv
  <2> QED BY <1>1, <1>3, <2>2, <2>3
<1> QED BY <1>1, <1>2, <1>3 DEF IInv, CursorInv, Verdicts

LEMMA InvInit == Init => IInv
<1> SUFFICES ASSUME Init PROVE IInv
  OBVIOUS
<1> USE JobStreamAssumption DEF Init
<1>1. TypeOK
  <2>1. log \in [Jobs -> Seq(EventKind)] /\ received \in [Readers -> Seq(Nat)]
    OBVIOUS
  <2>2. batch \in [Readers -> [over : BOOLEAN, upto : Nat]]
    BY DEF NoBatch
  <2> QED BY <2>1, <2>2 DEF TypeOK
<1>2. WriterInv
  BY DEF WriterInv, Writing, Terminal
<1>3. CursorInv
  BY DEF CursorInv, Connected
<1>4. EndInv
  BY DEF EndInv
<1>5. NoLostWakeup
  BY DEF NoLostWakeup
<1> QED BY <1>1, <1>2, <1>3, <1>4, <1>5 DEF IInv

-----------------------------------------------------------------------------
(* The writers.  What they change of a job that streams read is the length
   of its log, and everybody who waits is woken. *)

LEMMA NotifyIs ==
  ASSUME IInv, NotifyAll
  PROVE  /\ reader' \in [Readers -> {"disconnected", "calling", "waiting", "woken", "yielding", "closed"}]
         /\ \A r \in Readers : /\ reader'[r] # "waiting"
                               /\ reader'[r] \in {"yielding", "closed", "disconnected", "calling"} => reader[r] = reader'[r]
                               /\ reader'[r] = "woken" => reader[r] \in {"waiting", "woken"}
BY DEF NotifyAll, IInv, TypeOK

LEMMA WriterKeeps ==
  ASSUME IInv, NEW j \in Jobs, NotifyAll, UNCHANGED ReaderLocals,
         status' \in [Jobs -> {"absent", "queued", "running"} \cup Terminal],
         worker' \in [Jobs -> {"idle", "queued", "replaced_running", "working",
                               "replaced_done", "replaced_failed", "finished"}],
         log' \in [Jobs -> Seq(EventKind)],
         \A k \in Jobs : k # j => status'[k] = status[k] /\ worker'[k] = worker[k] /\ log'[k] = log[k],
         Len(log'[j]) \in {Len(log[j]), Len(log[j]) + 1},
         status'[j] \in Terminal <=> worker'[j] \in Writing \cup {"finished"},
         worker[j] # "finished",
         worker[j] \in Writing => worker'[j] = "finished",
         worker'[j] = "finished" => Len(log'[j]) > 0 /\ log'[j][Len(log'[j])] \in Verdicts
  PROVE  IInv'
<1>1. TypeOK'
  BY NotifyIs DEF IInv, TypeOK, ReaderLocals
<1>2. WriterInv'
  BY DEF IInv, WriterInv
<1>3. \A k \in Jobs : Len(log[k]) \in Nat /\ Len(log'[k]) \in Nat /\ Len(log[k]) <= Len(log'[k])
  <2> SUFFICES ASSUME NEW k \in Jobs PROVE Len(log[k]) \in Nat /\ Len(log'[k]) \in Nat /\ Len(log[k]) <= Len(log'[k])
    OBVIOUS
  <2>1. Len(log[k]) \in Nat /\ Len(log'[k]) \in Nat
    BY DEF IInv, TypeOK
  <2> QED BY <2>1
<1>4. CursorInv'
  <2> SUFFICES ASSUME NEW r \in Readers
               PROVE  /\ lastId[r] = After[r] + Len(received[r])
                      /\ \A i \in 1..Len(received[r]) : received[r][i] = After[r] + i
                      /\ received[r] # <<>> => lastId[r] <= Len(log'[Follows[r]])
                      /\ reader'[r] \in {"calling", "waiting", "woken", "yielding"} => cursor[r] = lastId[r]
                      /\ reader'[r] = "yielding" /\ cursor[r] < batch[r].upto => batch[r].upto <= Len(log'[Follows[r]])
    BY DEF CursorInv, Connected, ReaderLocals
  <2>1. /\ lastId[r] \in Nat /\ batch[r].upto \in Nat /\ Follows[r] \in Jobs
        /\ Len(log[Follows[r]]) \in Nat /\ Len(log'[Follows[r]]) \in Nat
        /\ Len(log[Follows[r]]) <= Len(log'[Follows[r]])
    BY <1>3, JobStreamAssumption DEF IInv, TypeOK
  <2>2. reader'[r] \in {"calling", "waiting", "woken", "yielding"} => Connected(r)
    BY NotifyIs DEF Connected
  <2>3. reader'[r] = "yielding" => reader[r] = "yielding"
    BY NotifyIs
  <2> QED BY <2>1, <2>2, <2>3 DEF IInv, CursorInv
<1>5. ASSUME NEW k \in Jobs, NEW n \in Nat, Enough(k, n) PROVE Enough(k, n)'
  <2>1. CASE k # j
    BY <1>5, <2>1 DEF Enough
  <2>2. CASE k = j
    <3>1. worker[j] \in Writing /\ n >= Len(log[j]) /\ worker'[j] = "finished"
      BY <1>5, <2>2 DEF Enough
    <3>2. n + 1 >= Len(log'[j])
      BY <1>3, <3>1
    <3> QED BY <2>2, <3>1, <3>2 DEF Enough, Writing
  <2> QED BY <2>1, <2>2
<1>6. EndInv'
  <2> SUFFICES ASSUME NEW r \in Readers
               PROVE  /\ reader'[r] = "yielding" /\ batch[r].over => Enough(Follows[r], batch[r].upto)'
                      /\ reader'[r] = "closed" => Enough(Follows[r], lastId[r])'
    BY DEF EndInv, ReaderLocals
  <2>1. lastId[r] \in Nat /\ batch[r].upto \in Nat /\ Follows[r] \in Jobs
    BY JobStreamAssumption DEF IInv, TypeOK
  <2>2. ASSUME reader'[r] = "yielding", batch[r].over PROVE Enough(Follows[r], batch[r].upto)'
    <3>1. PICK n \in Nat : n = batch[r].upto
      BY <2>1
    <3>2. Enough(Follows[r], n)
      BY <2>2, <3>1, NotifyIs DEF IInv, EndInv
    <3>3. Enough(Follows[r], n)'
      BY <1>5, <2>1, <3>2
    <3> QED BY <3>1, <3>3 DEF ReaderLocals, Enough
  <2>3. ASSUME reader'[r] = "closed" PROVE Enough(Follows[r], lastId[r])'
    <3>1. PICK n \in Nat : n = lastId[r]
      BY <2>1
    <3>2. Enough(Follows[r], n)
      BY <2>3, <3>1, NotifyIs DEF IInv, EndInv
    <3>3. Enough(Follows[r], n)'
      BY <1>5, <2>1, <3>2
    <3> QED BY <3>1, <3>3 DEF ReaderLocals, Enough
  <2> QED BY <2>2, <2>3
<1>7. NoLostWakeup'
  BY NotifyIs DEF NoLostWakeup
<1> QED BY <1>1, <1>2, <1>4, <1>6, <1>7 DEF IInv

LEMMA EmitIs ==
  ASSUME IInv, NEW j \in Jobs, NEW kind \in EventKind, EmitLocked(j, kind)
  PROVE  /\ NotifyAll /\ log' \in [Jobs -> Seq(EventKind)]
         /\ Len(log'[j]) = Len(log[j]) + 1 /\ Len(log'[j]) > 0 /\ log'[j][Len(log'[j])] = kind
         /\ \A k \in Jobs : k # j => log'[k] = log[k]
<1>1. log \in [Jobs -> Seq(EventKind)] /\ log' = [log EXCEPT ![j] = Append(@, kind)] /\ NotifyAll
  BY DEF EmitLocked, IInv, TypeOK
<1>2. log'[j] = Append(log[j], kind) /\ log[j] \in Seq(EventKind) /\ \A k \in Jobs : k # j => log'[k] = log[k]
  BY <1>1
<1>3. Append(log[j], kind) \in Seq(EventKind)
  BY <1>2
<1> QED BY <1>1, <1>2, <1>3

LEMMA GoIs ==
  ASSUME IInv, NEW j \in Jobs, NEW from, NEW to, GoTo(j, from, to),
         to \in {"idle", "queued", "replaced_running", "working", "replaced_done", "replaced_failed", "finished"}
  PROVE  /\ worker[j] = from /\ worker'[j] = to
         /\ worker' \in [Jobs -> {"idle", "queued", "replaced_running", "working",
                                  "replaced_done", "replaced_failed", "finished"}]
         /\ \A k \in Jobs : k # j => worker'[k] = worker[k]
BY DEF GoTo, IInv, TypeOK

LEMMA ReplaceIs ==
  ASSUME IInv, NEW j \in Jobs, NEW s \in {"queued", "running"} \cup Terminal, status' = [status EXCEPT ![j] = s]
  PROVE  /\ status' \in [Jobs -> {"absent", "queued", "running"} \cup Terminal] /\ status'[j] = s
         /\ \A k \in Jobs : k # j => status'[k] = status[k]
BY DEF IInv, TypeOK

LEMMA SameLog == ASSUME IInv, UNCHANGED log, NEW j \in Jobs
                 PROVE  log' \in [Jobs -> Seq(EventKind)] /\ Len(log'[j]) = Len(log[j])
BY DEF IInv, TypeOK

LEMMA CreateKeeps == ASSUME IInv, NEW j \in Jobs, Create(j) PROVE IInv'
<1>1. /\ GoTo(j, "idle", "queued") /\ status' = [status EXCEPT ![j] = "queued"]
      /\ EmitLocked(j, "queued") /\ UNCHANGED ReaderLocals
  BY DEF Create
<1>2. /\ worker[j] = "idle" /\ worker'[j] = "queued"
      /\ worker' \in [Jobs -> {"idle", "queued", "replaced_running", "working",
                               "replaced_done", "replaced_failed", "finished"}]
      /\ \A k \in Jobs : k # j => worker'[k] = worker[k]
  BY <1>1, GoIs
<1>3. /\ status' \in [Jobs -> {"absent", "queued", "running"} \cup Terminal] /\ status'[j] = "queued"
      /\ \A k \in Jobs : k # j => status'[k] = status[k]
  BY <1>1, ReplaceIs
<1>4. /\ NotifyAll /\ log' \in [Jobs -> Seq(EventKind)] /\ Len(log'[j]) = Len(log[j]) + 1
      /\ \A k \in Jobs : k # j => log'[k] = log[k]
  BY <1>1, EmitIs DEF EventKind
<1> QED BY <1>1, <1>2, <1>3, <1>4, WriterKeeps DEF Writing, Terminal

LEMMA ReplaceKeeps ==
  ASSUME IInv, NEW j \in Jobs, NEW from \in {"queued", "working"}, NEW to, NEW s,
         <<to, s>> \in {<<"replaced_running", "running">>, <<"replaced_done", "done">>, <<"replaced_failed", "failed">>},
         GoTo(j, from, to), Replace(j, s), UNCHANGED <<log, ReaderLocals>>
  PROVE  IInv'
<1>0. /\ to \in {"replaced_running", "replaced_done", "replaced_failed"} /\ s \in {"running", "done", "failed"}
      /\ to \in Writing <=> s \in Terminal
  BY DEF Writing, Terminal
<1>1. /\ worker[j] = from /\ worker'[j] = to
      /\ worker' \in [Jobs -> {"idle", "queued", "replaced_running", "working",
                               "replaced_done", "replaced_failed", "finished"}]
      /\ \A k \in Jobs : k # j => worker'[k] = worker[k]
  BY <1>0, GoIs
<1>2. /\ NotifyAll /\ status' \in [Jobs -> {"absent", "queued", "running"} \cup Terminal] /\ status'[j] = s
      /\ \A k \in Jobs : k # j => status'[k] = status[k]
  BY <1>0, ReplaceIs DEF Replace, Terminal
<1>3. /\ log' \in [Jobs -> Seq(EventKind)] /\ Len(log'[j]) = Len(log[j]) /\ UNCHANGED ReaderLocals
      /\ \A k \in Jobs : k # j => log'[k] = log[k]
  BY SameLog
<1>4. worker[j] \notin Writing /\ worker[j] # "finished" /\ worker'[j] # "finished"
  BY <1>0, <1>1 DEF Writing
<1>5. status'[j] \in Terminal <=> worker'[j] \in Writing \cup {"finished"}
  BY <1>0, <1>1, <1>2, <1>4
<1> QED BY <1>1, <1>2, <1>3, <1>4, <1>5, WriterKeeps

LEMMA EmitKeeps ==
  ASSUME IInv, NEW j \in Jobs, NEW kind \in EventKind, EmitLocked(j, kind), UNCHANGED <<status, ReaderLocals>>,
         \/ GoTo(j, "replaced_running", "working")
         \/ worker[j] = "working" /\ UNCHANGED worker
         \/ worker[j] \in Writing /\ GoTo(j, worker[j], "finished") /\ kind \in Verdicts
  PROVE  IInv'
<1>1. /\ NotifyAll /\ log' \in [Jobs -> Seq(EventKind)] /\ Len(log'[j]) = Len(log[j]) + 1
      /\ Len(log'[j]) > 0 /\ log'[j][Len(log'[j])] = kind
      /\ \A k \in Jobs : k # j => log'[k] = log[k]
  BY EmitIs
<1>2. /\ status' \in [Jobs -> {"absent", "queued", "running"} \cup Terminal]
      /\ \A k \in Jobs : status'[k] = status[k]
      /\ status[j] \in Terminal <=> worker[j] \in Writing \cup {"finished"}
      /\ worker \in [Jobs -> {"idle", "queued", "replaced_running", "working",
                              "replaced_done", "replaced_failed", "finished"}]
  BY DEF IInv, TypeOK, WriterInv
<1>3. /\ worker' \in [Jobs -> {"idle", "queued", "replaced_running", "working",
                               "replaced_done", "replaced_failed", "finished"}]
      /\ \A k \in Jobs : k # j => worker'[k] = worker[k]
      /\ \/ worker[j] \in {"replaced_running", "working"} /\ worker'[j] = "working"
         \/ worker[j] \in Writing /\ worker'[j] = "finished" /\ kind \in Verdicts
  BY <1>2, GoIs
<1>4. /\ status'[j] \in Terminal <=> worker'[j] \in Writing \cup {"finished"}
      /\ worker[j] # "finished" /\ (worker[j] \in Writing => worker'[j] = "finished")
      /\ worker'[j] = "finished" => kind \in Verdicts
  BY <1>2, <1>3 DEF Writing
<1> QED BY <1>1, <1>2, <1>3, <1>4, WriterKeeps

LEMMA WorkerKeeps == ASSUME IInv, NEW j \in Jobs, Worker(j) PROVE IInv'
<1>1. CASE ReplaceRunning(j)
  BY <1>1, ReplaceKeeps DEF ReplaceRunning
<1>2. CASE EmitRunning(j)
  BY <1>2, EmitKeeps DEF EmitRunning, EventKind
<1>3. CASE EmitStage(j)
  BY <1>3, EmitKeeps DEF EmitStage, EventKind
<1>4. CASE ReplaceDone(j)
  BY <1>4, ReplaceKeeps DEF ReplaceDone
<1>5. CASE ReplaceFailed(j)
  BY <1>5, ReplaceKeeps DEF ReplaceFailed
<1>6. CASE EmitVerdict(j)
  <2>1. CASE GoTo(j, "replaced_done", "finished") /\ EmitLocked(j, "completed")
    BY <1>6, <2>1, EmitKeeps DEF EmitVerdict, Writing, Verdicts, EventKind, GoTo
  <2>2. CASE GoTo(j, "replaced_failed", "finished") /\ EmitLocked(j, "failed")
    BY <1>6, <2>2, EmitKeeps DEF EmitVerdict, Writing, Verdicts, EventKind, GoTo
  <2> QED BY <1>6, <2>1, <2>2 DEF EmitVerdict
<1> QED BY <1>1, <1>2, <1>3, <1>4, <1>5, <1>6 DEF Worker

-----------------------------------------------------------------------------
(* The streams.  A step of one changes what belongs to it. *)

StreamStates == {"disconnected", "calling", "waiting", "woken", "yielding", "closed"}

Mine(r, next) ==
  /\ reader' = [reader EXCEPT ![r] = next]
  /\ UNCHANGED WriterState

LEMMA WritersStay == ASSUME IInv, UNCHANGED WriterState PROVE WriterInv'
BY DEF WriterState, IInv, WriterInv

LEMMA StreamKeeps ==
  ASSUME IInv, NEW r \in Readers, NEW next \in StreamStates, Mine(r, next),
         cursor' \in [Readers -> Nat], batch' \in [Readers -> [over : BOOLEAN, upto : Nat]],
         lastId' \in [Readers -> Nat], received' \in [Readers -> Seq(Nat)], drops' \in [Readers -> 0..MaxDrops],
         \A q \in Readers : q # r =>
           cursor'[q] = cursor[q] /\ batch'[q] = batch[q] /\ lastId'[q] = lastId[q] /\ received'[q] = received[q],
         lastId'[r] = After[r] + Len(received'[r]),
         \A i \in 1..Len(received'[r]) : received'[r][i] = After[r] + i,
         received'[r] # <<>> => lastId'[r] <= Len(log[Follows[r]]),
         next \in {"calling", "waiting", "woken", "yielding"} => cursor'[r] = lastId'[r],
         next = "yielding" =>
           /\ cursor'[r] < batch'[r].upto => batch'[r].upto <= Len(log[Follows[r]])
           /\ batch'[r].over => Enough(Follows[r], batch'[r].upto),
         next = "closed" => Enough(Follows[r], lastId'[r]),
         next = "waiting" => ~Unread(r) /\ ~Over(r) /\ UNCHANGED cursor
  PROVE  IInv'
<1>1. /\ reader' \in [Readers -> StreamStates] /\ reader'[r] = next
      /\ \A q \in Readers : q # r => reader'[q] = reader[q]
  BY DEF Mine, IInv, TypeOK, StreamStates
<1>2. UNCHANGED <<status, log, worker>>
  BY DEF Mine, WriterState
<1>3. TypeOK'
  BY <1>1, <1>2 DEF IInv, TypeOK, StreamStates
<1>4. CursorInv'
  <2> SUFFICES ASSUME NEW q \in Readers
               PROVE  /\ lastId'[q] = After[q] + Len(received'[q])
                      /\ \A i \in 1..Len(received'[q]) : received'[q][i] = After[q] + i
                      /\ received'[q] # <<>> => lastId'[q] <= Len(log[Follows[q]])
                      /\ reader'[q] \in {"calling", "waiting", "woken", "yielding"} => cursor'[q] = lastId'[q]
                      /\ reader'[q] = "yielding" /\ cursor'[q] < batch'[q].upto => batch'[q].upto <= Len(log[Follows[q]])
    BY <1>2 DEF CursorInv, Connected
  <2>1. CASE q = r
    BY <1>1, <2>1
  <2>2. CASE q # r
    <3>1. /\ reader'[q] = reader[q] /\ cursor'[q] = cursor[q] /\ batch'[q] = batch[q]
          /\ lastId'[q] = lastId[q] /\ received'[q] = received[q]
      BY <1>1, <2>2
    <3>2. /\ lastId[q] = After[q] + Len(received[q])
          /\ \A i \in 1..Len(received[q]) : received[q][i] = After[q] + i
          /\ received[q] # <<>> => lastId[q] <= Len(log[Follows[q]])
          /\ reader[q] \in {"calling", "waiting", "woken", "yielding"} => cursor[q] = lastId[q]
          /\ reader[q] = "yielding" /\ cursor[q] < batch[q].upto => batch[q].upto <= Len(log[Follows[q]])
      BY DEF IInv, CursorInv, Connected
    <3>3. UNCHANGED log
      BY <1>2
    <3> HIDE DEF Mine
    <3> QED BY ONLY <3>1, <3>2, <3>3
  <2> QED BY <2>1, <2>2
<1>5. EndInv'
  <2> SUFFICES ASSUME NEW q \in Readers
               PROVE  /\ reader'[q] = "yielding" /\ batch'[q].over => Enough(Follows[q], batch'[q].upto)
                      /\ reader'[q] = "closed" => Enough(Follows[q], lastId'[q])
    BY <1>2 DEF EndInv, Enough
  <2>1. CASE q = r
    BY <1>1, <2>1
  <2>2. CASE q # r
    BY <1>1, <2>2 DEF IInv, EndInv
  <2> QED BY <2>1, <2>2
<1>6. NoLostWakeup'
  <2> SUFFICES ASSUME NEW q \in Readers, reader'[q] = "waiting"
               PROVE  ~(Len(log[Follows[q]]) > cursor'[q]) /\ ~(status[Follows[q]] \in Terminal)
    BY <1>2 DEF NoLostWakeup, Unread, Over
  <2>1. CASE q = r
    BY <1>1, <2>1 DEF Unread, Over
  <2>2. CASE q # r
    BY <1>1, <2>2 DEF IInv, NoLostWakeup, Unread, Over
  <2> QED BY <2>1, <2>2
<1>7. WriterInv'
  BY WritersStay DEF Mine
<1> QED BY <1>3, <1>4, <1>5, <1>6, <1>7 DEF IInv

(* What holds of a stream before its step. *)
LEMMA StreamIs ==
  ASSUME IInv, NEW r \in Readers
  PROVE  /\ cursor \in [Readers -> Nat] /\ batch \in [Readers -> [over : BOOLEAN, upto : Nat]]
         /\ lastId \in [Readers -> Nat] /\ received \in [Readers -> Seq(Nat)] /\ drops \in [Readers -> 0..MaxDrops]
         /\ Follows[r] \in Jobs /\ Len(log[Follows[r]]) \in Nat /\ After[r] \in Nat
         /\ lastId[r] = After[r] + Len(received[r])
         /\ \A i \in 1..Len(received[r]) : received[r][i] = After[r] + i
         /\ received[r] # <<>> => lastId[r] <= Len(log[Follows[r]])
         /\ reader[r] \in {"calling", "waiting", "woken", "yielding"} => cursor[r] = lastId[r]
         /\ reader[r] = "yielding" =>
              /\ cursor[r] < batch[r].upto => batch[r].upto <= Len(log[Follows[r]])
              /\ batch[r].over => Enough(Follows[r], batch[r].upto)
BY JobStreamAssumption DEF IInv, TypeOK, CursorInv, EndInv, Connected

LEMMA ConnectKeeps == ASSUME IInv, NEW r \in Readers, Connect(r) PROVE IInv'
<1>1. Mine(r, "calling") /\ cursor' = [cursor EXCEPT ![r] = lastId[r]] /\ UNCHANGED <<batch, lastId, received, drops>>
  BY DEF Connect, Open, Mine
<1>2. cursor' \in [Readers -> Nat] /\ cursor'[r] = lastId[r] /\ \A q \in Readers : q # r => cursor'[q] = cursor[q]
  BY <1>1, StreamIs
<1> QED BY <1>1, <1>2, StreamIs, StreamKeeps DEF StreamStates

LEMMA TakeBatchKeeps == ASSUME IInv, NEW r \in Readers, reader[r] \in {"calling", "woken"}, TakeBatch(r) PROVE IInv'
<1> DEFINE upto == IF Unread(r) THEN Len(log[Follows[r]]) ELSE cursor[r]
<1>1. Mine(r, "yielding") /\ batch' = [batch EXCEPT ![r] = [over |-> Over(r), upto |-> upto]]
      /\ UNCHANGED <<cursor, lastId, received, drops>>
  BY DEF TakeBatch, Mine
<1>2. upto \in Nat /\ cursor[r] \in Nat
  BY StreamIs
<1>3. Over(r) \in BOOLEAN
  BY DEF Over
<1>4. PICK over \in BOOLEAN : over = Over(r)
  BY <1>3
<1>5. /\ batch' \in [Readers -> [over : BOOLEAN, upto : Nat]]
      /\ batch'[r].over = over /\ batch'[r].upto = upto
      /\ \A q \in Readers : q # r => batch'[q] = batch[q]
  <2> HIDE DEF upto
  <2> QED BY <1>1, <1>2, <1>4, StreamIs
<1>6. cursor[r] < upto => upto <= Len(log[Follows[r]])
  BY StreamIs
<1>7. over => Enough(Follows[r], upto)
  <2>1. upto >= Len(log[Follows[r]])
    BY StreamIs DEF Unread
  <2>2. Over(r) => worker[Follows[r]] \in Writing \cup {"finished"}
    BY StreamIs DEF Over, IInv, WriterInv
  <2> QED BY <1>2, <1>4, <2>1, <2>2, StreamIs DEF Enough
<1> HIDE DEF upto
<1> QED BY <1>1, <1>5, <1>6, <1>7, StreamIs, StreamKeeps DEF StreamStates

LEMMA WaitKeeps == ASSUME IInv, NEW r \in Readers, Wait(r) PROVE IInv'
<1>1. /\ Mine(r, "waiting") /\ UNCHANGED ReaderLocals /\ ~Unread(r) /\ ~Over(r) /\ reader[r] = "calling"
  BY DEF Wait, Mine
<1> QED BY <1>1, StreamIs, StreamKeeps DEF StreamStates, ReaderLocals

LEMMA TimeoutKeeps == ASSUME IInv, NEW r \in Readers, Timeout(r) PROVE IInv'
<1>1. /\ Mine(r, "woken") /\ UNCHANGED ReaderLocals /\ reader[r] = "waiting"
  BY DEF Timeout, Mine
<1> QED BY <1>1, StreamIs, StreamKeeps DEF StreamStates, ReaderLocals

LEMMA YieldKeeps == ASSUME IInv, NEW r \in Readers, Yield(r) PROVE IInv'
<1>1. /\ reader[r] = "yielding" /\ cursor[r] < batch[r].upto
      /\ cursor' = [cursor EXCEPT ![r] = @ + 1]
      /\ lastId' = [lastId EXCEPT ![r] = cursor[r] + 1]
      /\ received' = [received EXCEPT ![r] = Append(@, cursor[r] + 1)]
      /\ UNCHANGED <<WriterState, reader, batch, drops>>
  BY DEF Yield
<1>2. Mine(r, "yielding")
  BY <1>1 DEF Mine, IInv, TypeOK
<1>3. /\ cursor[r] \in Nat /\ lastId[r] = cursor[r] /\ received[r] \in Seq(Nat) /\ batch[r].upto \in Nat
      /\ batch[r].upto <= Len(log[Follows[r]])
  BY <1>1, StreamIs
<1>4. /\ cursor' \in [Readers -> Nat] /\ cursor'[r] = cursor[r] + 1
      /\ lastId' \in [Readers -> Nat] /\ lastId'[r] = cursor[r] + 1
      /\ \A q \in Readers : q # r => cursor'[q] = cursor[q] /\ lastId'[q] = lastId[q]
  BY <1>1, <1>3, StreamIs
<1>5. /\ Append(received[r], cursor[r] + 1) \in Seq(Nat)
      /\ received'[r] = Append(received[r], cursor[r] + 1)
      /\ received' \in [Readers -> Seq(Nat)]
      /\ \A q \in Readers : q # r => received'[q] = received[q]
  <2>1. Append(received[r], cursor[r] + 1) \in Seq(Nat)
    BY <1>3
  <2> QED BY <1>1, <2>1, StreamIs
<1>6. /\ Len(received'[r]) = Len(received[r]) + 1 /\ Len(received[r]) \in Nat
      /\ received'[r][Len(received[r]) + 1] = cursor[r] + 1
      /\ \A i \in 1..Len(received[r]) : received'[r][i] = received[r][i]
  BY <1>3, <1>5
<1>0. After[r] \in Nat /\ lastId[r] = After[r] + Len(received[r])
  BY StreamIs
<1>10. cursor[r] + 1 = After[r] + (Len(received[r]) + 1)
  <2>1. cursor[r] = After[r] + Len(received[r])
    BY <1>0, <1>3
  <2> QED BY ONLY <2>1, <1>0, <1>6
<1>7. lastId'[r] = After[r] + Len(received'[r])
  BY ONLY <1>10, <1>4, <1>6
<1>8. \A i \in 1..Len(received'[r]) : received'[r][i] = After[r] + i
  <2>1. \A i \in 1..Len(received'[r]) : i \in 1..Len(received[r]) \/ i = Len(received[r]) + 1
    BY <1>6
  <2> QED BY <1>6, <2>1, <1>10, StreamIs
<1>9. lastId'[r] <= Len(log[Follows[r]]) /\ UNCHANGED <<batch, drops>>
  BY <1>1, <1>3, <1>4, StreamIs
<1>11. /\ cursor'[r] = lastId'[r]
       /\ cursor'[r] < batch'[r].upto => batch'[r].upto <= Len(log[Follows[r]])
       /\ batch'[r].over => Enough(Follows[r], batch'[r].upto)
  BY <1>1, <1>3, <1>4, StreamIs
<1>12. /\ batch' \in [Readers -> [over : BOOLEAN, upto : Nat]] /\ drops' \in [Readers -> 0..MaxDrops]
       /\ \A q \in Readers : q # r => batch'[q] = batch[q]
  BY <1>9, StreamIs
<1>13. "yielding" \in StreamStates
  BY DEF StreamStates
<1> HIDE DEF Yield
<1> QED BY <1>13, <1>2, <1>4, <1>5, <1>7, <1>8, <1>9, <1>11, <1>12, StreamKeeps

LEMMA EndBatchKeeps == ASSUME IInv, NEW r \in Readers, EndBatch(r) PROVE IInv'
<1>1. /\ reader[r] = "yielding" /\ cursor[r] >= batch[r].upto /\ UNCHANGED ReaderLocals
      /\ Mine(r, IF batch[r].over THEN "closed" ELSE "calling")
  BY DEF EndBatch, AfterBatch, Mine
<1>2. CASE batch[r].over
  <2>1. Mine(r, "closed")
    BY <1>1, <1>2
  <2>2. Enough(Follows[r], lastId[r])
    <3>1. Enough(Follows[r], batch[r].upto) /\ lastId[r] >= batch[r].upto /\ lastId[r] \in Nat /\ batch[r].upto \in Nat
      BY <1>1, <1>2, StreamIs
    <3> QED BY <3>1, StreamIs DEF Enough
  <2> QED BY <1>1, <2>1, <2>2, StreamIs, StreamKeeps DEF StreamStates, ReaderLocals
<1>3. CASE ~batch[r].over
  <2>1. Mine(r, "calling")
    BY <1>1, <1>3
  <2> QED BY <1>1, <2>1, StreamIs, StreamKeeps DEF StreamStates, ReaderLocals
<1> QED BY <1>2, <1>3

LEMMA DropKeeps == ASSUME IInv, NEW r \in Readers, Drop(r) PROVE IInv'
<1>1. /\ Mine(r, "disconnected") /\ UNCHANGED <<cursor, batch, lastId, received>>
      /\ drops[r] < MaxDrops /\ drops' = [drops EXCEPT ![r] = @ + 1]
  BY DEF Drop, Mine
<1>2. drops' \in [Readers -> 0..MaxDrops]
  BY <1>1, StreamIs, JobStreamAssumption
<1> QED BY <1>1, <1>2, StreamIs, StreamKeeps DEF StreamStates

-----------------------------------------------------------------------------
LEMMA InvNext == IInv /\ [Next]_vars => IInv'
<1> SUFFICES ASSUME IInv, [Next]_vars PROVE IInv'
  OBVIOUS
<1>1. CASE UNCHANGED vars
  BY <1>1 DEF vars, IInv, TypeOK, WriterInv, CursorInv, Connected, EndInv, Enough, NoLostWakeup, Unread, Over
<1>2. ASSUME NEW j \in Jobs, Create(j) \/ Worker(j) PROVE IInv'
  BY <1>2, CreateKeeps, WorkerKeeps
<1>3. ASSUME NEW r \in Readers, Connect(r) \/ Stream(r) \/ Timeout(r) \/ Drop(r) PROVE IInv'
  <2>1. CASE ReturnAtOnce(r) \/ ReturnWoken(r)
    BY <2>1, TakeBatchKeeps DEF ReturnAtOnce, ReturnWoken
  <2> QED BY <1>3, <2>1, ConnectKeeps, WaitKeeps, YieldKeeps, EndBatchKeeps, TimeoutKeeps, DropKeeps DEF Stream
<1> QED BY <1>1, <1>2, <1>3 DEF Next

THEOREM Invariance == Spec => []IInv
BY InvInit, InvNext, PTL DEF Spec

(* Every variable of the registry and of its streams keeps its type. *)
THEOREM TypeCorrect == Spec => []TypeOK
<1>1. IInv => TypeOK
  BY DEF IInv
<1> QED BY <1>1, Invariance, PTL

(* A stream never sleeps on the condition variable while there is something
   for it to send (JobRegistry.wait_for_events). *)
THEOREM WakeupsAreKept == Spec => []NoLostWakeup
<1>1. IInv => NoLostWakeup
  BY DEF IInv
<1> QED BY <1>1, Invariance, PTL

(* Over all its connections a client receives each retained event once, in
   order, and lacks at most the verdict when a stream ends (_sse_events). *)
THEOREM DeliveryIsOnce == Spec => []DeliveryIsExact
BY Invariance, InvDelivery, PTL
=============================================================================

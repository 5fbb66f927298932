------------------------------ MODULE RunStore ------------------------------
(***************************************************************************)
(* The store of evidence bundles on disk: the staged write of a bundle     *)
(* (bugagent/artifacts.py), the listing and the reading of bundles         *)
(* (web.py), and DELETE /runs (api.py), all file by file and all at the    *)
(* same time: requests are served by threads, the API's executor and the   *)
(* command line write.                                                     *)
(*                                                                         *)
(* A directory is the set of its entries with "." for itself; {} is no     *)
(* directory.  "evidence" stands for the four files that only get_run      *)
(* reads (ticket, candidates, evidence, timeline).  A file appears         *)
(* complete: readers skip one that does not parse.  Modelled failures: a   *)
(* write that raises, and a process that stops at any step and leaves its  *)
(* files.                                                                  *)
(***************************************************************************)
EXTENDS Integers, Sequences, FiniteSets, FiniteSetsExt

CONSTANTS
  Runs,        \* run identifiers, fresh for each investigation
  Readers,     \* clients that list the runs and open one of them
  Deleters,    \* DELETE /runs requests
  MaxStops     \* bound: stops of the process

ASSUME RunStoreAssumption == MaxStops \in Nat /\ IsFiniteSet(Deleters)

WriteOrder == <<"verdict", "evidence", "manifest">>
ReadOrder  == <<"manifest", "verdict", "evidence">>
Files      == {"verdict", "evidence", "manifest"}
Whole      == Files \cup {"."}

VARIABLES
  staging,    \* each run's .<run>.<hex>.tmp directory
  target,     \* each run's published directory
  writing,    \* runs with a live writer
  published,  \* history: runs that were renamed into place
  reader,     \* [pc, found, listed, run, next, whole] of each client; whole is
              \* history, was the bundle complete at some point of its reading
  deleter,    \* [pc, todo, saw, run, entries, count] of each DELETE; saw is
              \* history, the runs it met
  staged,     \* history: runs listed from their staging directory
  touched,    \* history: runs a DELETE has begun to remove
  stops       \* history: stops of the process

store  == <<staging, target, writing, published>>
vars   == <<store, reader, deleter, staged, touched, stops>>

NoReader  == [pc |-> "idle", found |-> {}, listed |-> {}, run |-> "none", next |-> 1, whole |-> FALSE]
NoDeleter == [pc |-> "idle", todo |-> {}, saw |-> {}, run |-> "none", entries |-> {}, count |-> 0]

Init ==
  /\ staging = [r \in Runs |-> {}]
  /\ target = [r \in Runs |-> {}]
  /\ writing = {} /\ published = {}
  /\ reader = [c \in Readers |-> NoReader]
  /\ deleter = [d \in Deleters |-> NoDeleter]
  /\ staged = {} /\ touched = {}
  /\ stops = 0

-----------------------------------------------------------------------------
(* ArtifactStore.write. *)

Clients == <<reader, deleter, staged, touched, stops>>

BeginWrite(r) ==
  /\ staging[r] = {} /\ target[r] = {} /\ r \notin writing \cup published
  /\ staging' = [staging EXCEPT ![r] = {"."}]
  /\ writing' = writing \cup {r}
  /\ UNCHANGED <<target, published, Clients>>

WriteFile(r) ==
  /\ r \in writing /\ staging[r] # Whole
  /\ staging' = [staging EXCEPT ![r] = @ \cup {WriteOrder[Cardinality(@)]}]
  /\ UNCHANGED <<target, writing, published, Clients>>

(* Mutation: the files are moved one by one. *)
Publish_FileByFile(r) ==
  /\ r \in writing /\ staging[r] \cup target[r] = Whole
  /\ \E f \in staging[r] :
       /\ staging' = [staging EXCEPT ![r] = @ \ {f}]
       /\ target' = [target EXCEPT ![r] = @ \cup {f, "."}]
       /\ writing' = IF staging[r] = {f} THEN writing \ {r} ELSE writing
  /\ published' = published \cup {r}
  /\ UNCHANGED Clients

(* The rename. *)
Publish(r) ==
  /\ r \in writing /\ staging[r] = Whole
  /\ target' = [target EXCEPT ![r] = staging[r]]
  /\ staging' = [staging EXCEPT ![r] = {}]
  /\ writing' = writing \ {r}
  /\ published' = published \cup {r}
  /\ UNCHANGED Clients

(* Mutation: the staging directory stays behind. *)
FailWrite_Leaves(r) ==
  /\ r \in writing
  /\ writing' = writing \ {r}
  /\ UNCHANGED <<staging, target, published, Clients>>

(* Any of it raises: the staging directory is removed. *)
FailWrite(r) ==
  /\ r \in writing
  /\ staging' = [staging EXCEPT ![r] = {}]
  /\ writing' = writing \ {r}
  /\ UNCHANGED <<target, published, Clients>>

-----------------------------------------------------------------------------
(* A client: RunStore.list_runs, then RunStore.get_run of a run it lists. *)

Reading(c, pc) == reader[c].pc = pc
Others == <<store, deleter, touched, stops>>

(* The pattern of the listing matches staging directories too. *)
ListManifests(c) ==
  /\ Reading(c, "idle")
  /\ reader' = [reader EXCEPT ![c].pc = "listing",
       ![c].found = ({"target"} \X { r \in Runs : "manifest" \in target[r] })
                    \cup ({"staging"} \X { r \in Runs : "manifest" \in staging[r] })]
  /\ UNCHANGED <<Others, staged>>

Directory(entry) == IF entry[1] = "target" THEN target[entry[2]] ELSE staging[entry[2]]

(* An entry that has lost its files since is skipped. *)
ListEntry(c) ==
  /\ Reading(c, "listing")
  /\ \E e \in reader[c].found :
       IF {"manifest", "verdict"} \subseteq Directory(e)
       THEN /\ reader' = [reader EXCEPT ![c].found = @ \ {e}, ![c].listed = @ \cup {e[2]}]
            /\ staged' = IF e[1] = "staging" THEN staged \cup {e[2]} ELSE staged
       ELSE reader' = [reader EXCEPT ![c].found = @ \ {e}] /\ UNCHANGED staged
  /\ UNCHANGED Others

OpenListed(c) ==
  /\ Reading(c, "listing") /\ reader[c].found = {}
  /\ \E r \in reader[c].listed :
       reader' = [reader EXCEPT ![c].pc = "reading", ![c].run = r]
  /\ UNCHANGED <<Others, staged>>

NextFile(c) == ReadOrder[reader[c].next]

(* Mutation: a bundle without its timeline has no events. *)
Found_WithoutEvents(c) == NextFile(c) = "evidence" \/ NextFile(c) \in target[reader[c].run]

Found(c) == NextFile(c) \in target[reader[c].run]

(* get_run reads every required file; one that is missing makes it a 404. *)
ReadFile(c) ==
  /\ Reading(c, "reading")
  /\ reader' = [reader EXCEPT
       ![c].pc = IF ~Found(c) THEN "missing" ELSE IF reader[c].next = Len(ReadOrder) THEN "opened" ELSE "reading",
       ![c].next = IF Found(c) THEN @ + 1 ELSE @,
       ![c].whole = @ \/ target[reader[c].run] = Whole]
  /\ UNCHANGED <<Others, staged>>

Reader(c) == ListManifests(c) \/ ListEntry(c) \/ OpenListed(c) \/ ReadFile(c)

-----------------------------------------------------------------------------
(* _clear_stored_runs.  The directories are listed first; each is checked
   for its manifest, and its files are listed and unlinked one by one, in
   whatever order the file system gives. *)

Deleting(d, pc) == deleter[d].pc = pc
Raise(d) == deleter' = [deleter EXCEPT ![d].pc = "failed"]
Current(d) == target[deleter[d].run]
Rest == <<staging, writing, published, reader, staged, stops>>

StartClear(d) ==
  /\ Deleting(d, "idle")
  /\ LET found == { r \in Runs : target[r] # {} }
     IN deleter' = [deleter EXCEPT ![d].pc = "next", ![d].todo = found, ![d].saw = found]
  /\ UNCHANGED <<Rest, target, touched>>

(* A directory without a manifest is not taken for a bundle. *)
CheckManifest(d) ==
  /\ Deleting(d, "next")
  /\ \E r \in deleter[d].todo :
       deleter' = IF "manifest" \in target[r]
                  THEN [deleter EXCEPT ![d].todo = @ \ {r}, ![d].pc = "scan", ![d].run = r]
                  ELSE [deleter EXCEPT ![d].todo = @ \ {r}]
  /\ UNCHANGED <<Rest, target, touched>>

(* rmtree opens the directory and lists it. *)
Scan(d) ==
  /\ Deleting(d, "scan")
  /\ IF Current(d) = {} THEN Raise(d)
     ELSE deleter' = [deleter EXCEPT ![d].pc = "unlink", ![d].entries = Current(d) \ {"."}]
  /\ touched' = touched \cup {deleter[d].run}
  /\ UNCHANGED <<Rest, target>>

(* Mutation: a directory that another request empties is left to it. *)
Unlink_GiveUp(d) ==
  /\ Deleting(d, "unlink")
  /\ \E f \in deleter[d].entries :
       IF f \in Current(d)
       THEN /\ target' = [target EXCEPT ![deleter[d].run] = @ \ {f}]
            /\ deleter' = [deleter EXCEPT ![d].entries = @ \ {f}]
       ELSE deleter' = [deleter EXCEPT ![d].pc = "next", ![d].entries = {}] /\ UNCHANGED target
  /\ UNCHANGED <<Rest, touched>>

(* A file that is gone already: rmtree raises up to Python 3.12 and goes on
   from 3.13. *)
Unlink(d) ==
  /\ Deleting(d, "unlink")
  /\ \E f \in deleter[d].entries :
       LET goOn == deleter' = [deleter EXCEPT ![d].entries = @ \ {f}]
       IN IF f \in Current(d) THEN target' = [target EXCEPT ![deleter[d].run] = @ \ {f}] /\ goOn
                              ELSE (Raise(d) \/ goOn) /\ UNCHANGED target
  /\ UNCHANGED <<Rest, touched>>

Counted(d) == deleter' = [deleter EXCEPT ![d].pc = "next", ![d].count = @ + 1]

Rmdir(d) ==
  /\ Deleting(d, "unlink") /\ deleter[d].entries = {}
  /\ IF Current(d) = {"."} THEN Counted(d) /\ target' = [target EXCEPT ![deleter[d].run] = {}]
                           ELSE Raise(d) /\ UNCHANGED target
  /\ UNCHANGED <<Rest, touched>>

FinishClear(d) ==
  /\ Deleting(d, "next") /\ deleter[d].todo = {}
  /\ deleter' = [deleter EXCEPT ![d].pc = "done"]
  /\ UNCHANGED <<Rest, target, touched>>

Deleter(d) == StartClear(d) \/ CheckManifest(d) \/ Scan(d) \/ Unlink(d) \/ Rmdir(d) \/ FinishClear(d)

(* The process is gone, with everything that was under way. *)
Stop ==
  /\ stops < MaxStops /\ stops' = stops + 1
  /\ writing' = {}
  /\ reader' = [c \in Readers |-> IF reader[c].pc \in {"listing", "reading"} THEN NoReader ELSE reader[c]]
  /\ deleter' = [d \in Deleters |-> IF deleter[d].pc \in {"next", "scan", "unlink"}
                                    THEN [deleter[d] EXCEPT !.pc = "killed"] ELSE deleter[d]]
  /\ UNCHANGED <<staging, target, published, staged, touched>>

Next ==
  \/ \E r \in Runs : BeginWrite(r) \/ WriteFile(r) \/ Publish(r) \/ FailWrite(r)
  \/ \E c \in Readers : Reader(c)
  \/ \E d \in Deleters : Deleter(d)
  \/ Stop

Spec == Init /\ [][Next]_vars

-----------------------------------------------------------------------------
(* Every variable has its type; files only ever miss at the end of the
   writing order in a staging directory, and only a process that stops leaves
   one behind, never a write that failed. *)
TypeOK ==
  /\ \A r \in Runs : staging[r] = {} \/ \E n \in 0..3 : staging[r] = {"."} \cup { WriteOrder[i] : i \in 1..n }
  /\ \A r \in Runs : staging[r] # {} => r \in writing \/ stops > 0
  /\ target \in [Runs -> SUBSET Whole]
  /\ \A r \in Runs : target[r] # {} => "." \in target[r] /\ r \in published
  /\ writing \subseteq Runs \ published /\ published \subseteq Runs
  /\ \A c \in Readers :
       /\ reader[c].pc \in {"idle", "listing", "reading", "opened", "missing"}
       /\ reader[c].found \subseteq {"target", "staging"} \X Runs
       /\ reader[c].listed \subseteq Runs /\ reader[c].run \in Runs \cup {"none"}
       /\ reader[c].next \in 1..4 /\ reader[c].whole \in BOOLEAN
  /\ \A d \in Deleters :
       /\ deleter[d].pc \in {"idle", "next", "scan", "unlink", "done", "failed", "killed"}
       /\ deleter[d].todo \subseteq deleter[d].saw /\ deleter[d].saw \subseteq published
       /\ deleter[d].entries \subseteq Files /\ deleter[d].count \in 0..Cardinality(deleter[d].saw)
  /\ staged \subseteq Runs /\ touched \subseteq published
  /\ stops \in 0..MaxStops

(* What a client opens was there as a whole at some moment of its request,
   although the files are read one by one and the run may have been published
   or deleted meanwhile; and a run that is listed can be opened.  The
   exceptions are what the store does not exclude: a run listed from its
   staging directory before the rename "atomically publishes it"
   (artifacts.py), and a run that a DELETE has begun to remove. *)
ReadersSeeWholeRuns ==
  \A c \in Readers :
    /\ Reading(c, "opened") => reader[c].whole
    /\ Reading(c, "missing") => reader[c].run \in staged \cup touched

Removing(r) == { d \in Deleters : deleter[d].run = r /\ ~Deleting(d, "done") }

(* What a DELETE that answered "deleted" has left of a run it met is the work
   of another DELETE on that run, which is still at it, failed or was
   stopped; and deleted_run_count is true: requests that clear at the same
   time count every removed run exactly once between them. *)
ClearedRunsAreGone ==
  /\ \A d \in Deleters : Deleting(d, "done") =>
       \A r \in deleter[d].saw : target[r] # {} => \E o \in Removing(r) : o # d
  /\ MapThenSumSet(LAMBDA d : deleter[d].count, Deleters)
       = Cardinality({ r \in published : target[r] = {} })

-----------------------------------------------------------------------------
(* The store implements the history of its runs: a run is there while its
   directory is complete. *)
History == INSTANCE RunHistory WITH
  state <- [r \in Runs |-> IF target[r] = Whole THEN "present"
                           ELSE IF r \in published THEN "removed" ELSE "absent"]

(* A bundle becomes visible as a whole and never comes back. *)
ImplementsRunHistory == History!Spec
=============================================================================

--------------------------- MODULE RunStore_proofs ---------------------------
(***************************************************************************)
(* Proofs about RunStore, for every set of runs and of clients, every      *)
(* finite set of DELETE requests and any number of stops: types, what a    *)
(* reader sees, what DELETE requests leave and count, and the refinement   *)
(* of RunHistory.                                                          *)
(***************************************************************************)
EXTENDS RunStore, FiniteSetTheorems, WellFoundedInduction, TLAPS

-----------------------------------------------------------------------------
(* The inductive invariant. *)

(* What a staging directory can hold, in writing order. *)
Stages == { {}, {"."}, {".", "verdict"}, {".", "verdict", "evidence"}, Whole }

(* A published run is whole until a DELETE touches it, and what is not
   published has no directory. *)
StoreInv ==
  /\ staging \in [Runs -> Stages] /\ target \in [Runs -> SUBSET Whole]
  /\ writing \subseteq Runs \ published /\ published \subseteq Runs /\ IsFiniteSet(published)
  /\ \A r \in writing : staging[r] # {}
  /\ \A r \in Runs : staging[r] # {} => r \in writing \/ stops > 0
  /\ \A r \in Runs : target[r] # {} => "." \in target[r] /\ r \in published
  /\ \A r \in published \ touched : target[r] = Whole
  /\ staged \subseteq Runs /\ touched \subseteq published /\ stops \in 0..MaxStops

ReaderRecord ==
  [ pc : {"idle", "listing", "reading", "opened", "missing"},
    found : SUBSET ({"target", "staging"} \X Runs), listed : SUBSET Runs,
    run : Runs \cup {"none"}, next : 1..4, whole : BOOLEAN ]

(* The files a reading client has yet to see were there when it read its first
   one, or one of them is gone for good. *)
ReaderIs(rd) ==
  /\ rd \in ReaderRecord
  /\ \A e \in rd.found : e[1] = "target" => e[2] \in published
  /\ rd.listed \subseteq staged \cup published
  /\ rd.pc \in {"idle", "listing"} => rd.next = 1
  /\ rd.pc \in {"reading", "opened", "missing"} => rd.run \in rd.listed
  /\ rd.pc = "reading" => rd.next \in 1..3 /\ (rd.next # 1 => rd.run \in published)
  /\ rd.pc = "reading" /\ rd.whole # TRUE =>
       /\ rd.next = 2 => ~({"verdict", "evidence"} \subseteq target[rd.run])
       /\ rd.next = 3 => "evidence" \notin target[rd.run]
  /\ rd.pc = "opened" => rd.whole = TRUE
  /\ rd.pc = "missing" => rd.run \in staged \cup touched

ReadersInv ==
  /\ reader \in [Readers -> ReaderRecord]
  /\ \A c \in Readers : ReaderIs(reader[c])

DeleterRecord ==
  [ pc : {"idle", "next", "scan", "unlink", "done", "failed", "killed"},
    todo : SUBSET Runs, saw : SUBSET Runs, run : Runs \cup {"none"},
    entries : SUBSET Files, count : Nat ]

(* What a DELETE has counted, has under way and has before it, it saw. *)
Working(dl) == IF dl.pc \in {"scan", "unlink"} THEN 1 ELSE 0

DeleterIs(dl) ==
  /\ dl \in DeleterRecord
  /\ dl.todo \subseteq dl.saw /\ dl.saw \subseteq published
  /\ dl.pc = "idle" => dl.count = 0
  /\ dl.pc \in {"scan", "unlink"} => dl.run \in published
  /\ dl.pc = "unlink" => dl.run \in touched
  /\ dl.count + Cardinality(dl.todo) + Working(dl) <= Cardinality(dl.saw)

DeletersInv ==
  /\ deleter \in [Deleters -> DeleterRecord]
  /\ \A d \in Deleters : DeleterIs(deleter[d])

IInv == StoreInv /\ ReadersInv /\ DeletersInv

-----------------------------------------------------------------------------
(* The invariant says all that the checked properties say. *)

LEMMA InvReaders == IInv => ReadersSeeWholeRuns
BY DEF IInv, ReadersInv, ReaderIs, ReadersSeeWholeRuns, Reading

LEMMA StagesAreOrdered ==
  ASSUME NEW s \in Stages PROVE s = {} \/ \E n \in 0..3 : s = {"."} \cup { WriteOrder[i] : i \in 1..n }
<1>1. WriteOrder[1] = "verdict" /\ WriteOrder[2] = "evidence" /\ WriteOrder[3] = "manifest"
  BY DEF WriteOrder
<1>2. { WriteOrder[i] : i \in 1..0 } = {}
  OBVIOUS
<1>3. { WriteOrder[i] : i \in 1..1 } = {"verdict"}
  BY <1>1
<1>4. { WriteOrder[i] : i \in 1..2 } = {"verdict", "evidence"}
  BY <1>1
<1>5. { WriteOrder[i] : i \in 1..3 } = {"verdict", "evidence", "manifest"}
  BY <1>1
<1>6. 0 \in 0..3 /\ 1 \in 0..3 /\ 2 \in 0..3 /\ 3 \in 0..3
  OBVIOUS
<1>7. CASE s = {"."}
  BY <1>2, <1>6, <1>7
<1>8. CASE s = {".", "verdict"}
  BY <1>3, <1>6, <1>8
<1>9. CASE s = {".", "verdict", "evidence"}
  BY <1>4, <1>6, <1>9
<1>10. CASE s = Whole
  BY <1>5, <1>6, <1>10 DEF Whole, Files
<1> QED BY <1>7, <1>8, <1>9, <1>10 DEF Stages

LEMMA InvTypes == IInv => TypeOK
<1> SUFFICES ASSUME IInv PROVE TypeOK
  OBVIOUS
<1>1. \A r \in Runs : staging[r] = {} \/ \E n \in 0..3 : staging[r] = {"."} \cup { WriteOrder[i] : i \in 1..n }
  BY StagesAreOrdered DEF IInv, StoreInv
<1>2. \A c \in Readers :
       /\ reader[c].pc \in {"idle", "listing", "reading", "opened", "missing"}
       /\ reader[c].found \subseteq {"target", "staging"} \X Runs
       /\ reader[c].listed \subseteq Runs /\ reader[c].run \in Runs \cup {"none"}
       /\ reader[c].next \in 1..4 /\ reader[c].whole \in BOOLEAN
  BY DEF IInv, ReadersInv, ReaderRecord
<1>3. ASSUME NEW d \in Deleters
      PROVE  /\ deleter[d].pc \in {"idle", "next", "scan", "unlink", "done", "failed", "killed"}
             /\ deleter[d].todo \subseteq deleter[d].saw /\ deleter[d].saw \subseteq published
             /\ deleter[d].entries \subseteq Files /\ deleter[d].count \in 0..Cardinality(deleter[d].saw)
  <2>1. PICK dl \in DeleterRecord : dl = deleter[d] /\ DeleterIs(dl)
    BY DEF IInv, DeletersInv
  <2>2. IsFiniteSet(dl.saw) /\ IsFiniteSet(dl.todo)
    BY <2>1, FS_Subset DEF IInv, StoreInv, DeleterIs
  <2>3. Cardinality(dl.saw) \in Nat /\ Cardinality(dl.todo) \in Nat
    BY <2>2, FS_CardinalityType
  <2>4. dl.count \in 0..Cardinality(dl.saw)
    BY <2>1, <2>3 DEF DeleterIs, DeleterRecord, Working
  <2> QED BY <2>1, <2>4 DEF DeleterIs, DeleterRecord
<1> QED BY <1>1, <1>2, <1>3 DEF TypeOK, IInv, StoreInv

-----------------------------------------------------------------------------
(* It holds at the start. *)

LEMMA InvInit == Init => IInv
<1> SUFFICES ASSUME Init PROVE IInv
  OBVIOUS
<1> USE DEF Init
<1>1. StoreInv
  <2>1. IsFiniteSet(published)
    BY FS_EmptySet
  <2> QED BY <2>1, RunStoreAssumption DEF StoreInv, Stages
<1>2. ReadersInv
  <2>1. FALSE \in BOOLEAN
    BY Zenon
  <2>2. NoReader \in ReaderRecord
    BY <2>1 DEF NoReader, ReaderRecord
  <2>3. ReaderIs(NoReader)
    BY <2>2 DEF ReaderIs, NoReader
  <2>4. reader \in [Readers -> ReaderRecord] /\ \A c \in Readers : reader[c] = NoReader
    BY <2>2
  <2> QED BY <2>3, <2>4 DEF ReadersInv
<1>3. DeletersInv
  <2>1. NoDeleter \in DeleterRecord
    BY DEF NoDeleter, DeleterRecord
  <2>2. Cardinality({}) = 0
    BY FS_EmptySet
  <2>3. DeleterIs(NoDeleter)
    BY <2>1, <2>2 DEF DeleterIs, NoDeleter, Working
  <2>4. deleter \in [Deleters -> DeleterRecord] /\ \A d \in Deleters : deleter[d] = NoDeleter
    BY <2>1
  <2> QED BY <2>3, <2>4 DEF DeletersInv
<1> QED BY <1>1, <1>2, <1>3 DEF IInv

-----------------------------------------------------------------------------
(* Who is not at work keeps what it knows: published directories only
   shrink, and nothing is unpublished, unlisted or untouched. *)

Grows ==
  /\ published \subseteq published' /\ staged \subseteq staged' /\ touched \subseteq touched'
  /\ \A r \in published : target'[r] \subseteq target[r]

LEMMA ReaderStays ==
  ASSUME Grows, NEW rd, ReaderIs(rd) PROVE ReaderIs(rd)'
<1>1. rd.pc = "reading" /\ rd.whole # TRUE =>
       /\ rd.next = 2 => ~({"verdict", "evidence"} \subseteq target'[rd.run])
       /\ rd.next = 3 => "evidence" \notin target'[rd.run]
  BY DEF ReaderIs, Grows
<1> QED BY <1>1 DEF ReaderIs, Grows

LEMMA ReadersStay ==
  ASSUME ReadersInv, Grows, UNCHANGED reader PROVE ReadersInv'
<1> SUFFICES ASSUME NEW c \in Readers PROVE ReaderIs(reader[c])'
  BY DEF ReadersInv
<1>1. PICK rd : rd = reader[c] /\ ReaderIs(rd)
  BY DEF ReadersInv
<1>2. ReaderIs(rd)' /\ reader'[c] = rd
  BY <1>1, ReaderStays
<1> QED BY <1>2 DEF ReaderIs

LEMMA DeleterStays ==
  ASSUME Grows, NEW dl, DeleterIs(dl) PROVE DeleterIs(dl)'
BY DEF DeleterIs, Grows

LEMMA DeletersStay ==
  ASSUME DeletersInv, Grows, UNCHANGED deleter PROVE DeletersInv'
<1> SUFFICES ASSUME NEW d \in Deleters PROVE DeleterIs(deleter[d])'
  BY DEF DeletersInv
<1>1. PICK dl : dl = deleter[d] /\ DeleterIs(dl)
  BY DEF DeletersInv
<1>2. DeleterIs(dl)' /\ deleter'[d] = dl
  BY <1>1, DeleterStays
<1> QED BY <1>2 DEF DeleterIs

LEMMA ReaderMoves ==
  ASSUME IInv, NEW c \in Readers, NEW rd, reader' = [reader EXCEPT ![c] = rd], ReaderIs(rd)',
         UNCHANGED <<store, deleter, touched, stops>>, staged \subseteq staged', staged' \subseteq Runs
  PROVE  IInv'
<1>1. UNCHANGED <<staging, target, writing, published>> /\ Grows
  BY DEF store, Grows
<1>2. StoreInv'
  BY <1>1 DEF IInv, StoreInv
<1>3. DeletersInv'
  BY <1>1, DeletersStay DEF IInv
<1>4. rd \in ReaderRecord
  BY DEF ReaderIs
<1>5. reader' \in [Readers -> ReaderRecord] /\ reader'[c] = rd /\ \A q \in Readers : q # c => reader'[q] = reader[q]
  BY <1>4 DEF IInv, ReadersInv
<1>6. ASSUME NEW q \in Readers PROVE ReaderIs(reader[q])'
  <2>1. CASE q = c
    BY <1>5, <2>1 DEF ReaderIs
  <2>2. CASE q # c
    <3>1. PICK old : old = reader[q] /\ ReaderIs(old)
      BY DEF IInv, ReadersInv
    <3>2. ReaderIs(old)' /\ reader'[q] = old
      BY <1>1, <1>5, <2>2, <3>1, ReaderStays
    <3> QED BY <3>2 DEF ReaderIs
  <2> QED BY <2>1, <2>2
<1> QED BY <1>2, <1>3, <1>5, <1>6 DEF IInv, ReadersInv

LEMMA DeleterMoves ==
  ASSUME IInv, NEW d \in Deleters, NEW dl, deleter' = [deleter EXCEPT ![d] = dl], DeleterIs(dl)', Grows,
         StoreInv', UNCHANGED reader
  PROVE  IInv'
<1>1. ReadersInv'
  BY ReadersStay DEF IInv
<1>2. dl \in DeleterRecord
  BY DEF DeleterIs
<1>3. deleter' \in [Deleters -> DeleterRecord] /\ deleter'[d] = dl
      /\ \A q \in Deleters : q # d => deleter'[q] = deleter[q]
  BY <1>2 DEF IInv, DeletersInv
<1>4. ASSUME NEW q \in Deleters PROVE DeleterIs(deleter[q])'
  <2>1. CASE q = d
    BY <1>3, <2>1 DEF DeleterIs
  <2>2. CASE q # d
    <3>1. PICK old : old = deleter[q] /\ DeleterIs(old)
      BY DEF IInv, DeletersInv
    <3>2. DeleterIs(old)' /\ deleter'[q] = old
      BY <1>3, <2>2, <3>1, DeleterStays
    <3> QED BY <3>2 DEF DeleterIs
  <2> QED BY <2>1, <2>2
<1> QED BY <1>1, <1>3, <1>4 DEF IInv, DeletersInv

-----------------------------------------------------------------------------
(* Writers. *)

LEMMA StageGrows ==
  ASSUME NEW s \in Stages, s # {}, s # Whole
  PROVE  s \cup {WriteOrder[Cardinality(s)]} \in Stages /\ s \cup {WriteOrder[Cardinality(s)]} # {}
<1>1. WriteOrder[1] = "verdict" /\ WriteOrder[2] = "evidence" /\ WriteOrder[3] = "manifest"
  BY DEF WriteOrder
<1>2. IsFiniteSet({"."}) /\ Cardinality({"."}) = 1
  BY FS_Singleton
<1>3. IsFiniteSet({".", "verdict"}) /\ Cardinality({".", "verdict"}) = 2
  <2>1. {".", "verdict"} = {"."} \cup {"verdict"} /\ "verdict" \notin {"."}
    OBVIOUS
  <2>2. IsFiniteSet({"."} \cup {"verdict"}) /\ Cardinality({"."} \cup {"verdict"}) = Cardinality({"."}) + 1
    BY <1>2, <2>1, FS_AddElement
  <2> QED BY <1>2, <2>1, <2>2
<1>4. Cardinality({".", "verdict", "evidence"}) = 3
  <2>1. {".", "verdict", "evidence"} = {".", "verdict"} \cup {"evidence"} /\ "evidence" \notin {".", "verdict"}
    OBVIOUS
  <2>2. Cardinality({".", "verdict"} \cup {"evidence"}) = Cardinality({".", "verdict"}) + 1
    BY <1>3, <2>1, FS_AddElement
  <2> QED BY <1>3, <2>1, <2>2
<1>5. CASE s = {"."}
  <2>1. WriteOrder[Cardinality(s)] = "verdict"
    BY <1>1, <1>2, <1>5
  <2> QED BY <1>5, <2>1 DEF Stages
<1>6. CASE s = {".", "verdict"}
  <2>1. WriteOrder[Cardinality(s)] = "evidence"
    BY <1>1, <1>3, <1>6
  <2> QED BY <1>6, <2>1 DEF Stages
<1>7. CASE s = {".", "verdict", "evidence"}
  <2>1. WriteOrder[Cardinality(s)] = "manifest"
    BY <1>1, <1>4, <1>7
  <2> QED BY <1>7, <2>1 DEF Stages, Whole, Files
<1> QED BY <1>5, <1>6, <1>7 DEF Stages

(* Only the staging directory of a run and its writer change. *)
LEMMA StagingMoves ==
  ASSUME IInv, NEW r \in Runs, NEW s \in Stages, staging' = [staging EXCEPT ![r] = s],
         \/ s # {} /\ r \notin published /\ writing' = writing \cup {r}
         \/ s = {} /\ writing' = writing \ {r},
         UNCHANGED <<target, published, Clients>>
  PROVE  IInv'
<1>1. UNCHANGED <<reader, deleter, staged, touched, stops>> /\ Grows
  BY DEF Clients, Grows
<1>2. /\ staging' \in [Runs -> Stages] /\ staging'[r] = s
      /\ \A q \in Runs : q # r => staging'[q] = staging[q]
  BY DEF IInv, StoreInv
<1>3. StoreInv'
  BY <1>1, <1>2 DEF IInv, StoreInv
<1> QED BY <1>1, <1>3, ReadersStay, DeletersStay DEF IInv

LEMMA BeginWriteKeeps == ASSUME IInv, NEW r \in Runs, BeginWrite(r) PROVE IInv'
<1>1. staging' = [staging EXCEPT ![r] = {"."}] /\ writing' = writing \cup {r} /\ r \notin published
      /\ UNCHANGED <<target, published, Clients>>
  BY DEF BeginWrite
<1>2. {"."} \in Stages /\ {"."} # {}
  BY DEF Stages
<1> QED BY <1>1, <1>2, StagingMoves

LEMMA WriteFileKeeps == ASSUME IInv, NEW r \in Runs, WriteFile(r) PROVE IInv'
<1>1. /\ r \in writing /\ staging[r] # Whole /\ writing' = writing
      /\ staging' = [staging EXCEPT ![r] = @ \cup {WriteOrder[Cardinality(@)]}]
      /\ UNCHANGED <<target, published, Clients>>
  BY DEF WriteFile
<1>2. PICK s \in Stages : s = staging[r] /\ s # {} /\ s # Whole
  BY <1>1 DEF IInv, StoreInv
<1>3. PICK next \in Stages : next = s \cup {WriteOrder[Cardinality(s)]} /\ next # {}
  BY <1>2, StageGrows
<1>4. staging' = [staging EXCEPT ![r] = next]
  BY <1>1, <1>2, <1>3
<1>5. r \notin published /\ writing' = writing \cup {r}
  BY <1>1 DEF IInv, StoreInv
<1> QED BY <1>1, <1>3, <1>4, <1>5, StagingMoves

LEMMA FailWriteKeeps == ASSUME IInv, NEW r \in Runs, FailWrite(r) PROVE IInv'
<1>1. staging' = [staging EXCEPT ![r] = {}] /\ writing' = writing \ {r} /\ UNCHANGED <<target, published, Clients>>
  BY DEF FailWrite
<1>2. {} \in Stages
  BY DEF Stages
<1> QED BY <1>1, <1>2, StagingMoves

LEMMA PublishKeeps == ASSUME IInv, NEW r \in Runs, Publish(r) PROVE IInv'
<1>1. /\ r \in writing /\ staging[r] = Whole
      /\ target' = [target EXCEPT ![r] = Whole] /\ staging' = [staging EXCEPT ![r] = {}]
      /\ writing' = writing \ {r} /\ published' = published \cup {r}
      /\ UNCHANGED <<reader, deleter, staged, touched, stops>>
  BY DEF Publish, Clients
<1>2. r \notin published
  BY <1>1 DEF IInv, StoreInv
<1>3. Grows
  BY <1>1, <1>2 DEF Grows, IInv, StoreInv
<1>4. StoreInv'
  <2>1. {} \in Stages /\ Whole \in SUBSET Whole /\ "." \in Whole
    BY DEF Stages, Whole
  <2>2. IsFiniteSet(published')
    BY <1>1, <1>2, FS_AddElement DEF IInv, StoreInv
  <2>3. /\ staging' \in [Runs -> Stages] /\ staging'[r] = {} /\ \A q \in Runs : q # r => staging'[q] = staging[q]
        /\ target' \in [Runs -> SUBSET Whole] /\ target'[r] = Whole /\ \A q \in Runs : q # r => target'[q] = target[q]
    BY <1>1, <2>1 DEF IInv, StoreInv
  <2> QED BY <1>1, <2>1, <2>2, <2>3 DEF IInv, StoreInv
<1> QED BY <1>1, <1>3, <1>4, ReadersStay, DeletersStay DEF IInv

-----------------------------------------------------------------------------
(* Readers. *)

LEMMA ReaderKnows ==
  ASSUME IInv, NEW c \in Readers
  PROVE  reader[c] \in ReaderRecord /\ ReaderIs(reader[c])
BY DEF IInv, ReadersInv

LEMMA ListManifestsKeeps == ASSUME IInv, NEW c \in Readers, ListManifests(c) PROVE IInv'
<1>1. PICK found : found = ({"target"} \X { r \in Runs : "manifest" \in target[r] })
                           \cup ({"staging"} \X { r \in Runs : "manifest" \in staging[r] })
  OBVIOUS
<1>2. /\ reader[c].pc = "idle" /\ reader' = [reader EXCEPT ![c].pc = "listing", ![c].found = found]
      /\ UNCHANGED <<store, deleter, touched, stops, staged>>
  BY <1>1 DEF ListManifests, Reading, Others
<1>3. PICK old \in ReaderRecord : old = reader[c] /\ ReaderIs(old)
  BY ReaderKnows
<1>4. PICK rd : rd = [old EXCEPT !.pc = "listing", !.found = found]
  OBVIOUS
<1>5. found \in SUBSET ({"target", "staging"} \X Runs) /\ \A e \in found : e[1] = "target" => e[2] \in published
  BY <1>1 DEF IInv, StoreInv
<1>6. rd \in ReaderRecord /\ rd.pc = "listing" /\ rd.found = found /\ rd.listed = old.listed /\ rd.next = old.next
  BY <1>3, <1>4, <1>5 DEF ReaderRecord
<1>7. ReaderIs(rd)'
  BY <1>2, <1>3, <1>5, <1>6 DEF ReaderIs, store
<1>8. reader' = [reader EXCEPT ![c] = rd]
  BY <1>2, <1>3, <1>4
<1>9. staged \subseteq staged' /\ staged' \subseteq Runs
  BY <1>2 DEF IInv, StoreInv
<1> QED BY <1>2, <1>7, <1>8, <1>9, ReaderMoves

LEMMA ListEntryKeeps == ASSUME IInv, NEW c \in Readers, ListEntry(c) PROVE IInv'
<1>1. PICK e \in reader[c].found :
       IF {"manifest", "verdict"} \subseteq Directory(e)
       THEN /\ reader' = [reader EXCEPT ![c].found = @ \ {e}, ![c].listed = @ \cup {e[2]}]
            /\ staged' = IF e[1] = "staging" THEN staged \cup {e[2]} ELSE staged
       ELSE reader' = [reader EXCEPT ![c].found = @ \ {e}] /\ UNCHANGED staged
  BY DEF ListEntry
<1>2. reader[c].pc = "listing" /\ UNCHANGED <<store, deleter, touched, stops>>
  BY DEF ListEntry, Reading, Others
<1>3. PICK old \in ReaderRecord : old = reader[c] /\ ReaderIs(old)
  BY ReaderKnows
<1>4. e \in {"target", "staging"} \X Runs /\ (e[1] = "target" => e[2] \in published)
  BY <1>3 DEF ReaderIs, ReaderRecord
<1>5. CASE {"manifest", "verdict"} \subseteq Directory(e)
  <2>1. PICK rd : rd = [old EXCEPT !.found = @ \ {e}, !.listed = @ \cup {e[2]}]
    OBVIOUS
  <2>2. /\ rd \in ReaderRecord /\ rd.pc = "listing" /\ rd.found = old.found \ {e}
        /\ rd.listed = old.listed \cup {e[2]} /\ rd.next = old.next
    BY <1>2, <1>3, <1>4, <2>1 DEF ReaderRecord
  <2>3. staged \subseteq staged' /\ staged' \subseteq Runs /\ (e[1] = "staging" => e[2] \in staged')
    BY <1>1, <1>4, <1>5 DEF IInv, StoreInv
  <2>4. e[2] \in staged' \cup published
    BY <1>4, <2>3
  <2>5. ReaderIs(rd)'
    BY <1>2, <1>3, <2>2, <2>3, <2>4 DEF ReaderIs, store
  <2>6. reader' = [reader EXCEPT ![c] = rd]
    BY <1>1, <1>3, <1>5, <2>1
  <2> QED BY <1>2, <2>3, <2>5, <2>6, ReaderMoves
<1>6. CASE ~({"manifest", "verdict"} \subseteq Directory(e))
  <2>1. PICK rd : rd = [old EXCEPT !.found = @ \ {e}]
    OBVIOUS
  <2>2. /\ rd \in ReaderRecord /\ rd.pc = "listing" /\ rd.found = old.found \ {e}
        /\ rd.listed = old.listed /\ rd.next = old.next
    BY <1>2, <1>3, <2>1 DEF ReaderRecord
  <2>3. staged' = staged
    BY <1>1, <1>6
  <2>4. ReaderIs(rd)'
    BY <1>2, <1>3, <2>2, <2>3 DEF ReaderIs, store
  <2>5. reader' = [reader EXCEPT ![c] = rd]
    BY <1>1, <1>3, <1>6, <2>1
  <2>6. staged \subseteq staged' /\ staged' \subseteq Runs
    BY <2>3 DEF IInv, StoreInv
  <2> QED BY <1>2, <2>4, <2>5, <2>6, ReaderMoves
<1> QED BY <1>5, <1>6

LEMMA OpenListedKeeps == ASSUME IInv, NEW c \in Readers, OpenListed(c) PROVE IInv'
<1>1. PICK r \in reader[c].listed : reader' = [reader EXCEPT ![c].pc = "reading", ![c].run = r]
  BY DEF OpenListed
<1>2. reader[c].pc = "listing" /\ UNCHANGED <<store, deleter, touched, stops, staged>>
  BY DEF OpenListed, Reading, Others
<1>3. PICK old \in ReaderRecord : old = reader[c] /\ ReaderIs(old)
  BY ReaderKnows
<1>4. PICK rd : rd = [old EXCEPT !.pc = "reading", !.run = r]
  OBVIOUS
<1>5. /\ rd \in ReaderRecord /\ rd.pc = "reading" /\ rd.found = old.found /\ rd.listed = old.listed
      /\ rd.next = 1 /\ rd.run = r /\ r \in rd.listed
  BY <1>1, <1>2, <1>3, <1>4 DEF ReaderRecord, ReaderIs
<1>6. ReaderIs(rd)'
  BY <1>2, <1>3, <1>5 DEF ReaderIs, store
<1>7. reader' = [reader EXCEPT ![c] = rd]
  BY <1>1, <1>3, <1>4
<1>8. staged \subseteq staged' /\ staged' \subseteq Runs
  BY <1>2 DEF IInv, StoreInv
<1> QED BY <1>2, <1>6, <1>7, <1>8, ReaderMoves

LEMMA ReadFileKeeps == ASSUME IInv, NEW c \in Readers, ReadFile(c) PROVE IInv'
<1>1. PICK old \in ReaderRecord : old = reader[c] /\ ReaderIs(old)
  BY ReaderKnows
<1>2. PICK dir : dir = target[old.run]
  OBVIOUS
<1>3. PICK f : f = ReadOrder[old.next]
  OBVIOUS
<1>4. PICK w \in BOOLEAN : w = TRUE <=> old.whole = TRUE \/ dir = Whole
  BY Zenon
<1>16. PICK pc : pc = IF f \notin dir THEN "missing" ELSE IF old.next = 3 THEN "opened" ELSE "reading"
  OBVIOUS
<1>17. PICK n : n = IF f \in dir THEN old.next + 1 ELSE old.next
  OBVIOUS
<1>5. PICK rd : rd = [old EXCEPT !.pc = pc, !.next = n, !.whole = w]
  OBVIOUS
<1>6. old.pc = "reading" /\ UNCHANGED <<store, deleter, touched, stops, staged>>
  BY <1>1 DEF ReadFile, Reading, Others
<1>7. reader' = [reader EXCEPT ![c] = rd]
  <2>1. old.whole \in BOOLEAN
    BY <1>1 DEF ReaderRecord
  <2>2. w = (old.whole \/ dir = Whole)
    BY <1>4, <2>1, Zenon
  <2>3. Len(ReadOrder) = 3
    BY DEF ReadOrder
  <2>4. Found(c) <=> f \in dir
    BY <1>1, <1>2, <1>3 DEF Found, NextFile
  <2>5. reader' = [reader EXCEPT ![c].pc = pc, ![c].next = n, ![c].whole = w]
    <3>1. reader' = [reader EXCEPT
            ![c].pc = IF ~Found(c) THEN "missing" ELSE IF reader[c].next = Len(ReadOrder) THEN "opened" ELSE "reading",
            ![c].next = IF Found(c) THEN @ + 1 ELSE @,
            ![c].whole = @ \/ target[reader[c].run] = Whole]
      BY DEF ReadFile
    <3>2. pc = IF ~Found(c) THEN "missing" ELSE IF reader[c].next = Len(ReadOrder) THEN "opened" ELSE "reading"
      BY <1>1, <1>16, <2>3, <2>4
    <3>3. n = IF Found(c) THEN reader[c].next + 1 ELSE reader[c].next
      BY <1>1, <1>17, <2>4
    <3>4. w = (reader[c].whole \/ target[reader[c].run] = Whole)
      BY <1>1, <1>2, <2>2
    <3>5. reader' = [reader EXCEPT ![c] = [reader[c] EXCEPT !.pc = pc, !.next = n, !.whole = w]]
      BY ONLY <3>1, <3>2, <3>3, <3>4
    <3> QED BY <3>5
  <2> QED BY <1>1, <1>5, <2>5
<1>8. /\ old.next \in 1..3 /\ old.run \in Runs /\ old.run \in old.listed /\ old.run \in staged \cup published
      /\ (old.next # 1 => old.run \in published)
  BY <1>1, <1>6 DEF ReaderIs, ReaderRecord
<1>9. /\ old.next = 1 => f = "manifest"
      /\ old.next = 2 => f = "verdict"
      /\ old.next = 3 => f = "evidence"
  BY <1>3 DEF ReadOrder
<1>10. dir \in SUBSET Whole /\ (dir # {} => "." \in dir /\ old.run \in published)
       /\ (old.run \in published \ touched => dir = Whole)
  BY <1>2, <1>8 DEF IInv, StoreInv
<1>11. f \in Whole
  BY <1>8, <1>9 DEF Whole, Files
<1>12. /\ rd \in ReaderRecord /\ rd.found = old.found /\ rd.listed = old.listed /\ rd.run = old.run /\ rd.whole = w
       /\ rd.pc = pc /\ rd.next = n
  <2>1. n \in 1..4
    BY <1>8, <1>17
  <2>2. pc \in {"missing", "opened", "reading"}
    BY <1>16
  <2> QED BY <1>1, <1>5, <2>1, <2>2 DEF ReaderRecord
<1>13. ReaderIs(rd)
  <2>1. CASE f \notin dir
    <3>1. old.run \in staged \cup touched
      BY <1>8, <1>10, <1>11, <2>1
    <3>2. rd.pc = "missing"
      BY <1>12, <1>16, <2>1
    <3> QED BY <1>1, <1>8, <1>12, <3>1, <3>2 DEF ReaderIs
  <2>2. CASE f \in dir /\ old.next = 1
    <3>1. old.run \in published /\ "manifest" \in dir /\ "." \in dir
      BY <1>9, <1>10, <2>2
    <3>2. {"verdict", "evidence"} \subseteq dir => dir = Whole
      BY <1>10, <3>1 DEF Whole, Files
    <3>3. w # TRUE => ~({"verdict", "evidence"} \subseteq dir)
      BY <1>4, <3>2, Zenon
    <3>4. rd.pc = "reading" /\ rd.next = 2
      BY <1>12, <1>16, <1>17, <2>2
    <3>5. rd.whole # TRUE => ~({"verdict", "evidence"} \subseteq target[rd.run])
      BY <1>2, <1>12, <3>3, Zenon
    <3>6. rd.pc = "reading" => rd.next \in 1..3 /\ (rd.next # 1 => rd.run \in published)
      BY <1>12, <3>1, <3>4
    <3>7. rd.pc = "reading" /\ rd.whole # TRUE =>
            /\ rd.next = 2 => ~({"verdict", "evidence"} \subseteq target[rd.run])
            /\ rd.next = 3 => "evidence" \notin target[rd.run]
      <4>1. rd.next # 3
        BY <3>4
      <4> QED BY <3>5, <4>1, Zenon
    <3>8. rd.pc \notin {"idle", "listing", "opened", "missing"}
      BY <3>4
    <3>9. rd.listed \subseteq staged \cup published /\ rd.run \in rd.listed /\ rd \in ReaderRecord
          /\ \A e \in rd.found : e[1] = "target" => e[2] \in published
      BY <1>1, <1>8, <1>12 DEF ReaderIs
    <3> QED BY <3>6, <3>7, <3>8, <3>9, Zenon DEF ReaderIs
  <2>3. CASE f \in dir /\ old.next = 2
    <3>1. w # TRUE => old.whole # TRUE
      BY <1>4, Zenon
    <3>2. w # TRUE => "evidence" \notin dir
      BY <1>1, <1>2, <1>6, <1>9, <2>3, <3>1 DEF ReaderIs
    <3>3. rd.pc = "reading" /\ rd.next = 3 /\ old.run \in published
      BY <1>8, <1>12, <1>16, <1>17, <2>3
    <3>4. rd.whole # TRUE => "evidence" \notin target[rd.run]
      BY <1>2, <1>12, <3>2, Zenon
    <3>6. rd.pc = "reading" => rd.next \in 1..3 /\ (rd.next # 1 => rd.run \in published)
      BY <1>12, <3>3
    <3>7. rd.pc = "reading" /\ rd.whole # TRUE =>
            /\ rd.next = 2 => ~({"verdict", "evidence"} \subseteq target[rd.run])
            /\ rd.next = 3 => "evidence" \notin target[rd.run]
      <4>1. rd.next # 2
        BY <3>3
      <4> QED BY <3>4, <4>1, Zenon
    <3>8. rd.pc \notin {"idle", "listing", "opened", "missing"}
      BY <3>3
    <3>9. rd.listed \subseteq staged \cup published /\ rd.run \in rd.listed /\ rd \in ReaderRecord
          /\ \A e \in rd.found : e[1] = "target" => e[2] \in published
      BY <1>1, <1>8, <1>12 DEF ReaderIs
    <3> QED BY <3>6, <3>7, <3>8, <3>9, Zenon DEF ReaderIs
  <2>4. CASE f \in dir /\ old.next = 3
    <3>1. old.whole = TRUE
      BY <1>1, <1>2, <1>6, <1>9, <2>4 DEF ReaderIs
    <3>2. w = TRUE
      BY <1>4, <3>1, Zenon
    <3>3. rd.pc = "opened"
      BY <1>12, <1>16, <2>4
    <3> QED BY <1>1, <1>8, <1>12, <3>2, <3>3 DEF ReaderIs
  <2> QED BY <1>8, <2>1, <2>2, <2>3, <2>4
<1>14. ReaderIs(rd)'
  BY <1>6, <1>13 DEF ReaderIs, store
<1>15. staged \subseteq staged' /\ staged' \subseteq Runs
  BY <1>6 DEF IInv, StoreInv
<1> QED BY <1>6, <1>7, <1>14, <1>15, ReaderMoves

-----------------------------------------------------------------------------
(* DELETE requests. *)

LEMMA DeleterKnows ==
  ASSUME IInv, NEW d \in Deleters
  PROVE  /\ deleter[d] \in DeleterRecord /\ DeleterIs(deleter[d])
         /\ Cardinality(deleter[d].saw) \in Nat /\ Cardinality(deleter[d].todo) \in Nat
         /\ IsFiniteSet(deleter[d].todo)
<1>1. deleter[d] \in DeleterRecord /\ DeleterIs(deleter[d])
  BY DEF IInv, DeletersInv
<1>2. IsFiniteSet(deleter[d].saw) /\ IsFiniteSet(deleter[d].todo)
  BY <1>1, FS_Subset DEF IInv, StoreInv, DeleterIs
<1> QED BY <1>1, <1>2, FS_CardinalityType

(* The store changes at most in what it has been told to delete. *)
LEMMA StoreStays ==
  ASSUME IInv, UNCHANGED <<Rest, target>>, touched \subseteq touched', touched' \subseteq published
  PROVE  StoreInv' /\ Grows /\ UNCHANGED <<reader, published>>
BY DEF IInv, StoreInv, Grows, Rest

LEMMA StartClearKeeps == ASSUME IInv, NEW d \in Deleters, StartClear(d) PROVE IInv'
<1>1. PICK found : found = { r \in Runs : target[r] # {} }
  OBVIOUS
<1>2. /\ deleter[d].pc = "idle" /\ UNCHANGED <<Rest, target, touched>>
      /\ deleter' = [deleter EXCEPT ![d].pc = "next", ![d].todo = found, ![d].saw = found]
  BY <1>1 DEF StartClear, Deleting
<1>3. PICK old \in DeleterRecord : old = deleter[d] /\ DeleterIs(old)
  BY DeleterKnows
<1>4. PICK dl : dl = [old EXCEPT !.pc = "next", !.todo = found, !.saw = found]
  OBVIOUS
<1>5. found \subseteq published /\ found \subseteq Runs
  BY <1>1 DEF IInv, StoreInv
<1>6. /\ dl \in DeleterRecord /\ dl.pc = "next" /\ dl.todo = found /\ dl.saw = found
      /\ dl.count = old.count
  BY <1>3, <1>4, <1>5 DEF DeleterRecord
<1>7. Cardinality(found) \in Nat
  BY <1>5, FS_Subset, FS_CardinalityType DEF IInv, StoreInv
<1>8. DeleterIs(dl)
  <2>1. old.count = 0
    BY <1>2, <1>3 DEF DeleterIs
  <2>2. Working(dl) = 0
    BY <1>6 DEF Working
  <2>3. dl.count + Cardinality(dl.todo) + Working(dl) <= Cardinality(dl.saw)
    BY <1>6, <1>7, <2>1, <2>2
  <2> QED BY <1>5, <1>6, <2>3 DEF DeleterIs
<1>9. StoreInv' /\ Grows /\ UNCHANGED reader
  BY <1>2, StoreStays DEF IInv, StoreInv
<1>10. DeleterIs(dl)'
  BY <1>8, <1>9, DeleterStays
<1>11. deleter' = [deleter EXCEPT ![d] = dl]
  BY <1>2, <1>3, <1>4
<1> QED BY <1>9, <1>10, <1>11, DeleterMoves

LEMMA CheckManifestKeeps == ASSUME IInv, NEW d \in Deleters, CheckManifest(d) PROVE IInv'
<1>1. PICK r \in deleter[d].todo :
       deleter' = IF "manifest" \in target[r]
                  THEN [deleter EXCEPT ![d].todo = @ \ {r}, ![d].pc = "scan", ![d].run = r]
                  ELSE [deleter EXCEPT ![d].todo = @ \ {r}]
  BY DEF CheckManifest
<1>2. deleter[d].pc = "next" /\ UNCHANGED <<Rest, target, touched>>
  BY DEF CheckManifest, Deleting
<1>3. PICK old \in DeleterRecord : old = deleter[d] /\ DeleterIs(old)
  BY DeleterKnows
<1>4. /\ Cardinality(old.saw) \in Nat /\ Cardinality(old.todo) \in Nat /\ old.count \in Nat
      /\ Cardinality(old.todo \ {r}) = Cardinality(old.todo) - 1
  BY <1>1, <1>3, DeleterKnows, FS_RemoveElement DEF DeleterRecord
<1>5. old.count + Cardinality(old.todo) <= Cardinality(old.saw)
  <2>1. Working(old) = 0
    BY <1>2, <1>3 DEF Working
  <2> QED BY <1>3, <1>4, <2>1 DEF DeleterIs
<1>6. r \in Runs /\ r \in published
  BY <1>1, <1>3 DEF DeleterIs, DeleterRecord
<1>7. StoreInv' /\ Grows /\ UNCHANGED reader
  BY <1>2, StoreStays DEF IInv, StoreInv
<1>8. CASE "manifest" \in target[r]
  <2>1. PICK dl : dl = [old EXCEPT !.todo = @ \ {r}, !.pc = "scan", !.run = r]
    OBVIOUS
  <2>2. /\ dl \in DeleterRecord /\ dl.pc = "scan" /\ dl.todo = old.todo \ {r} /\ dl.saw = old.saw
        /\ dl.count = old.count /\ dl.run = r
    BY <1>3, <1>6, <2>1 DEF DeleterRecord
  <2>3. Working(dl) = 1
    BY <2>2 DEF Working
  <2>4. dl.count + Cardinality(dl.todo) + Working(dl) <= Cardinality(dl.saw)
    BY <1>4, <1>5, <2>2, <2>3
  <2>5. DeleterIs(dl)
    BY <1>3, <1>6, <2>2, <2>4 DEF DeleterIs
  <2>6. deleter' = [deleter EXCEPT ![d] = dl]
    BY <1>1, <1>3, <1>8, <2>1
  <2> QED BY <1>7, <2>5, <2>6, DeleterStays, DeleterMoves
<1>9. CASE "manifest" \notin target[r]
  <2>1. PICK dl : dl = [old EXCEPT !.todo = @ \ {r}]
    OBVIOUS
  <2>2. /\ dl \in DeleterRecord /\ dl.pc = "next" /\ dl.todo = old.todo \ {r} /\ dl.saw = old.saw
        /\ dl.count = old.count
    BY <1>2, <1>3, <2>1 DEF DeleterRecord
  <2>3. Working(dl) = 0
    BY <2>2 DEF Working
  <2>4. dl.count + Cardinality(dl.todo) + Working(dl) <= Cardinality(dl.saw)
    BY <1>4, <1>5, <2>2, <2>3
  <2>5. DeleterIs(dl)
    BY <1>3, <2>2, <2>4 DEF DeleterIs
  <2>6. deleter' = [deleter EXCEPT ![d] = dl]
    BY <1>1, <1>3, <1>9, <2>1
  <2> QED BY <1>7, <2>5, <2>6, DeleterStays, DeleterMoves
<1> QED BY <1>8, <1>9

(* A request that goes on with less to do, or stops. *)
LEMMA Settles ==
  ASSUME NEW old, NEW dl, DeleterIs(old), dl \in DeleterRecord, dl.todo = old.todo, dl.saw = old.saw,
         dl.count = old.count, dl.pc \in {"done", "failed"},
         Cardinality(old.saw) \in Nat, Cardinality(old.todo) \in Nat
  PROVE  DeleterIs(dl)
<1>1. Working(dl) = 0 /\ Working(old) \in {0, 1}
  BY DEF Working
<1>2. dl.count \in Nat
  BY DEF DeleterRecord
<1>3. dl.count + Cardinality(dl.todo) + Working(dl) <= Cardinality(dl.saw)
  BY <1>1, <1>2 DEF DeleterIs
<1> QED BY <1>3 DEF DeleterIs

LEMMA RaiseKeeps ==
  ASSUME IInv, NEW d \in Deleters, Raise(d), UNCHANGED <<Rest, target>>, touched \subseteq touched', touched' \subseteq published
  PROVE  IInv'
<1>1. deleter' = [deleter EXCEPT ![d].pc = "failed"]
  BY DEF Raise
<1>2. PICK old \in DeleterRecord : old = deleter[d] /\ DeleterIs(old)
  BY DeleterKnows
<1>3. PICK dl : dl = [old EXCEPT !.pc = "failed"]
  OBVIOUS
<1>4. dl \in DeleterRecord /\ dl.pc = "failed" /\ dl.todo = old.todo /\ dl.saw = old.saw /\ dl.count = old.count
  BY <1>2, <1>3 DEF DeleterRecord
<1>5. DeleterIs(dl)
  BY <1>2, <1>4, DeleterKnows, Settles
<1>6. StoreInv' /\ Grows /\ UNCHANGED reader
  BY StoreStays
<1>7. deleter' = [deleter EXCEPT ![d] = dl]
  BY <1>1, <1>2, <1>3
<1> QED BY <1>5, <1>6, <1>7, DeleterStays, DeleterMoves

LEMMA FinishClearKeeps == ASSUME IInv, NEW d \in Deleters, FinishClear(d) PROVE IInv'
<1>1. deleter' = [deleter EXCEPT ![d].pc = "done"] /\ UNCHANGED <<Rest, target, touched>>
  BY DEF FinishClear
<1>2. PICK old \in DeleterRecord : old = deleter[d] /\ DeleterIs(old)
  BY DeleterKnows
<1>3. PICK dl : dl = [old EXCEPT !.pc = "done"]
  OBVIOUS
<1>4. dl \in DeleterRecord /\ dl.pc = "done" /\ dl.todo = old.todo /\ dl.saw = old.saw /\ dl.count = old.count
  BY <1>2, <1>3 DEF DeleterRecord
<1>5. DeleterIs(dl)
  BY <1>2, <1>4, DeleterKnows, Settles
<1>6. StoreInv' /\ Grows /\ UNCHANGED reader
  BY <1>1, StoreStays DEF IInv, StoreInv
<1>7. deleter' = [deleter EXCEPT ![d] = dl]
  BY <1>1, <1>2, <1>3
<1> QED BY <1>5, <1>6, <1>7, DeleterStays, DeleterMoves

LEMMA ScanKeeps == ASSUME IInv, NEW d \in Deleters, Scan(d) PROVE IInv'
<1>1. PICK old \in DeleterRecord : old = deleter[d] /\ DeleterIs(old)
  BY DeleterKnows
<1>2. /\ old.pc = "scan" /\ UNCHANGED <<Rest, target>> /\ touched' = touched \cup {old.run}
      /\ IF target[old.run] = {} THEN Raise(d)
         ELSE deleter' = [deleter EXCEPT ![d].pc = "unlink", ![d].entries = target[old.run] \ {"."}]
  BY <1>1 DEF Scan, Deleting, Current
<1>3. old.run \in published /\ old.run \in Runs
  BY <1>1, <1>2 DEF DeleterIs, IInv, StoreInv
<1>4. touched \subseteq touched' /\ touched' \subseteq published
  BY <1>2, <1>3 DEF IInv, StoreInv
<1>5. CASE target[old.run] = {}
  BY <1>2, <1>4, <1>5, RaiseKeeps
<1>6. CASE target[old.run] # {}
  <2>1. PICK entries : entries = target[old.run] \ {"."}
    OBVIOUS
  <2>2. PICK dl : dl = [old EXCEPT !.pc = "unlink", !.entries = entries]
    OBVIOUS
  <2>3. entries \subseteq Files
    BY <1>3, <2>1 DEF IInv, StoreInv, Whole
  <2>4. /\ dl \in DeleterRecord /\ dl.pc = "unlink" /\ dl.todo = old.todo /\ dl.saw = old.saw /\ dl.count = old.count
        /\ dl.run = old.run
    BY <1>1, <2>2, <2>3 DEF DeleterRecord
  <2>5. Working(dl) = Working(old)
    BY <1>2, <2>4 DEF Working
  <2>6. StoreInv' /\ Grows /\ UNCHANGED <<reader, published>>
    BY <1>2, <1>4, StoreStays
  <2>7. DeleterIs(dl)'
    <3>1. dl.count + Cardinality(dl.todo) + Working(dl) <= Cardinality(dl.saw)
      BY <1>1, <2>4, <2>5 DEF DeleterIs
    <3> QED BY <1>1, <1>2, <1>3, <2>4, <2>6, <3>1 DEF DeleterIs
  <2>8. deleter' = [deleter EXCEPT ![d] = dl]
    BY <1>1, <1>2, <1>6, <2>1, <2>2
  <2> QED BY <2>6, <2>7, <2>8, DeleterMoves
<1> QED BY <1>5, <1>6

(* A touched directory loses a file. *)
LEMMA FileGoes ==
  ASSUME IInv, NEW r \in touched, NEW dir \in SUBSET Whole, dir \subseteq target[r], dir = {} \/ "." \in dir,
         target' = [target EXCEPT ![r] = dir], UNCHANGED <<Rest, touched>>
  PROVE  StoreInv' /\ Grows /\ UNCHANGED <<reader, published>>
<1>1. r \in Runs /\ r \in published
  BY DEF IInv, StoreInv
<1>2. target' \in [Runs -> SUBSET Whole] /\ target'[r] = dir /\ \A q \in Runs : q # r => target'[q] = target[q]
  BY <1>1 DEF IInv, StoreInv
<1>3. UNCHANGED <<staging, writing, published, reader, staged, stops, touched>>
  BY DEF Rest
<1>4. StoreInv'
  BY <1>1, <1>2, <1>3 DEF IInv, StoreInv
<1>5. Grows
  BY <1>2, <1>3 DEF IInv, StoreInv, Grows
<1> QED BY <1>3, <1>4, <1>5

LEMMA UnlinkKeeps == ASSUME IInv, NEW d \in Deleters, Unlink(d) PROVE IInv'
<1>1. PICK old \in DeleterRecord : old = deleter[d] /\ DeleterIs(old)
  BY DeleterKnows
<1>2. old.pc = "unlink" /\ UNCHANGED <<Rest, touched>>
  BY <1>1 DEF Unlink, Deleting
<1>3. PICK f \in old.entries :
        LET goOn == deleter' = [deleter EXCEPT ![d].entries = @ \ {f}]
        IN IF f \in target[old.run] THEN target' = [target EXCEPT ![old.run] = @ \ {f}] /\ goOn
                                    ELSE (Raise(d) \/ goOn) /\ UNCHANGED target
  BY <1>1 DEF Unlink, Current
<1>4. old.run \in touched /\ old.run \in Runs /\ f \in Files /\ f # "."
  BY <1>1, <1>2, <1>3 DEF DeleterIs, DeleterRecord, IInv, StoreInv, Files
<1>5. ASSUME deleter' = [deleter EXCEPT ![d].entries = @ \ {f}], Grows, StoreInv', UNCHANGED <<reader, published>>
      PROVE  IInv'
  <2>1. PICK dl : dl = [old EXCEPT !.entries = @ \ {f}]
    OBVIOUS
  <2>2. /\ dl \in DeleterRecord /\ dl.pc = old.pc /\ dl.todo = old.todo /\ dl.saw = old.saw /\ dl.count = old.count
        /\ dl.run = old.run
    BY <1>1, <2>1 DEF DeleterRecord
  <2>3. Working(dl) = Working(old)
    BY <2>2 DEF Working
  <2>4. DeleterIs(dl)
    BY <1>1, <2>2, <2>3 DEF DeleterIs
  <2>5. deleter' = [deleter EXCEPT ![d] = dl]
    BY <1>1, <1>5, <2>1
  <2> QED BY <1>5, <2>4, <2>5, DeleterStays, DeleterMoves
<1>6. CASE f \in target[old.run]
  <2>1. target' = [target EXCEPT ![old.run] = @ \ {f}] /\ deleter' = [deleter EXCEPT ![d].entries = @ \ {f}]
    BY <1>3, <1>6
  <2>2. target[old.run] \in SUBSET Whole /\ target[old.run] # {}
    BY <1>4, <1>6 DEF IInv, StoreInv
  <2>3. "." \in target[old.run]
    BY <1>4, <2>2 DEF IInv, StoreInv
  <2>4. PICK dir : dir = target[old.run] \ {f}
    OBVIOUS
  <2>5. dir \in SUBSET Whole /\ dir \subseteq target[old.run] /\ "." \in dir
    BY <1>4, <2>2, <2>3, <2>4
  <2>6. target' = [target EXCEPT ![old.run] = dir]
    BY <2>1, <2>4
  <2>7. StoreInv' /\ Grows /\ UNCHANGED <<reader, published>>
    BY <1>2, <1>4, <2>5, <2>6, FileGoes
  <2> QED BY <1>5, <2>1, <2>7
<1>7. CASE f \notin target[old.run]
  <2>1. (Raise(d) \/ deleter' = [deleter EXCEPT ![d].entries = @ \ {f}]) /\ UNCHANGED target
    BY <1>3, <1>7
  <2>2. touched \subseteq touched' /\ touched' \subseteq published
    BY <1>2 DEF IInv, StoreInv
  <2>3. StoreInv' /\ Grows /\ UNCHANGED <<reader, published>>
    BY <1>2, <2>1, <2>2, StoreStays
  <2> QED BY <1>2, <1>5, <2>1, <2>2, <2>3, RaiseKeeps
<1> QED BY <1>6, <1>7

LEMMA RmdirKeeps == ASSUME IInv, NEW d \in Deleters, Rmdir(d) PROVE IInv'
<1>1. PICK old \in DeleterRecord : old = deleter[d] /\ DeleterIs(old)
  BY DeleterKnows
<1>2. /\ old.pc = "unlink" /\ UNCHANGED <<Rest, touched>>
      /\ IF target[old.run] = {"."} THEN Counted(d) /\ target' = [target EXCEPT ![old.run] = {}]
                                    ELSE Raise(d) /\ UNCHANGED target
  BY <1>1 DEF Rmdir, Deleting, Current
<1>3. CASE target[old.run] = {"."}
  <2>1. target' = [target EXCEPT ![old.run] = {}] /\ deleter' = [deleter EXCEPT ![d].pc = "next", ![d].count = @ + 1]
    BY <1>2, <1>3 DEF Counted
  <2>2. PICK dl : dl = [old EXCEPT !.pc = "next", !.count = @ + 1]
    OBVIOUS
  <2>3. old.count \in Nat /\ Cardinality(old.todo) \in Nat
    BY <1>1, DeleterKnows DEF DeleterRecord
  <2>9. PICK n \in Nat : n = old.count + 1
    BY <2>3
  <2>10. dl = [old EXCEPT !.pc = "next", !.count = n]
    BY <2>2, <2>9
  <2>11. dl \in DeleterRecord /\ dl.pc = "next" /\ dl.todo = old.todo /\ dl.saw = old.saw /\ dl.count = n
    BY <1>1, <2>10 DEF DeleterRecord
  <2>4. /\ dl \in DeleterRecord /\ dl.pc = "next" /\ dl.todo = old.todo /\ dl.saw = old.saw /\ dl.count = old.count + 1
    BY <2>9, <2>11
  <2>5. DeleterIs(dl)
    <3>1. Working(dl) = 0 /\ Working(old) = 1
      BY <1>2, <2>4 DEF Working
    <3>2. old.count + Cardinality(old.todo) + 1 <= Cardinality(old.saw)
      BY <1>1, <3>1 DEF DeleterIs
    <3>3. dl.count + Cardinality(dl.todo) + Working(dl) <= Cardinality(dl.saw)
      BY <2>3, <2>4, <3>1, <3>2
    <3> QED BY <1>1, <2>4, <3>3 DEF DeleterIs
  <2>6. old.run \in touched
    BY <1>1, <1>2 DEF DeleterIs
  <2>7. StoreInv' /\ Grows /\ UNCHANGED <<reader, published>>
    <3>1. {} \in SUBSET Whole /\ {} \subseteq target[old.run]
      OBVIOUS
    <3> QED BY <1>2, <2>1, <2>6, <3>1, FileGoes
  <2>8. deleter' = [deleter EXCEPT ![d] = dl]
    BY <1>1, <2>1, <2>2
  <2> QED BY <2>5, <2>7, <2>8, DeleterStays, DeleterMoves
<1>4. CASE target[old.run] # {"."}
  <2>1. touched \subseteq touched' /\ touched' \subseteq published
    BY <1>2 DEF IInv, StoreInv
  <2> QED BY <1>2, <1>4, <2>1, RaiseKeeps
<1> QED BY <1>3, <1>4

-----------------------------------------------------------------------------
(* The end of the process. *)

LEMMA KilledIs ==
  ASSUME NEW dl \in DeleterRecord, DeleterIs(dl), Cardinality(dl.saw) \in Nat, Cardinality(dl.todo) \in Nat,
         NEW dead, dead = [dl EXCEPT !.pc = "killed"]
  PROVE  DeleterIs(dead)
<1>1. /\ dead \in DeleterRecord /\ dead.pc = "killed" /\ dead.todo = dl.todo /\ dead.saw = dl.saw
      /\ dead.count = dl.count
  BY DEF DeleterRecord
<1>2. Working(dead) = 0 /\ Working(dl) \in {0, 1} /\ dl.count \in Nat
  BY <1>1 DEF Working, DeleterRecord
<1>3. dead.count + Cardinality(dead.todo) + Working(dead) <= Cardinality(dead.saw)
  BY <1>1, <1>2 DEF DeleterIs
<1> QED BY <1>1, <1>3 DEF DeleterIs

LEMMA NoReaderIs == ReaderIs(NoReader)
<1>1. FALSE \in BOOLEAN
  BY Zenon
<1>2. NoReader \in ReaderRecord
  BY <1>1 DEF NoReader, ReaderRecord
<1> QED BY <1>2 DEF ReaderIs, NoReader

LEMMA StopKeeps == ASSUME IInv, Stop PROVE IInv'
<1>1. /\ stops < MaxStops /\ stops' = stops + 1 /\ writing' = {}
      /\ UNCHANGED <<staging, target, published, staged, touched>>
  BY DEF Stop
<1>2. Grows
  BY <1>1 DEF Grows
<1>3. StoreInv'
  <2>1. stops' \in 0..MaxStops /\ stops' > 0
    BY <1>1, RunStoreAssumption DEF IInv, StoreInv
  <2> QED BY <1>1, <2>1 DEF IInv, StoreInv
<1>4. ReadersInv'
  <2>2. ASSUME NEW c \in Readers, NEW rd,
               rd = IF reader[c].pc \in {"listing", "reading"} THEN NoReader ELSE reader[c]
        PROVE  ReaderIs(rd)' /\ rd \in ReaderRecord
    <3>1. PICK old : old = reader[c] /\ ReaderIs(old)
      BY DEF IInv, ReadersInv
    <3>2. ReaderIs(rd)
      BY <2>2, <3>1, NoReaderIs
    <3> QED BY <1>2, <3>2, ReaderStays DEF ReaderIs
  <2>3. reader' = [c \in Readers |-> IF reader[c].pc \in {"listing", "reading"} THEN NoReader ELSE reader[c]]
    BY DEF Stop
  <2>4. reader' \in [Readers -> ReaderRecord]
    BY <2>2, <2>3
  <2>5. ASSUME NEW c \in Readers PROVE ReaderIs(reader[c])'
    <3>1. PICK rd : rd = IF reader[c].pc \in {"listing", "reading"} THEN NoReader ELSE reader[c]
      OBVIOUS
    <3>2. ReaderIs(rd)' /\ reader'[c] = rd
      BY <2>2, <2>3, <3>1
    <3> QED BY <3>2 DEF ReaderIs
  <2> QED BY <2>4, <2>5 DEF ReadersInv
<1>5. DeletersInv'
  <2>1. ASSUME NEW d \in Deleters, NEW dl,
               dl = IF deleter[d].pc \in {"next", "scan", "unlink"}
                    THEN [deleter[d] EXCEPT !.pc = "killed"] ELSE deleter[d]
        PROVE  DeleterIs(dl)' /\ dl \in DeleterRecord
    <3>1. PICK old \in DeleterRecord : old = deleter[d] /\ DeleterIs(old)
      BY DeleterKnows
    <3>2. DeleterIs(dl)
      BY <2>1, <3>1, DeleterKnows, KilledIs
    <3> QED BY <1>2, <3>2, DeleterStays DEF DeleterIs
  <2>2. deleter' = [d \in Deleters |-> IF deleter[d].pc \in {"next", "scan", "unlink"}
                                      THEN [deleter[d] EXCEPT !.pc = "killed"] ELSE deleter[d]]
    BY DEF Stop
  <2>3. deleter' \in [Deleters -> DeleterRecord]
    BY <2>1, <2>2
  <2>4. ASSUME NEW d \in Deleters PROVE DeleterIs(deleter[d])'
    <3>1. PICK dl : dl = IF deleter[d].pc \in {"next", "scan", "unlink"}
                         THEN [deleter[d] EXCEPT !.pc = "killed"] ELSE deleter[d]
      OBVIOUS
    <3>2. DeleterIs(dl)' /\ deleter'[d] = dl
      BY <2>1, <2>2, <3>1
    <3> QED BY <3>2 DEF DeleterIs
  <2> QED BY <2>3, <2>4 DEF DeletersInv
<1> QED BY <1>3, <1>4, <1>5 DEF IInv

LEMMA InvNext == IInv /\ [Next]_vars => IInv'
<1> SUFFICES ASSUME IInv, [Next]_vars PROVE IInv'
  OBVIOUS
<1>1. ASSUME NEW r \in Runs, BeginWrite(r) \/ WriteFile(r) \/ Publish(r) \/ FailWrite(r) PROVE IInv'
  BY <1>1, BeginWriteKeeps, WriteFileKeeps, PublishKeeps, FailWriteKeeps
<1>2. ASSUME NEW c \in Readers, Reader(c) PROVE IInv'
  BY <1>2, ListManifestsKeeps, ListEntryKeeps, OpenListedKeeps, ReadFileKeeps DEF Reader
<1>3. ASSUME NEW d \in Deleters, Deleter(d) PROVE IInv'
  BY <1>3, StartClearKeeps, CheckManifestKeeps, ScanKeeps, UnlinkKeeps, RmdirKeeps, FinishClearKeeps DEF Deleter
<1>4. CASE UNCHANGED vars
  <2>1. UNCHANGED <<staging, target, writing, published, reader, deleter, staged, touched, stops>> /\ Grows
    BY <1>4 DEF vars, store, Grows
  <2>2. StoreInv'
    BY <2>1 DEF IInv, StoreInv
  <2> QED BY <2>1, <2>2, ReadersStay, DeletersStay DEF IInv
<1> QED BY <1>1, <1>2, <1>3, <1>4, StopKeeps DEF Next

-----------------------------------------------------------------------------
(* The refinement. *)

Seen == [r \in Runs |-> IF target[r] = Whole THEN "present" ELSE IF r \in published THEN "removed" ELSE "absent"]

LEMMA SeenStays == ASSUME UNCHANGED <<target, published>> PROVE UNCHANGED Seen
BY DEF Seen

LEMMA RefinesPublish == ASSUME IInv, NEW r \in Runs, Publish(r) PROVE History!Next
<1>1. /\ r \notin published /\ target[r] = {} /\ r \in writing
      /\ target' = [target EXCEPT ![r] = Whole] /\ published' = published \cup {r}
  BY DEF Publish, IInv, StoreInv
<1>2. {} # Whole
  BY DEF Whole
<1>3. Seen[r] = "absent"
  BY <1>1, <1>2 DEF Seen
<1>4. Seen' = [Seen EXCEPT ![r] = "present"]
  <2>1. target' \in [Runs -> SUBSET Whole] /\ target'[r] = Whole /\ \A q \in Runs : q # r => target'[q] = target[q]
    BY <1>1 DEF IInv, StoreInv
  <2> QED BY <1>1, <2>1 DEF Seen
<1>5. History!Publish(r)
  BY <1>3, <1>4 DEF History!Publish, Seen
<1> QED BY <1>5 DEF History!Next

(* A published directory that shrinks is removed, or was already. *)
LEMMA RefinesShrink ==
  ASSUME IInv, NEW r \in published, NEW dir \in SUBSET Whole, dir # Whole,
         target' = [target EXCEPT ![r] = dir], UNCHANGED published
  PROVE  History!Next \/ UNCHANGED Seen
<1>1. r \in Runs
  BY DEF IInv, StoreInv
<1>2. target'[r] = dir /\ \A q \in Runs : q # r => target'[q] = target[q]
  BY <1>1 DEF IInv, StoreInv
<1>3. Seen' = [Seen EXCEPT ![r] = "removed"]
  BY <1>1, <1>2 DEF Seen
<1>4. CASE target[r] = Whole
  <2>1. History!Remove(r)
    BY <1>1, <1>3, <1>4 DEF History!Remove, Seen
  <2> QED BY <1>1, <2>1 DEF History!Next
<1>5. CASE target[r] # Whole
  BY <1>1, <1>2, <1>5 DEF Seen
<1> QED BY <1>4, <1>5

LEMMA RefinesUnlink == ASSUME IInv, NEW d \in Deleters, Unlink(d) PROVE History!Next \/ UNCHANGED Seen
<1>1. PICK old \in DeleterRecord : old = deleter[d] /\ DeleterIs(old)
  BY DeleterKnows
<1>2. old.pc = "unlink" /\ UNCHANGED published
  BY <1>1 DEF Unlink, Deleting, Rest
<1>3. PICK f \in old.entries :
        \/ f \in target[old.run] /\ target' = [target EXCEPT ![old.run] = @ \ {f}]
        \/ UNCHANGED target
  BY <1>1 DEF Unlink, Current
<1>4. old.run \in published /\ old.run \in Runs /\ f \in Whole
  BY <1>1, <1>2, <1>3 DEF DeleterIs, DeleterRecord, IInv, StoreInv, Whole
<1>5. CASE f \in target[old.run] /\ target' = [target EXCEPT ![old.run] = @ \ {f}]
  <2>1. PICK dir : dir = target[old.run] \ {f}
    OBVIOUS
  <2>2. target[old.run] \in SUBSET Whole
    BY <1>4 DEF IInv, StoreInv
  <2>3. dir \in SUBSET Whole /\ dir # Whole /\ target' = [target EXCEPT ![old.run] = dir]
    BY <1>4, <1>5, <2>1, <2>2
  <2>4. PICK r \in published : r = old.run
    BY <1>4
  <2>5. target' = [target EXCEPT ![r] = dir] /\ UNCHANGED published
    BY <1>2, <2>3, <2>4
  <2> QED BY ONLY IInv, <2>3, <2>5, RefinesShrink
<1> QED BY <1>2, <1>3, <1>5, SeenStays

LEMMA RefinesRmdir == ASSUME IInv, NEW d \in Deleters, Rmdir(d) PROVE History!Next \/ UNCHANGED Seen
<1>1. PICK old \in DeleterRecord : old = deleter[d] /\ DeleterIs(old)
  BY DeleterKnows
<1>2. /\ old.pc = "unlink" /\ UNCHANGED published
      /\ target' = [target EXCEPT ![old.run] = {}] \/ UNCHANGED target
  BY <1>1 DEF Rmdir, Deleting, Current, Rest
<1>3. old.run \in published
  BY <1>1, <1>2 DEF DeleterIs
<1>4. {} \in SUBSET Whole /\ {} # Whole
  BY DEF Whole
<1>5. CASE target' = [target EXCEPT ![old.run] = {}]
  <2>1. PICK r \in published : r = old.run
    BY <1>3
  <2>2. target' = [target EXCEPT ![r] = {}] /\ UNCHANGED published
    BY <1>2, <1>5, <2>1
  <2> QED BY ONLY IInv, <1>4, <2>2, RefinesShrink
<1> QED BY <1>2, <1>5, SeenStays

LEMMA RefinesNext == IInv /\ [Next]_vars => [History!Next]_Seen
<1> SUFFICES ASSUME IInv, [Next]_vars PROVE History!Next \/ UNCHANGED Seen
  OBVIOUS
<1>1. ASSUME NEW r \in Runs, BeginWrite(r) \/ WriteFile(r) \/ FailWrite(r) PROVE UNCHANGED Seen
  BY <1>1, SeenStays DEF BeginWrite, WriteFile, FailWrite
<1>2. ASSUME NEW c \in Readers, Reader(c) PROVE UNCHANGED Seen
  BY <1>2, SeenStays DEF Reader, ListManifests, ListEntry, OpenListed, ReadFile, Others, store
<1>3. ASSUME NEW d \in Deleters, StartClear(d) \/ CheckManifest(d) \/ Scan(d) \/ FinishClear(d) PROVE UNCHANGED Seen
  BY <1>3, SeenStays DEF StartClear, CheckManifest, Scan, FinishClear, Rest
<1>4. ASSUME NEW d \in Deleters, Deleter(d) PROVE History!Next \/ UNCHANGED Seen
  BY <1>3, <1>4, RefinesUnlink, RefinesRmdir DEF Deleter
<1>5. CASE Stop \/ UNCHANGED vars
  BY <1>5, SeenStays DEF Stop, vars, store
<1> QED BY <1>1, <1>2, <1>4, <1>5, RefinesPublish DEF Next

-----------------------------------------------------------------------------
(* Sums over finite sets. *)

Chosen(s) == CHOOSE x \in s : TRUE

(* g sums the weights w over every subset of D, taking one element at a time. *)
Sums(g, w, D) ==
  g = [s \in SUBSET D |-> IF s = {} THEN 0 ELSE w[Chosen(s)] + g[s \ {Chosen(s)}]]

LEMMA LeastNat ==
  ASSUME NEW T, T \subseteq Nat, T # {}
  PROVE  \E m \in T : \A n \in T : m <= n
<1>1. PICK m \in T : \A n \in T : ~(<<n, m>> \in OpToRel(<, Nat))
  BY NatLessThanWellFounded, WFMin
<1>2. \A n \in T : ~(n < m)
  BY <1>1 DEF OpToRel
<1>3. \A n \in T : m <= n
  <2> SUFFICES ASSUME NEW n \in T PROVE m <= n
    OBVIOUS
  <2>1. n \in Nat /\ m \in Nat /\ ~(n < m)
    BY <1>2
  <2> QED BY <2>1
<1> QED BY <1>3

(* What holds of the empty set, and of a set once it holds of the set without
   its chosen element, holds of every subset of a finite set. *)
LEMMA SubsetInduction ==
  ASSUME NEW D, IsFiniteSet(D), NEW T,
         \A s \in SUBSET D : (s = {} \/ s \ {Chosen(s)} \in T) => s \in T
  PROVE  SUBSET D \subseteq T
<1> SUFFICES ASSUME NEW b \in SUBSET D, b \notin T PROVE FALSE
  OBVIOUS
<1> DEFINE bad == { s \in SUBSET D : s \notin T }
           sizes == { Cardinality(s) : s \in bad }
<1>1. \A s \in SUBSET D : IsFiniteSet(s) /\ Cardinality(s) \in Nat
  BY FS_Subset, FS_CardinalityType
<1>2. PICK m \in sizes : \A n \in sizes : m <= n
  <2>1. sizes \subseteq Nat /\ sizes # {}
    BY <1>1
  <2> HIDE DEF sizes
  <2> QED BY <2>1, LeastNat
<1>3. PICK s \in bad : Cardinality(s) = m
  BY <1>2
<1>4. s # {} /\ s \ {Chosen(s)} \notin T /\ s \ {Chosen(s)} \in SUBSET D
  BY <1>3
<1>5. Cardinality(s \ {Chosen(s)}) \in sizes
  BY <1>4
<1>6. Chosen(s) \in s
  BY <1>4 DEF Chosen
<1>7. Cardinality(s \ {Chosen(s)}) = Cardinality(s) - 1
  BY <1>1, <1>3, <1>6, FS_RemoveElement
<1> QED BY <1>1, <1>2, <1>3, <1>5, <1>7

LEMMA SumsExist ==
  ASSUME NEW D, IsFiniteSet(D), NEW w
  PROVE  \E g : Sums(g, w, D)
<1> DEFINE Below(n) == { s \in SUBSET D : Cardinality(s) <= n }
           SumsTo(g, n) == g = [s \in Below(n) |-> IF s = {} THEN 0 ELSE w[Chosen(s)] + g[s \ {Chosen(s)}]]
           bad == { n \in Nat : ~ \E g : SumsTo(g, n) }
<1>1. \A s \in SUBSET D : IsFiniteSet(s) /\ Cardinality(s) \in Nat /\ (s = {} <=> Cardinality(s) = 0)
  BY FS_Subset, FS_CardinalityType, FS_EmptySet
<1>2. \A s \in SUBSET D : s # {} => s \ {Chosen(s)} \in SUBSET D /\ Cardinality(s \ {Chosen(s)}) = Cardinality(s) - 1
  <2> TAKE s \in SUBSET D
  <2> HAVE s # {}
  <2>1. Chosen(s) \in s
    BY DEF Chosen
  <2> QED BY <1>1, <2>1, FS_RemoveElement
<1>3. bad = {}
  <2> SUFFICES ASSUME bad # {} PROVE FALSE
    OBVIOUS
  <2>1. PICK m \in bad : \A n \in bad : m <= n
    BY LeastNat
  <2>2. CASE m = 0
    <3>1. SumsTo([s \in Below(0) |-> 0], 0)
      BY <1>1
    <3> QED BY <2>1, <2>2, <3>1
  <2>3. CASE m # 0
    <3>1. m - 1 \in Nat /\ m - 1 \notin bad
      <4> HIDE DEF SumsTo
      <4>1. m \in Nat
        BY <2>1
      <4>2. m - 1 \in Nat /\ ~(m <= m - 1)
        BY <2>3, <4>1
      <4> QED BY <2>1, <4>2
    <3>2. PICK g : SumsTo(g, m - 1)
      BY <3>1
    <3> DEFINE step(s) == IF s = {} THEN 0 ELSE w[Chosen(s)] + g[s \ {Chosen(s)}]
               h == [s \in Below(m) |-> step(s)]
    <3>3. \A s \in Below(m - 1) : g[s] = step(s)
      BY <3>2
    <3>4. \A s \in Below(m - 1) : g[s] = h[s]
      BY <1>1, <2>1, <3>3
    <3>5. \A s \in Below(m) : s # {} => s \ {Chosen(s)} \in Below(m - 1)
      BY <1>1, <1>2, <2>1
    <3>6. \A s \in Below(m) : step(s) = IF s = {} THEN 0 ELSE w[Chosen(s)] + h[s \ {Chosen(s)}]
      BY <3>4, <3>5
    <3>7. SumsTo(h, m)
      BY <3>6
    <3> QED BY <2>1, <3>7
  <2> QED BY <2>2, <2>3
<1>4. PICK g : SumsTo(g, Cardinality(D))
  BY <1>1, <1>3
<1>5. Below(Cardinality(D)) = SUBSET D
  <2>1. \A s \in SUBSET D : Cardinality(s) <= Cardinality(D)
    BY FS_Subset
  <2> QED BY <2>1
<1> QED BY <1>4, <1>5 DEF Sums

(* One weight more or less by k, and so is the sum. *)
LEMMA SumsDiffer ==
  ASSUME NEW D, IsFiniteSet(D), NEW w, NEW v, NEW g, NEW h, Sums(g, w, D), Sums(h, v, D), NEW e, NEW k \in Nat,
         \A x \in D : w[x] \in Nat /\ v[x] = w[x] + (IF x = e THEN k ELSE 0)
  PROVE  g[D] \in Nat /\ h[D] = g[D] + (IF e \in D THEN k ELSE 0)
<1> DEFINE good == { s \in SUBSET D : g[s] \in Nat /\ h[s] = g[s] + (IF e \in s THEN k ELSE 0) }
<1>1. ASSUME NEW s \in SUBSET D, s = {} PROVE s \in good
  BY <1>1 DEF Sums
<1>2. ASSUME NEW s \in SUBSET D, s # {}, s \ {Chosen(s)} \in good PROVE s \in good
  <2>1. PICK x \in s : x = Chosen(s)
    BY <1>2 DEF Chosen
  <2>2. PICK rest \in SUBSET D : rest = s \ {x}
    OBVIOUS
  <2>3. g[s] = w[x] + g[rest] /\ h[s] = v[x] + h[rest]
    BY <1>2, <2>1, <2>2 DEF Sums
  <2>4. g[rest] \in Nat /\ h[rest] = g[rest] + (IF e \in rest THEN k ELSE 0)
    BY <1>2, <2>1, <2>2
  <2>5. w[x] \in Nat /\ v[x] = w[x] + (IF x = e THEN k ELSE 0)
    BY <2>1
  <2>6. CASE x = e
    <3>1. e \in s /\ e \notin rest
      BY <2>1, <2>2, <2>6
    <3> QED BY <2>3, <2>4, <2>5, <2>6, <3>1
  <2>7. CASE x # e
    <3>1. e \in s <=> e \in rest
      BY <2>1, <2>2, <2>7
    <3> QED BY <2>3, <2>4, <2>5, <2>7, <3>1
  <2> QED BY <2>6, <2>7
<1>3. D \in SUBSET D
  OBVIOUS
<1>4. D \in good
  <2> HIDE DEF good
  <2>1. \A s \in SUBSET D : (s = {} \/ s \ {Chosen(s)} \in good) => s \in good
    BY <1>1, <1>2
  <2>2. SUBSET D \subseteq good
    BY <2>1, SubsetInduction
  <2> QED BY <1>3, <2>2
<1> QED BY <1>4

(* What the requests have counted between them. *)
Counts(dl) == MapThenSumSet(LAMBDA d : dl[d].count, Deleters)

LEMMA CountsAreSums ==
  ASSUME NEW dl
  PROVE  \E g : Sums(g, [d \in Deleters |-> dl[d].count], Deleters) /\ Counts(dl) = g[Deleters]
<1> DEFINE w == [d \in Deleters |-> dl[d].count]
           F(g) == [s \in SUBSET Deleters |-> IF s = {} THEN 0
                      ELSE dl[CHOOSE x \in s : TRUE].count + g[s \ {CHOOSE x \in s : TRUE}]]
           it == CHOOSE g : g = F(g)
<1>1. PICK g : Sums(g, w, Deleters)
  BY SumsExist, RunStoreAssumption
<1>2. \A s \in SUBSET Deleters : s # {} => Chosen(s) \in Deleters
  BY DEF Chosen
<1>3. \A h : (h = F(h)) <=> Sums(h, w, Deleters)
  BY <1>2 DEF Sums, Chosen
<1>4. it = F(it)
  <2> HIDE DEF F, w
  <2>1. \E h : h = F(h)
    BY <1>1, <1>3
  <2> QED BY <2>1
<1>5. Counts(dl) = it[Deleters]
  BY DEF Counts, MapThenSumSet, MapThenFoldSet
<1> QED BY <1>3, <1>4, <1>5

LEMMA CountsMove ==
  ASSUME NEW old, NEW new, NEW e, NEW k \in Nat,
         \A d \in Deleters : old[d].count \in Nat /\ new[d].count = old[d].count + (IF d = e THEN k ELSE 0)
  PROVE  Counts(new) = Counts(old) + (IF e \in Deleters THEN k ELSE 0)
<1>1. PICK w : w = [d \in Deleters |-> old[d].count]
  OBVIOUS
<1>2. PICK v : v = [d \in Deleters |-> new[d].count]
  OBVIOUS
<1>3. PICK g : Sums(g, w, Deleters) /\ Counts(old) = g[Deleters]
  BY <1>1, CountsAreSums
<1>4. PICK h : Sums(h, v, Deleters) /\ Counts(new) = h[Deleters]
  BY <1>2, CountsAreSums
<1>5. \A d \in Deleters : w[d] \in Nat /\ v[d] = w[d] + (IF d = e THEN k ELSE 0)
  BY <1>1, <1>2
<1>6. h[Deleters] = g[Deleters] + (IF e \in Deleters THEN k ELSE 0)
  BY <1>3, <1>4, <1>5, RunStoreAssumption, SumsDiffer
<1> QED BY <1>3, <1>4, <1>6

LEMMA CountsNothing ==
  ASSUME NEW dl, \A d \in Deleters : dl[d].count = 0 PROVE Counts(dl) = 0
<1>1. PICK w : w = [d \in Deleters |-> dl[d].count]
  OBVIOUS
<1>2. PICK g : Sums(g, w, Deleters) /\ Counts(dl) = g[Deleters]
  BY <1>1, CountsAreSums
<1> DEFINE good == { s \in SUBSET Deleters : g[s] = 0 }
<1>3. ASSUME NEW s \in SUBSET Deleters, s = {} \/ s \ {Chosen(s)} \in good PROVE s \in good
  <2>1. CASE s = {}
    BY <1>2, <2>1 DEF Sums
  <2>2. CASE s # {}
    <3>1. g[s] = w[Chosen(s)] + g[s \ {Chosen(s)}]
      BY <1>2, <2>2 DEF Sums
    <3>2. Chosen(s) \in Deleters
      BY <2>2 DEF Chosen
    <3> QED BY <1>1, <1>3, <2>2, <3>1, <3>2
  <2> QED BY <2>1, <2>2
<1>4. Deleters \in SUBSET Deleters
  OBVIOUS
<1>5. Deleters \in good
  <2> HIDE DEF good
  <2>1. SUBSET Deleters \subseteq good
    BY <1>3, SubsetInduction, RunStoreAssumption
  <2> QED BY <1>4, <2>1
<1> QED BY <1>2, <1>5

-----------------------------------------------------------------------------
(* What a DELETE leaves behind, and what it counts. *)

(* A request has touched what it saw and has no more to do with, or was
   stopped on its way to it. *)
ClearIs(dl) ==
  /\ dl.pc = "done" => dl.todo = {}
  /\ \A r \in dl.saw \ dl.todo : r \in touched \/ (dl.pc \in {"scan", "killed"} /\ dl.run = r)

(* The request is at the files of the run, or left them there. *)
AtFiles(dl, r) == dl.run = r /\ dl.pc \in {"unlink", "failed", "killed"}

Gone == { r \in published : target[r] = {} }

ClearInv ==
  /\ \A d \in Deleters : ClearIs(deleter[d])
  /\ \A r \in touched : target[r] # {} => \E o \in Deleters : AtFiles(deleter[o], r)
  /\ Counts(deleter) = Cardinality(Gone)

LEMMA InvCleared == IInv /\ ClearInv => ClearedRunsAreGone
<1> SUFFICES ASSUME IInv, ClearInv PROVE ClearedRunsAreGone
  OBVIOUS
<1>1. ASSUME NEW d \in Deleters, Deleting(d, "done"), NEW r \in deleter[d].saw, target[r] # {}
      PROVE  \E o \in Removing(r) : o # d
  <2>1. deleter[d].pc = "done" /\ ClearIs(deleter[d])
    BY <1>1 DEF ClearInv, Deleting
  <2>2. r \in touched
    BY <1>1, <2>1 DEF ClearIs
  <2>3. PICK o \in Deleters : AtFiles(deleter[o], r)
    BY <1>1, <2>2 DEF ClearInv
  <2> QED BY <2>1, <2>3 DEF AtFiles, Removing, Deleting
<1>2. MapThenSumSet(LAMBDA d : deleter[d].count, Deleters) = Cardinality({ r \in published : target[r] = {} })
  BY DEF ClearInv, Counts, Gone
<1> QED BY <1>1, <1>2 DEF ClearedRunsAreGone

LEMMA ClearInit == Init => ClearInv
<1> SUFFICES ASSUME Init PROVE ClearInv
  OBVIOUS
<1>1. \A d \in Deleters : ClearIs(deleter[d]) /\ deleter[d].count = 0
  BY DEF Init, NoDeleter, ClearIs
<1>2. Counts(deleter) = 0
  BY <1>1, CountsNothing
<1>3. Gone = {} /\ Cardinality({}) = 0
  BY FS_EmptySet DEF Gone, Init
<1> QED BY <1>1, <1>2, <1>3 DEF ClearInv, Init

LEMMA ClearStays ==
  ASSUME NEW dl, ClearIs(dl), touched \subseteq touched' PROVE ClearIs(dl)'
BY DEF ClearIs

(* The requests stay as they are, and so does what is gone. *)
LEMMA NothingClears ==
  ASSUME IInv, ClearInv, UNCHANGED <<deleter, touched>>, Gone' = Gone,
         \A r \in touched : target'[r] = target[r]
  PROVE  ClearInv'
<1>1. ASSUME NEW d \in Deleters PROVE ClearIs(deleter[d])'
  <2>1. PICK dl : dl = deleter[d] /\ ClearIs(dl)
    BY DEF ClearInv
  <2>2. ClearIs(dl)' /\ deleter'[d] = dl
    BY <2>1, ClearStays
  <2> QED BY <2>2 DEF ClearIs
<1>2. (Counts(deleter) = Cardinality(Gone))'
  <2>1. PICK old : old = deleter
    OBVIOUS
  <2>2. deleter' = old /\ Counts(old) = Cardinality(Gone)
    BY <2>1 DEF ClearInv
  <2>3. Counts(deleter') = Cardinality(Gone)
    BY <2>2
  <2> QED BY <2>3
<1>3. (\A r \in touched : target[r] # {} => \E o \in Deleters : AtFiles(deleter[o], r))'
  BY DEF ClearInv, AtFiles
<1> QED BY <1>1, <1>2, <1>3 DEF ClearInv

(* One request moves. *)
LEMMA RequestMoves ==
  ASSUME IInv, ClearInv, NEW d \in Deleters, NEW old, old = deleter[d],
         NEW dl, deleter' = [deleter EXCEPT ![d] = dl], ClearIs(dl)', touched \subseteq touched',
         \A r \in touched' : target'[r] # {} =>
            AtFiles(dl, r) \/ (r \in touched /\ target[r] # {} /\ ~AtFiles(old, r)),
         \/ dl.count = old.count /\ Gone' = Gone
         \/ dl.count = old.count + 1 /\ \E r : r \notin Gone /\ Gone' = Gone \cup {r}
  PROVE  ClearInv'
<1>1. /\ deleter \in [Deleters -> DeleterRecord] /\ deleter'[d] = dl
      /\ \A q \in Deleters : q # d => deleter'[q] = deleter[q]
  BY DEF IInv, DeletersInv
<1>2. ASSUME NEW q \in Deleters PROVE ClearIs(deleter[q])'
  <2>1. CASE q = d
    BY <1>1, <2>1 DEF ClearIs
  <2>2. CASE q # d
    <3>1. PICK other : other = deleter[q] /\ ClearIs(other)
      BY DEF ClearInv
    <3>2. ClearIs(other)' /\ deleter'[q] = other
      BY <1>1, <2>2, <3>1, ClearStays
    <3> QED BY <3>2 DEF ClearIs
  <2> QED BY <2>1, <2>2
<1>3. ASSUME NEW r \in touched', target'[r] # {} PROVE \E o \in Deleters : AtFiles(deleter'[o], r)
  <2>1. CASE AtFiles(dl, r)
    BY <1>1, <2>1
  <2>2. CASE r \in touched /\ target[r] # {} /\ ~AtFiles(old, r)
    <3>1. PICK o \in Deleters : AtFiles(deleter[o], r)
      BY <2>2 DEF ClearInv
    <3>2. o # d
      BY <2>2, <3>1
    <3> QED BY <1>1, <3>1, <3>2
  <2> QED BY <1>3, <2>1, <2>2
<1>4. PICK before : before = deleter
  OBVIOUS
<1>5. PICK after : after = deleter'
  OBVIOUS
<1>6. \A q \in Deleters : before[q].count \in Nat
  BY <1>1, <1>4 DEF DeleterRecord
<1>7. IsFiniteSet(Gone) /\ Cardinality(Gone) \in Nat /\ Counts(before) = Cardinality(Gone)
  BY <1>4, FS_Subset, FS_CardinalityType DEF Gone, IInv, StoreInv, ClearInv
<1>8. ASSUME NEW k \in {0, 1}, dl.count = old.count + k PROVE Counts(after) = Counts(before) + k
  <2>1. k \in Nat
    OBVIOUS
  <2>2. \A q \in Deleters : after[q].count = before[q].count + (IF q = d THEN k ELSE 0)
    BY <1>1, <1>4, <1>5, <1>6, <1>8
  <2>3. Counts(after) = Counts(before) + (IF d \in Deleters THEN k ELSE 0)
    BY <1>6, <2>1, <2>2, CountsMove
  <2> QED BY <2>3
<1>9. Counts(after) = Cardinality(Gone')
  <2>1. CASE dl.count = old.count /\ Gone' = Gone
    <3>1. dl.count = old.count + 0
      BY <1>4, <1>6, <2>1
    <3>2. Counts(after) = Counts(before) + 0
      BY <1>8, <3>1
    <3> QED BY <1>7, <2>1, <3>2
  <2>2. CASE dl.count = old.count + 1 /\ \E r : r \notin Gone /\ Gone' = Gone \cup {r}
    <3>1. Cardinality(Gone') = Cardinality(Gone) + 1
      BY <1>7, <2>2, FS_AddElement
    <3>2. Counts(after) = Counts(before) + 1
      BY <1>8, <2>2
    <3> QED BY <1>7, <3>1, <3>2
  <2> QED BY <2>1, <2>2
<1>10. (\A r \in touched : target[r] # {} => \E o \in Deleters : AtFiles(deleter[o], r))'
  BY <1>3 DEF AtFiles
<1>11. (Counts(deleter) = Cardinality(Gone))'
  BY <1>5, <1>9
<1> QED BY <1>2, <1>10, <1>11 DEF ClearInv

LEMMA StartClearClears == ASSUME IInv, ClearInv, NEW d \in Deleters, StartClear(d) PROVE ClearInv'
<1>1. PICK found : found = { r \in Runs : target[r] # {} }
  OBVIOUS
<1>2. PICK old \in DeleterRecord : old = deleter[d] /\ DeleterIs(old)
  BY DeleterKnows
<1>3. /\ old.pc = "idle" /\ UNCHANGED <<published, target, touched>>
      /\ deleter' = [deleter EXCEPT ![d].pc = "next", ![d].todo = found, ![d].saw = found]
  BY <1>1, <1>2 DEF StartClear, Deleting, Rest
<1>4. PICK dl : dl = [old EXCEPT !.pc = "next", !.todo = found, !.saw = found]
  OBVIOUS
<1>5. deleter' = [deleter EXCEPT ![d] = dl]
  BY <1>2, <1>3, <1>4
<1>6. dl.pc = "next" /\ dl.todo = found /\ dl.saw = found /\ dl.count = old.count
  BY <1>2, <1>4 DEF DeleterRecord
<1>7. ClearIs(dl)'
  BY <1>6 DEF ClearIs
<1>8. Gone' = Gone /\ \A r : ~AtFiles(old, r)
  BY <1>3 DEF Gone, AtFiles
<1> QED BY <1>2, <1>3, <1>5, <1>6, <1>7, <1>8, RequestMoves

LEMMA CheckManifestClears == ASSUME IInv, ClearInv, NEW d \in Deleters, CheckManifest(d) PROVE ClearInv'
<1>1. PICK old \in DeleterRecord : old = deleter[d] /\ DeleterIs(old) /\ ClearIs(old)
  BY DeleterKnows DEF ClearInv
<1>2. PICK r \in old.todo :
       deleter' = IF "manifest" \in target[r]
                  THEN [deleter EXCEPT ![d].todo = @ \ {r}, ![d].pc = "scan", ![d].run = r]
                  ELSE [deleter EXCEPT ![d].todo = @ \ {r}]
  BY <1>1 DEF CheckManifest
<1>3. old.pc = "next" /\ UNCHANGED <<published, target, touched>>
  BY <1>1 DEF CheckManifest, Deleting, Rest
<1>4. Gone' = Gone /\ \A q : ~AtFiles(old, q)
  BY <1>3 DEF Gone, AtFiles
<1>5. \A q \in old.saw \ old.todo : q \in touched
  BY <1>1, <1>3 DEF ClearIs
<1>6. CASE "manifest" \in target[r]
  <2>1. PICK dl : dl = [old EXCEPT !.todo = @ \ {r}, !.pc = "scan", !.run = r]
    OBVIOUS
  <2>2. /\ dl.pc = "scan" /\ dl.todo = old.todo \ {r} /\ dl.saw = old.saw
        /\ dl.count = old.count /\ dl.run = r
    BY <1>1, <2>1 DEF DeleterRecord
  <2>3. deleter' = [deleter EXCEPT ![d] = dl]
    BY <1>1, <1>2, <1>6, <2>1
  <2>4. ClearIs(dl)'
    BY <1>3, <1>5, <2>2 DEF ClearIs
  <2> QED BY <1>1, <1>3, <1>4, <2>2, <2>3, <2>4, RequestMoves
<1>7. CASE "manifest" \notin target[r]
  <2>1. PICK dl : dl = [old EXCEPT !.todo = @ \ {r}]
    OBVIOUS
  <2>2. dl.pc = "next" /\ dl.todo = old.todo \ {r} /\ dl.saw = old.saw /\ dl.count = old.count
    BY <1>1, <1>3, <2>1 DEF DeleterRecord
  <2>3. deleter' = [deleter EXCEPT ![d] = dl]
    BY <1>1, <1>2, <1>7, <2>1
  <2>4. r \in touched
    <3>1. r \in published
      BY <1>1 DEF DeleterIs
    <3>2. "manifest" \in Whole
      BY DEF Whole, Files
    <3> QED BY <1>7, <3>1, <3>2 DEF IInv, StoreInv
  <2>5. ClearIs(dl)'
    BY <1>3, <1>5, <2>2, <2>4 DEF ClearIs
  <2> QED BY <1>1, <1>3, <1>4, <2>2, <2>3, <2>5, RequestMoves
<1> QED BY <1>6, <1>7

(* A request that raises leaves the files of its run to itself. *)
LEMMA RaiseClears ==
  ASSUME IInv, ClearInv, NEW d \in Deleters, Raise(d), UNCHANGED <<published, target>>,
         deleter[d].pc \in {"scan", "unlink"}, touched' = touched \cup {deleter[d].run}
  PROVE  ClearInv'
<1>1. deleter' = [deleter EXCEPT ![d].pc = "failed"]
  BY DEF Raise
<1>2. PICK old \in DeleterRecord : old = deleter[d] /\ DeleterIs(old) /\ ClearIs(old)
  BY DeleterKnows DEF ClearInv
<1>3. PICK dl : dl = [old EXCEPT !.pc = "failed"]
  OBVIOUS
<1>4. /\ dl.pc = "failed" /\ dl.todo = old.todo /\ dl.saw = old.saw /\ dl.count = old.count
      /\ dl.run = old.run
  BY <1>2, <1>3 DEF DeleterRecord
<1>5. deleter' = [deleter EXCEPT ![d] = dl]
  BY <1>1, <1>2, <1>3
<1>6. ClearIs(dl)'
  BY <1>2, <1>4 DEF ClearIs
<1>7. Gone' = Gone
  BY DEF Gone
<1>8. \A r \in touched' : target'[r] # {} =>
         AtFiles(dl, r) \/ (r \in touched /\ target[r] # {} /\ ~AtFiles(old, r))
  BY <1>2, <1>4 DEF AtFiles
<1>9. touched \subseteq touched'
  OBVIOUS
<1> QED BY <1>2, <1>4, <1>5, <1>6, <1>7, <1>8, <1>9, RequestMoves

LEMMA ScanClears == ASSUME IInv, ClearInv, NEW d \in Deleters, Scan(d) PROVE ClearInv'
<1>1. PICK old \in DeleterRecord : old = deleter[d] /\ DeleterIs(old) /\ ClearIs(old)
  BY DeleterKnows DEF ClearInv
<1>2. /\ old.pc = "scan" /\ UNCHANGED <<published, target>> /\ touched' = touched \cup {old.run}
      /\ IF target[old.run] = {} THEN Raise(d)
         ELSE deleter' = [deleter EXCEPT ![d].pc = "unlink", ![d].entries = target[old.run] \ {"."}]
  BY <1>1 DEF Scan, Deleting, Current, Rest
<1>3. CASE target[old.run] = {}
  BY <1>1, <1>2, <1>3, RaiseClears
<1>4. CASE target[old.run] # {}
  <2>1. PICK dl : dl = [old EXCEPT !.pc = "unlink", !.entries = target[old.run] \ {"."}]
    OBVIOUS
  <2>2. /\ dl.pc = "unlink" /\ dl.todo = old.todo /\ dl.saw = old.saw /\ dl.count = old.count
        /\ dl.run = old.run
    BY <1>1, <2>1 DEF DeleterRecord
  <2>3. deleter' = [deleter EXCEPT ![d] = dl]
    BY <1>1, <1>2, <1>4, <2>1
  <2>4. ClearIs(dl)'
    BY <1>1, <1>2, <2>2 DEF ClearIs
  <2>5. Gone' = Gone
    BY <1>2 DEF Gone
  <2>6. \A r \in touched' : target'[r] # {} =>
           AtFiles(dl, r) \/ (r \in touched /\ target[r] # {} /\ ~AtFiles(old, r))
    BY <1>2, <2>2 DEF AtFiles
  <2>7. touched \subseteq touched'
    BY <1>2
  <2> QED BY <1>1, <2>2, <2>3, <2>4, <2>5, <2>6, <2>7, RequestMoves
<1> QED BY <1>3, <1>4

LEMMA UnlinkClears == ASSUME IInv, ClearInv, NEW d \in Deleters, Unlink(d) PROVE ClearInv'
<1>1. PICK old \in DeleterRecord : old = deleter[d] /\ DeleterIs(old) /\ ClearIs(old)
  BY DeleterKnows DEF ClearInv
<1>2. old.pc = "unlink" /\ UNCHANGED <<published, touched>>
  BY <1>1 DEF Unlink, Deleting, Rest
<1>3. PICK f \in old.entries :
        LET goOn == deleter' = [deleter EXCEPT ![d].entries = @ \ {f}]
        IN IF f \in target[old.run] THEN target' = [target EXCEPT ![old.run] = @ \ {f}] /\ goOn
                                    ELSE (Raise(d) \/ goOn) /\ UNCHANGED target
  BY <1>1 DEF Unlink, Current
<1>4. old.run \in touched /\ old.run \in Runs /\ f # "."
  BY <1>1, <1>2, <1>3 DEF DeleterIs, DeleterRecord, IInv, StoreInv, Files
<1>5. \A r \in Runs : target'[r] # {} <=> target[r] # {}
  <2>1. CASE UNCHANGED target
    BY <2>1
  <2>2. CASE f \in target[old.run] /\ target' = [target EXCEPT ![old.run] = @ \ {f}]
    <3>1. target'[old.run] = target[old.run] \ {f} /\ \A r \in Runs : r # old.run => target'[r] = target[r]
      BY <1>4, <2>2 DEF IInv, StoreInv
    <3>2. "." \in target[old.run]
      BY <1>4, <2>2 DEF IInv, StoreInv
    <3>3. "." \in target'[old.run]
      BY <1>4, <3>1, <3>2
    <3> QED BY <2>2, <3>1, <3>3
  <2> QED BY <1>3, <2>1, <2>2
<1>6. Gone' = Gone
  BY <1>2, <1>5 DEF Gone, IInv, StoreInv
<1>7. CASE deleter' = [deleter EXCEPT ![d].entries = @ \ {f}]
  <2>1. PICK dl : dl = [old EXCEPT !.entries = @ \ {f}]
    OBVIOUS
  <2>2. /\ dl.pc = "unlink" /\ dl.todo = old.todo /\ dl.saw = old.saw /\ dl.count = old.count
        /\ dl.run = old.run
    BY <1>1, <1>2, <2>1 DEF DeleterRecord
  <2>3. deleter' = [deleter EXCEPT ![d] = dl]
    BY <1>1, <1>7, <2>1
  <2>4. ClearIs(dl)'
    BY <1>1, <1>2, <2>2 DEF ClearIs
  <2>5. \A r \in touched' : target'[r] # {} =>
           AtFiles(dl, r) \/ (r \in touched /\ target[r] # {} /\ ~AtFiles(old, r))
    BY <1>2, <1>5, <2>2 DEF AtFiles, IInv, StoreInv
  <2>6. touched \subseteq touched'
    BY <1>2
  <2> QED BY <1>1, <1>6, <2>2, <2>3, <2>4, <2>5, <2>6, RequestMoves
<1>8. CASE Raise(d) /\ UNCHANGED target
  <2>1. touched' = touched \cup {deleter[d].run}
    BY <1>1, <1>2, <1>4
  <2>2. deleter[d].pc \in {"scan", "unlink"}
    BY <1>1, <1>2
  <2> QED BY <1>2, <1>8, <2>1, <2>2, RaiseClears
<1> QED BY <1>3, <1>7, <1>8

LEMMA RmdirClears == ASSUME IInv, ClearInv, NEW d \in Deleters, Rmdir(d) PROVE ClearInv'
<1>1. PICK old \in DeleterRecord : old = deleter[d] /\ DeleterIs(old) /\ ClearIs(old)
  BY DeleterKnows DEF ClearInv
<1>2. /\ old.pc = "unlink" /\ UNCHANGED <<published, touched>>
      /\ IF target[old.run] = {"."} THEN Counted(d) /\ target' = [target EXCEPT ![old.run] = {}]
                                    ELSE Raise(d) /\ UNCHANGED target
  BY <1>1 DEF Rmdir, Deleting, Current, Rest
<1>3. old.run \in touched /\ old.run \in published /\ old.run \in Runs
  BY <1>1, <1>2 DEF DeleterIs, IInv, StoreInv
<1>4. CASE target[old.run] = {"."}
  <2>1. target' = [target EXCEPT ![old.run] = {}] /\ deleter' = [deleter EXCEPT ![d].pc = "next", ![d].count = @ + 1]
    BY <1>2, <1>4 DEF Counted
  <2>2. PICK n : n = old.count + 1
    OBVIOUS
  <2>3. PICK dl : dl = [old EXCEPT !.pc = "next", !.count = n]
    OBVIOUS
  <2>4. dl.pc = "next" /\ dl.todo = old.todo /\ dl.saw = old.saw /\ dl.count = n /\ dl.run = old.run
    BY <1>1, <2>3 DEF DeleterRecord
  <2>5. deleter' = [deleter EXCEPT ![d] = dl]
    BY <1>1, <2>1, <2>2, <2>3
  <2>6. ClearIs(dl)'
    BY <1>1, <1>2, <2>4 DEF ClearIs
  <2>7. target'[old.run] = {} /\ \A r \in Runs : r # old.run => target'[r] = target[r]
    BY <1>3, <2>1 DEF IInv, StoreInv
  <2>8. old.run \notin Gone /\ Gone' = Gone \cup {old.run}
    BY <1>2, <1>3, <1>4, <2>7 DEF Gone, IInv, StoreInv
  <2>9. \A r \in touched' : target'[r] # {} =>
           AtFiles(dl, r) \/ (r \in touched /\ target[r] # {} /\ ~AtFiles(old, r))
    BY <1>2, <2>7 DEF AtFiles, IInv, StoreInv
  <2>10. touched \subseteq touched'
    BY <1>2
  <2> QED BY <1>1, <2>2, <2>4, <2>5, <2>6, <2>8, <2>9, <2>10, RequestMoves
<1>5. CASE target[old.run] # {"."}
  <2>1. touched' = touched \cup {deleter[d].run} /\ deleter[d].pc \in {"scan", "unlink"}
    BY <1>1, <1>2, <1>3
  <2> QED BY <1>2, <1>5, <2>1, RaiseClears
<1> QED BY <1>4, <1>5

LEMMA FinishClearClears == ASSUME IInv, ClearInv, NEW d \in Deleters, FinishClear(d) PROVE ClearInv'
<1>1. PICK old \in DeleterRecord : old = deleter[d] /\ DeleterIs(old) /\ ClearIs(old)
  BY DeleterKnows DEF ClearInv
<1>2. /\ old.pc = "next" /\ old.todo = {} /\ deleter' = [deleter EXCEPT ![d].pc = "done"]
      /\ UNCHANGED <<published, target, touched>>
  BY <1>1 DEF FinishClear, Deleting, Rest
<1>3. PICK dl : dl = [old EXCEPT !.pc = "done"]
  OBVIOUS
<1>4. dl.pc = "done" /\ dl.todo = old.todo /\ dl.saw = old.saw /\ dl.count = old.count
  BY <1>1, <1>3 DEF DeleterRecord
<1>5. deleter' = [deleter EXCEPT ![d] = dl]
  BY <1>1, <1>2, <1>3
<1>6. ClearIs(dl)'
  BY <1>1, <1>2, <1>4 DEF ClearIs
<1>7. Gone' = Gone /\ \A r : ~AtFiles(old, r)
  BY <1>2 DEF Gone, AtFiles
<1> QED BY <1>1, <1>2, <1>4, <1>5, <1>6, <1>7, RequestMoves

(* What a stopped request was at stays as it left it. *)
LEMMA StopClears == ASSUME IInv, ClearInv, Stop PROVE ClearInv'
<1>1. UNCHANGED <<target, published, touched>>
  BY DEF Stop
<1>2. ASSUME NEW d \in Deleters
      PROVE  /\ deleter'[d].count = deleter[d].count /\ deleter[d].count \in Nat
             /\ ClearIs(deleter[d])'
             /\ \A r : AtFiles(deleter[d], r) => AtFiles(deleter'[d], r)
  <2>1. PICK old \in DeleterRecord : old = deleter[d] /\ ClearIs(old)
    BY DeleterKnows DEF ClearInv
  <2>2. PICK dl : dl = IF old.pc \in {"next", "scan", "unlink"} THEN [old EXCEPT !.pc = "killed"] ELSE old
    OBVIOUS
  <2>3. deleter'[d] = dl
    BY <2>1, <2>2 DEF Stop
  <2>4. /\ dl.todo = old.todo /\ dl.saw = old.saw /\ dl.count = old.count /\ dl.run = old.run
        /\ dl.pc = IF old.pc \in {"next", "scan", "unlink"} THEN "killed" ELSE old.pc
    BY <2>1, <2>2 DEF DeleterRecord
  <2>5. ClearIs(dl)'
    BY <1>1, <2>1, <2>4 DEF ClearIs
  <2>6. \A r : AtFiles(old, r) => AtFiles(dl, r)
    BY <2>4 DEF AtFiles
  <2>7. ClearIs(deleter[d])'
    BY <2>3, <2>5 DEF ClearIs
  <2> QED BY <2>1, <2>3, <2>4, <2>6, <2>7 DEF DeleterRecord
<1>3. PICK before : before = deleter
  OBVIOUS
<1>4. PICK after : after = deleter'
  OBVIOUS
<1>5. \A d \in Deleters : before[d].count \in Nat /\ after[d].count = before[d].count + (IF d = "none" THEN 0 ELSE 0)
  BY <1>2, <1>3, <1>4
<1>6. Counts(after) = Counts(before) + (IF "none" \in Deleters THEN 0 ELSE 0)
  BY <1>5, CountsMove
<1>7. Counts(before) = Cardinality(Gone) /\ Cardinality(Gone) \in Nat
  BY <1>3, FS_Subset, FS_CardinalityType DEF Gone, IInv, StoreInv, ClearInv
<1>8. (Counts(deleter) = Cardinality(Gone))'
  <2>1. Gone' = Gone
    BY <1>1 DEF Gone
  <2>2. Counts(deleter') = Cardinality(Gone')
    BY <1>4, <1>6, <1>7, <2>1
  <2> QED BY <2>2
<1>9. (\A r \in touched : target[r] # {} => \E o \in Deleters : AtFiles(deleter[o], r))'
  <2>1. \A r \in touched : target[r] # {} => \E o \in Deleters : AtFiles(deleter'[o], r)
    BY <1>2 DEF ClearInv
  <2> QED BY <1>1, <2>1 DEF AtFiles
<1>10. (\A d \in Deleters : ClearIs(deleter[d]))'
  BY <1>2
<1> QED BY <1>8, <1>9, <1>10 DEF ClearInv

LEMMA ClearNext == IInv /\ ClearInv /\ [Next]_vars => ClearInv'
<1> SUFFICES ASSUME IInv, ClearInv, [Next]_vars PROVE ClearInv'
  OBVIOUS
<1>1. ASSUME UNCHANGED <<deleter, touched, target, published>> PROVE ClearInv'
  BY <1>1, NothingClears DEF Gone
<1>2. ASSUME NEW r \in Runs, BeginWrite(r) \/ WriteFile(r) \/ FailWrite(r) PROVE ClearInv'
  BY <1>1, <1>2 DEF BeginWrite, WriteFile, FailWrite, Clients
<1>3. ASSUME NEW r \in Runs, Publish(r) PROVE ClearInv'
  <2>1. /\ r \in writing /\ target' = [target EXCEPT ![r] = Whole] /\ published' = published \cup {r}
        /\ UNCHANGED <<deleter, touched>>
    BY <1>3 DEF Publish, Clients
  <2>2. target'[r] = Whole /\ \A q \in Runs : q # r => target'[q] = target[q]
    BY <2>1 DEF IInv, StoreInv
  <2>3. r \notin published /\ Whole # {}
    BY <2>1 DEF IInv, StoreInv, Whole
  <2>4. Gone' = Gone
    BY <2>1, <2>2, <2>3 DEF Gone, IInv, StoreInv
  <2>5. \A q \in touched : target'[q] = target[q]
    BY <2>2, <2>3 DEF IInv, StoreInv
  <2> QED BY <2>1, <2>4, <2>5, NothingClears
<1>4. ASSUME NEW c \in Readers, Reader(c) PROVE ClearInv'
  BY <1>1, <1>4 DEF Reader, ListManifests, ListEntry, OpenListed, ReadFile, Others, store
<1>5. ASSUME NEW d \in Deleters, Deleter(d) PROVE ClearInv'
  BY <1>5, StartClearClears, CheckManifestClears, ScanClears, UnlinkClears, RmdirClears, FinishClearClears DEF Deleter
<1>6. CASE UNCHANGED vars
  BY <1>1, <1>6 DEF vars, store
<1> QED BY <1>2, <1>3, <1>4, <1>5, <1>6, StopClears DEF Next

-----------------------------------------------------------------------------
(* The theorems. *)

(* The inductive invariant holds in every reachable state. *)
THEOREM Invariance == Spec => []IInv
<1> QED BY InvInit, InvNext, PTL DEF Spec

(* Types, and what failed writes and stopped processes leave on disk. *)
THEOREM TypeCorrect == Spec => []TypeOK
<1> QED BY Invariance, InvTypes, PTL

(* What get_run (web.py) returns was there as a whole during the request, and
   a listed run that cannot be opened was met in its staging directory or by a
   DELETE, for every number of writers, clients, DELETE requests and stops. *)
THEOREM WholeRunsOnly == Spec => []ReadersSeeWholeRuns
<1> QED BY Invariance, InvReaders, PTL

(* A bundle becomes visible as a whole, stays as it is until a DELETE, and
   never comes back. *)
THEOREM Refinement == Spec => ImplementsRunHistory
<1>1. Init => History!Init
  <2>1. {} # Whole
    BY DEF Whole
  <2> QED BY <2>1 DEF Init, History!Init
<1>2. IInv /\ [Next]_vars => [History!Next]_Seen
  BY RefinesNext
<1> QED BY <1>1, <1>2, Invariance, PTL DEF Spec, ImplementsRunHistory, History!Spec, Seen

(* What a DELETE /runs that answered has left of a run it met is another
   request's, that is still at it, failed or was stopped, and the requests
   count every removed run exactly once between them (_clear_stored_runs,
   api.py), for every number of requests that clear at the same time. *)
THEOREM ClearedRunsCounted == Spec => []ClearedRunsAreGone
<1>1. Init => ClearInv
  BY ClearInit
<1>2. IInv /\ ClearInv /\ [Next]_vars => ClearInv'
  BY ClearNext
<1> QED BY <1>1, <1>2, Invariance, InvCleared, PTL DEF Spec
=============================================================================

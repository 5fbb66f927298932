------------------------ MODULE Investigation_proofs ------------------------
(***************************************************************************)
(* Proofs about Investigation and what is built around it, for every set   *)
(* of candidates and runs and every attempt budget: the types and the      *)
(* rubric's bounds (TypeCorrect); that the rubric's arithmetic never       *)
(* decides a REPRODUCED verdict (ReproducedMeans); that the orchestrator   *)
(* implements the evidence gate (GateImplemented); that a returned bundle  *)
(* says REPRODUCED exactly when its evidence holds a proof (VerdictSound); *)
(* that its records and events agree in number and order                   *)
(* (BundlesAreConsistent); and, of the audit of the bundle and of the      *)
(* stages a live job shows, AuditIsFaithful, LabelsAreTrue and             *)
(* FinishedJobsAreClosed.                                                  *)
(***************************************************************************)
EXTENDS Investigation, BundleReplay, InvestigationProgress, FiniteSetTheorems, SequenceTheorems, TLAPS

-----------------------------------------------------------------------------
(* Counting members of a pair: the facts behind "two replays matched". *)
LEMMA CountBound ==
  ASSUME NEW n \in Nat, NEW S \in SUBSET (1..n)
  PROVE  /\ IsFiniteSet(S)
         /\ Cardinality(S) \in 0..n
         /\ Cardinality(S) = n => S = 1..n
<1>1. IsFiniteSet(1..n) /\ Cardinality(1..n) = n
  BY FS_Interval
<1>2. IsFiniteSet(S) /\ Cardinality(S) <= n /\ (Cardinality(S) = n => S = 1..n)
  BY <1>1, FS_Subset
<1> QED BY <1>2, FS_CardinalityType

LEMMA MatchingType ==
  ASSUME NEW c, NEW rs \in Seq(Evidence)
  PROVE  MatchingCleanReplays(c, rs) \in 0..Len(rs)
BY CountBound DEF MatchingCleanReplays

(* The rubric stays within its 100 points, and an assessment is a verdict
   that never asks for information (assess_evidence). *)
LEMMA AssessmentType ==
  ASSUME NEW c \in Evidence, NEW rs \in Seq(Evidence)
  PROVE  /\ AssessEvidence(c, rs) \in Verdict
         /\ AssessEvidence(c, rs).status # "NEED_INFO"
<1>1. BaseScore(c) \in 0..90
  BY DEF BaseScore, Points, Evidence
<1>m. MatchingCleanReplays(c, rs) \in Nat
  BY MatchingType
<1>2. CASE Disqualified(c, rs)
  BY <1>2 DEF AssessEvidence, Verdict
<1>3. CASE ~Disqualified(c, rs) /\ MatchingCleanReplays(c, rs) >= 2
  <2>1. AssessEvidence(c, rs) = [status |-> "REPRODUCED", score |-> BaseScore(c) + 10]
    BY <1>m, <1>3 DEF AssessEvidence
  <2>2. BaseScore(c) + 10 \in 0..100
    <3>1. \A b \in 0..90 : b + 10 \in 0..100
      OBVIOUS
    <3> QED BY <1>1, <3>1
  <2> QED BY <2>1, <2>2 DEF Verdict
<1>4. CASE ~Disqualified(c, rs) /\ ~(MatchingCleanReplays(c, rs) >= 2)
  BY <1>m, <1>1, <1>4 DEF AssessEvidence, Verdict
<1> QED BY <1>2, <1>3, <1>4

(* The evidence record of a run is well typed, and the failure origin of a
   failed test is known (_evidence_from_run). *)
LEMMA EvidenceType ==
  ASSUME NEW run \in SandboxRun, NEW c \in Candidate, NEW n \in Nat,
         NEW phase \in {"CANDIDATE", "REPLAY"}
  PROVE  /\ EvidenceFromRun(run, n, phase, c) \in Evidence
         /\ EvidenceFromRun(run, n, phase, c).phase = phase
         /\ EvidenceFromRun(run, n, phase, c).testFailed
              => EvidenceFromRun(run, n, phase, c).origin # "unknown"
<1> DEFINE e == EvidenceFromRun(run, n, phase, c)
<1>1. run.signature \in Signature \cup {None} /\ run.mismatch \in Mismatches \cup {None}
  BY DEF SandboxRun
<1>2. RepositoryFrame(run) \in BOOLEAN /\ SymptomMatches(run) \in BOOLEAN
  BY <1>1 DEF RepositoryFrame, SymptomMatches, Signature
<1>3. FailureOrigin(run) \in {"repository", "generated_test", "unknown"}
  BY DEF FailureOrigin
<1>4. ProbeVerified(run, c) \in BOOLEAN /\ c.api \in BOOLEAN
  BY DEF ProbeVerified, Candidate
<1>5. TimedOut(run) \in BOOLEAN /\ SetupValid(run) \in BOOLEAN /\ TestFailed(run) \in BOOLEAN
  BY DEF TimedOut, SetupValid, TestFailed
<1>6. e \in Evidence
  BY <1>1, <1>2, <1>3, <1>4, <1>5 DEF EvidenceFromRun, Evidence
<1>7. e.phase = phase /\ (e.testFailed => e.origin # "unknown")
  BY DEF EvidenceFromRun, FailureOrigin
<1> QED BY <1>6, <1>7

-----------------------------------------------------------------------------
(* Where the investigation is fixes what it holds: an attempt number, a
   candidate to run, a candidate run to replay and as many replays as have
   been run; and a failed test of a recorded run has a known origin. *)
StageInv ==
  /\ pc \in InLoop => attempt \in 1..MaxAttempts
  /\ pc \in {"candidate", "replay_1", "replay_2"} => candidates # <<>>
  /\ pc \in {"validate", "propose", "candidate"} => candidateEvidence = None
  /\ pc \in {"replay_1", "replay_2", "assess"} => candidateEvidence # None
  /\ pc \in {"validate", "propose", "candidate", "replay_1"} => replays = <<>>
  /\ pc = "replay_2" => Len(replays) = 1
  /\ pc = "assess" => Len(replays) \in {0, 2}
  /\ pc = "returned" => verdict # None

OriginInv ==
  /\ candidateEvidence # None /\ candidateEvidence.testFailed => candidateEvidence.origin # "unknown"
  /\ \A i \in DOMAIN replays : replays[i].testFailed => replays[i].origin # "unknown"

TypeInv == TypeOK /\ StageInv /\ OriginInv

LEMMA AppendLength ==
  ASSUME NEW S, NEW s \in Seq(S), NEW e \in S
  PROVE  /\ Append(s, e) \in Seq(S)
         /\ Len(Append(s, e)) = Len(s) + 1
         /\ Append(s, e)[Len(s) + 1] = e
         /\ \A i \in 1..Len(s) : Append(s, e)[i] = s[i]
OBVIOUS

LEMMA RunEvidence ==
  ASSUME TypeInv, pc \in {"candidate", "replay_1", "replay_2"},
         NEW run \in Runs, NEW n \in Nat, NEW phase \in {"CANDIDATE", "REPLAY"}
  PROVE  /\ EvidenceFromRun(run, n, phase, CurrentCandidate) \in Evidence
         /\ EvidenceFromRun(run, n, phase, CurrentCandidate).phase = phase
         /\ EvidenceFromRun(run, n, phase, CurrentCandidate).testFailed
              => EvidenceFromRun(run, n, phase, CurrentCandidate).origin # "unknown"
<1>1. CurrentCandidate \in Candidate
  BY DEF TypeInv, TypeOK, StageInv, CurrentCandidate
<1>2. run \in SandboxRun
  BY InvestigationAssumption
<1> QED BY <1>1, <1>2, EvidenceType

THEOREM TypeInvInit == Init => TypeInv
BY InvestigationAssumption DEF Init, TypeInv, TypeOK, StageInv, OriginInv, InLoop

LEMMA AssessmentInLoop ==
  ASSUME TypeInv, pc = "assess"
  PROVE  Assessment \in Verdict /\ Assessment.status # "NEED_INFO"
<1>1. candidateEvidence \in Evidence /\ replays \in Seq(Evidence)
  BY DEF TypeInv, TypeOK, StageInv
<1> QED BY <1>1, AssessmentType DEF Assessment

THEOREM TypeInvNext == TypeInv /\ [Next]_vars => TypeInv'
<1> SUFFICES ASSUME TypeInv, [Next]_vars PROVE TypeInv'
  OBVIOUS
<1> USE DEF TypeInv
<1>1. CASE UNCHANGED vars
  BY <1>1 DEF vars, TypeOK, StageInv, OriginInv
<1>2. CASE AcceptTicket
  <2>1. TypeOK'
    BY <1>2, InvestigationAssumption DEF AcceptTicket, TypeOK, InLoop, Log, EventKind
  <2>2. StageInv'
    BY <1>2, InvestigationAssumption DEF AcceptTicket, TypeOK, StageInv, InLoop
  <2> QED BY <1>2, <2>1, <2>2 DEF AcceptTicket, OriginInv
<1>3. CASE NeedInfo
  <2>1. TypeOK'
    BY <1>3 DEF NeedInfo, TypeOK, InLoop, Log, EventKind, Verdict
  <2>2. StageInv'
    BY <1>3, InvestigationAssumption DEF NeedInfo, StageInv, InLoop, Verdict
  <2> QED BY <1>3, <2>1, <2>2 DEF NeedInfo, OriginInv
<1>4. CASE \E c \in Candidates : Propose(c)
  <2> PICK c \in Candidates : Propose(c)
    BY <1>4
  <2>1. TypeOK'
    BY InvestigationAssumption DEF Propose, TypeOK, InLoop
  <2>2. StageInv'
    BY DEF Propose, TypeOK, StageInv, InLoop
  <2> QED BY <2>1, <2>2 DEF Propose, OriginInv
<1>5. CASE RejectCandidate
  <2>1. TypeOK'
    BY <1>5 DEF RejectCandidate, Refuse, TypeOK, InLoop, Log, EventKind, Verdict
  <2>2. StageInv'
    BY <1>5, InvestigationAssumption DEF RejectCandidate, Refuse, StageInv, InLoop, Verdict
  <2> QED BY <1>5, <2>1, <2>2 DEF RejectCandidate, Refuse, OriginInv
<1>6. CASE \E run \in Runs : RunCandidate(run)
  <2> PICK run \in Runs : RunCandidate(run)
    BY <1>6
  <2> DEFINE e == EvidenceFromRun(run, attempt, "CANDIDATE", CurrentCandidate)
  <2>0. pc = "candidate" /\ attempt \in Nat
    BY DEF RunCandidate, TypeOK
  <2>1. e \in Evidence /\ (e.testFailed => e.origin # "unknown")
    BY <2>0, RunEvidence
  <2>2. /\ pc' \in {"replay_1", "assess"}
        /\ candidateEvidence' = e /\ evidence' = Append(evidence, e)
        /\ UNCHANGED <<attempt, candidates, replays, lastVerdict, verdict, timeline>>
    BY DEF RunCandidate
  <2> HIDE DEF e
  <2>3. TypeOK'
    BY <2>1, <2>2 DEF TypeOK, InLoop
  <2>4. StageInv'
    BY <2>0, <2>1, <2>2, InvestigationAssumption DEF StageInv, InLoop
  <2>5. OriginInv'
    BY <2>1, <2>2 DEF OriginInv
  <2> QED BY <2>3, <2>4, <2>5
<1>7. CASE \E run \in Runs : RunFirstReplay(run)
  <2> PICK run \in Runs : RunFirstReplay(run)
    BY <1>7
  <2> DEFINE e == EvidenceFromRun(run, attempt, "REPLAY", CurrentCandidate)
  <2>0. pc = "replay_1" /\ attempt \in Nat
    BY DEF RunFirstReplay, TypeOK
  <2>1. e \in Evidence /\ (e.testFailed => e.origin # "unknown")
    BY <2>0, RunEvidence
  <2>2. /\ pc' = "replay_2" /\ replays' = <<e>>
        /\ UNCHANGED <<attempt, candidates, evidence, candidateEvidence, lastVerdict, verdict, timeline>>
    BY DEF RunFirstReplay
  <2> HIDE DEF e
  <2>3. TypeOK'
    BY <2>1, <2>2 DEF TypeOK, InLoop
  <2>4. StageInv'
    BY <2>0, <2>2 DEF StageInv, InLoop
  <2>5. OriginInv'
    BY <2>1, <2>2 DEF OriginInv
  <2> QED BY <2>3, <2>4, <2>5
<1>8. CASE \E run \in Runs : RunSecondReplay(run)
  <2> PICK run \in Runs : RunSecondReplay(run)
    BY <1>8
  <2> DEFINE e == EvidenceFromRun(run, attempt + 1, "REPLAY", CurrentCandidate)
  <2>0. pc = "replay_2" /\ attempt \in Nat /\ attempt + 1 \in Nat
    BY DEF RunSecondReplay, TypeOK
  <2>1. e \in Evidence /\ (e.testFailed => e.origin # "unknown")
    BY <2>0, RunEvidence
  <2>2. /\ pc' = "assess" /\ replays' = Append(replays, e)
        /\ evidence' = evidence \o Append(replays, e)
        /\ timeline' = timeline \o <<"REPLAY_EVALUATED">>
        /\ UNCHANGED <<attempt, candidates, candidateEvidence, lastVerdict, verdict>>
    BY DEF RunSecondReplay, Log
  <2> HIDE DEF e
  <2>a. replays' \in Seq(Evidence)
    BY <2>1, <2>2 DEF TypeOK
  <2>b. evidence' \in Seq(Evidence)
    BY <2>2, <2>a DEF TypeOK
  <2>c. timeline' \in Seq(EventKind)
    BY <2>2 DEF TypeOK, EventKind
  <2>d. pc' = "assess" /\ attempt' \in 0..MaxAttempts /\ candidates' \in Seq(Candidate)
        /\ lastVerdict' \in Verdict \cup {None} /\ verdict' \in Verdict \cup {None}
        /\ candidateEvidence' \in Evidence \cup {None}
    BY <2>2 DEF TypeOK
  <2>3. TypeOK'
    BY <2>a, <2>b, <2>c, <2>d DEF TypeOK, InLoop
  <2>e. Len(replays') = 2
    <3>1. replays \in Seq(Evidence) /\ Len(replays) = 1
      BY <2>0 DEF StageInv, TypeOK
    <3>2. replays' = Append(replays, e)
      BY <2>2
    <3>3. \A s \in Seq(Evidence), x \in Evidence : Len(Append(s, x)) = Len(s) + 1
      BY AppendLength
    <3>4. Len(Append(replays, e)) = Len(replays) + 1
      BY <2>1, <3>1, <3>3
    <3> QED BY <3>1, <3>2, <3>4
  <2>f. attempt' \in 1..MaxAttempts /\ candidateEvidence' # None
    BY <2>0, <2>2 DEF StageInv, InLoop
  <2>4. StageInv'
    BY <2>d, <2>e, <2>f DEF StageInv, InLoop
  <2>5. OriginInv'
    BY <2>1, <2>2 DEF OriginInv, TypeOK
  <2> QED BY <2>3, <2>4, <2>5
<1>9. CASE ReturnReproduced \/ ReturnExhausted
  <2>1. pc = "assess" /\ ReturnAssessment
    BY <1>9 DEF ReturnReproduced, ReturnExhausted, NotReproduced
  <2>2. Assessment \in Verdict
    BY <2>1, AssessmentInLoop
  <2>3. TypeOK'
    BY <2>1, <2>2 DEF ReturnAssessment, TypeOK, Log, EventKind
  <2>4. StageInv'
    BY <2>1, <2>2, InvestigationAssumption DEF ReturnAssessment, StageInv, InLoop
  <2> QED BY <2>1, <2>3, <2>4 DEF ReturnAssessment, OriginInv
<1>10. CASE Retry
  <2>1. pc = "assess" /\ attempt < MaxAttempts /\ NextAttempt
    BY <1>10 DEF Retry, NotReproduced
  <2>2. Assessment \in Verdict
    BY <2>1, AssessmentInLoop
  <2>3. TypeOK'
    BY <2>1, <2>2, InvestigationAssumption DEF NextAttempt, TypeOK, InLoop, Log, EventKind
  <2>4. StageInv'
    BY <2>1, InvestigationAssumption DEF NextAttempt, StageInv, TypeOK, InLoop
  <2> QED BY <2>1, <2>3, <2>4 DEF NextAttempt, OriginInv
<1>11. CASE Raise
  BY <1>11 DEF Raise, TypeOK, StageInv, OriginInv, InLoop
<1> QED
  BY <1>1, <1>2, <1>3, <1>4, <1>5, <1>6, <1>7, <1>8, <1>9, <1>10, <1>11 DEF Next

THEOREM TypeInvariant == Spec => []TypeInv
BY TypeInvInit, TypeInvNext, PTL DEF Spec

(* Every variable keeps its type and every score stays in the rubric's 100
   points, for every set of candidates and runs and every budget. *)
THEOREM TypeCorrect == Spec => []TypeOK
BY TypeInvariant, PTL DEF TypeInv

-----------------------------------------------------------------------------
(* What a REPRODUCED verdict stands for. *)
Known(e) == e.testFailed => e.origin # "unknown"

LEMMA PairCount ==
  ASSUME NEW S \in SUBSET (1..2)
  PROVE  /\ Cardinality(S) \in 0..2
         /\ Cardinality(S) >= 2 <=> S = 1..2
<1>1. Cardinality(S) \in 0..2 /\ (Cardinality(S) = 2 => S = 1..2)
  BY CountBound
<1>2. S = 1..2 => Cardinality(S) = 2
  <2>1. IsFiniteSet({1}) /\ Cardinality({1}) = 1
    BY FS_Singleton
  <2>2. Cardinality({1} \cup {2}) = Cardinality({1}) + 1
    BY <2>1, FS_AddElement
  <2>3. 1..2 = {1} \cup {2}
    OBVIOUS
  <2> QED BY <2>1, <2>2, <2>3
<1> QED BY <1>1, <1>2

LEMMA PairMatch ==
  ASSUME NEW c \in Evidence, NEW rs \in Seq(Evidence), Len(rs) \in {0, 2}
  PROVE  MatchingCleanReplays(c, rs) >= 2
           <=> Len(rs) = 2 /\ CleanMatch(c, rs[1]) /\ CleanMatch(c, rs[2])
<1> DEFINE S == { i \in DOMAIN rs : CleanMatch(c, rs[i]) }
<1>1. S \in SUBSET (1..Len(rs)) /\ Len(rs) \in Nat
  OBVIOUS
<1>2. /\ Cardinality(S) \in 0..Len(rs)
      /\ Cardinality(S) = Len(rs) => S = 1..Len(rs)
  BY <1>1, CountBound
<1>3. CASE Len(rs) = 0
  BY <1>2, <1>3 DEF MatchingCleanReplays
<1>4. CASE Len(rs) = 2
  <2>1. Cardinality(S) >= 2 <=> S = 1..2
    <3>1. S \in SUBSET (1..2)
      BY <1>1, <1>4
    <3> QED BY <3>1, PairCount
  <2>2. S = 1..2 <=> CleanMatch(c, rs[1]) /\ CleanMatch(c, rs[2])
    <3>1. DOMAIN rs = 1..2 /\ 1..2 = {1, 2}
      BY <1>4
    <3> QED BY <3>1
  <2> QED BY <1>4, <2>1, <2>2 DEF MatchingCleanReplays
<1> QED BY <1>3, <1>4

(* The scorer says REPRODUCED exactly for a qualifying candidate run that two
   replays confirm: no score, threshold or bonus can add to or take from it. *)
THEOREM ReproducedMeans ==
  ASSUME NEW c \in Evidence, NEW rs \in Seq(Evidence), Len(rs) \in {0, 2},
         Known(c), \A i \in DOMAIN rs : Known(rs[i])
  PROVE  AssessEvidence(c, rs).status = "REPRODUCED"
           <=> Len(rs) = 2 /\ Qualifies(c) /\ Confirms(c, rs[1]) /\ Confirms(c, rs[2])
<1>1. MatchingCleanReplays(c, rs) \in Nat
  BY MatchingType
<1>2. AssessEvidence(c, rs).status = "REPRODUCED"
        <=> ~Disqualified(c, rs) /\ MatchingCleanReplays(c, rs) >= 2
  BY <1>1 DEF AssessEvidence
<1>3. c.origin \in {"repository", "generated_test", "unknown"}
  BY DEF Evidence
<1>4. ASSUME Len(rs) = 2, NEW i \in {1, 2}
      PROVE  CleanMatch(c, rs[i]) <=> Confirms(c, rs[i])
  <2>1. rs[i] \in Evidence /\ Known(rs[i])
    BY <1>4
  <2>2. rs[i].origin \in {"repository", "generated_test", "unknown"}
    BY <2>1 DEF Evidence
  <2> QED BY <2>1, <2>2 DEF CleanMatch, Confirms, Known
<1>5. ASSUME ~Disqualified(c, rs) PROVE Qualifies(c)
  BY <1>3, <1>5 DEF Disqualified, Qualifies, Known
<1>6. ASSUME Qualifies(c), Len(rs) = 2, MatchingCleanReplays(c, rs) >= 2
      PROVE  ~Disqualified(c, rs)
  BY <1>1, <1>6 DEF Disqualified, Qualifies
<1> QED BY <1>2, <1>4, <1>5, <1>6, PairMatch

-----------------------------------------------------------------------------
(* The refinement of the evidence gate. *)
Held(c, rs) == Cardinality({ i \in DOMAIN rs : Confirms(c, rs[i]) })

(* One more replay adds at most one to the runs that confirm the candidate. *)
LEMMA HeldAppend ==
  ASSUME NEW c, NEW rs \in Seq(Evidence), NEW e \in Evidence
  PROVE  /\ Held(c, rs) \in 0..Len(rs)
         /\ Held(c, Append(rs, e)) \in {Held(c, rs), Held(c, rs) + 1}
<1> DEFINE S == { i \in DOMAIN rs : Confirms(c, rs[i]) }
           T == { i \in DOMAIN Append(rs, e) : Confirms(c, Append(rs, e)[i]) }
           n == Len(rs) + 1
<1>1. S \in SUBSET (1..Len(rs)) /\ Len(rs) \in Nat /\ n \notin S
  OBVIOUS
<1>2. IsFiniteSet(S) /\ Cardinality(S) \in 0..Len(rs)
  BY <1>1, CountBound
<1>3. T = S \/ T = S \cup {n}
  <2>1. DOMAIN Append(rs, e) = DOMAIN rs \cup {n}
    OBVIOUS
  <2>2. \A i \in DOMAIN rs : Append(rs, e)[i] = rs[i]
    OBVIOUS
  <2>3. T = S \cup { i \in {n} : Confirms(c, Append(rs, e)[i]) }
    BY <2>1, <2>2
  <2> QED BY <2>3
<1>4. Cardinality(S \cup {n}) = Cardinality(S) + 1
  BY <1>1, <1>2, FS_AddElement
<1> QED BY <1>2, <1>3, <1>4 DEF Held

LEMMA AgreedRunsDef ==
  AgreedRuns = IF candidateEvidence = None THEN 0
               ELSE IF ~Qualifies(candidateEvidence) THEN 0
               ELSE 1 + Held(candidateEvidence, replays)
BY DEF AgreedRuns, Held

(* A replay run keeps the count, or raises it by one while it is below 3. *)
LEMMA ReplayAgrees ==
  ASSUME TypeInv, NEW e \in Evidence, Len(replays) <= 1,
         candidateEvidence # None, UNCHANGED candidateEvidence,
         replays' = Append(replays, e)
  PROVE  \/ AgreedRuns' = AgreedRuns
         \/ AgreedRuns < 3 /\ AgreedRuns' = AgreedRuns + 1
<1> DEFINE c == candidateEvidence
<1>1. replays \in Seq(Evidence) /\ Len(replays) \in Nat
  BY DEF TypeInv, TypeOK
<1>2. /\ Held(c, replays) \in 0..Len(replays)
      /\ Held(c, Append(replays, e)) \in {Held(c, replays), Held(c, replays) + 1}
  BY <1>1, HeldAppend
<1>3. AgreedRuns' = IF ~Qualifies(c) THEN 0 ELSE 1 + Held(c, Append(replays, e))
  BY DEF AgreedRuns, Held
<1>4. AgreedRuns = IF ~Qualifies(c) THEN 0 ELSE 1 + Held(c, replays)
  BY AgreedRunsDef
<1> HIDE DEF c
<1>5. \A a, b, k \in Int : a \in 0..k /\ k <= 1 /\ b \in {a, a + 1} =>
        \/ 1 + b = 1 + a
        \/ 1 + a < 3 /\ 1 + b = 1 + a + 1
  OBVIOUS
<1>6. CASE Qualifies(c)
  <2>1. Held(c, replays) \in Int /\ Held(c, Append(replays, e)) \in Int /\ Len(replays) \in Int
    BY <1>1, <1>2
  <2>2. \/ 1 + Held(c, Append(replays, e)) = 1 + Held(c, replays)
        \/ /\ 1 + Held(c, replays) < 3
           /\ 1 + Held(c, Append(replays, e)) = 1 + Held(c, replays) + 1
    BY <1>2, <1>5, <2>1
  <2> QED BY <1>3, <1>4, <1>6, <2>2
<1>7. CASE ~Qualifies(c)
  BY <1>3, <1>4, <1>7
<1> QED BY <1>6, <1>7

(* An assessment says REPRODUCED only while three agreeing runs are held. *)
LEMMA ReproducedAgreed ==
  ASSUME TypeInv, pc = "assess", Assessment.status = "REPRODUCED"
  PROVE  AgreedRuns = 3
<1> DEFINE c == candidateEvidence
           S == { i \in DOMAIN replays : Confirms(c, replays[i]) }
<1>1. c \in Evidence /\ c # None /\ replays \in Seq(Evidence) /\ Len(replays) \in {0, 2}
  BY DEF TypeInv, TypeOK, StageInv
<1>2. Known(c) /\ \A i \in DOMAIN replays : Known(replays[i])
  BY <1>1 DEF TypeInv, OriginInv, Known
<1>3. Len(replays) = 2 /\ Qualifies(c) /\ Confirms(c, replays[1]) /\ Confirms(c, replays[2])
  BY <1>1, <1>2, ReproducedMeans DEF Assessment
<1>4. S = 1..2
  <2>1. DOMAIN replays = 1..2 /\ 1..2 = {1, 2}
    BY <1>1, <1>3
  <2> QED BY <1>3, <2>1
<1>5. Cardinality(S) = 2
  BY <1>4, PairCount
<1> QED BY <1>1, <1>3, <1>5 DEF AgreedRuns

LEMMA GateInit == Init => Gate!Init
BY DEF Init, Gate!Init, AgreedRuns, Outcome

LEMMA GateStep ==
  ASSUME TypeInv, [Next]_vars
  PROVE  [Gate!Next]_<<AgreedRuns, Outcome>>
<1> DEFINE Negative == {"NEED_INFO", "NOT_REPRODUCED", "INCONCLUSIVE", "raised"}
           Ended(o) == /\ Outcome = "open" /\ Outcome' = o /\ AgreedRuns' = AgreedRuns
                       /\ o \in Negative \cup {"REPRODUCED"}
                       /\ o = "REPRODUCED" => AgreedRuns = 3
<1>0. ASSUME NEW o, Ended(o) PROVE Gate!Next
  <2>1. Gate!Conclude(o)
    BY <1>0 DEF Gate!Conclude, Gate!Required
  <2> QED BY <1>0, <2>1 DEF Gate!Next
<1>1. CASE UNCHANGED vars
  BY <1>1 DEF vars, AgreedRuns, Outcome
<1>2. CASE AcceptTicket
  BY <1>2 DEF AcceptTicket, AgreedRuns, Outcome
<1>3. CASE NeedInfo
  <2>1. Ended("NEED_INFO")
    BY <1>3 DEF NeedInfo, AgreedRuns, Outcome
  <2> QED BY <1>0, <2>1
<1>4. CASE \E c \in Candidates : Propose(c)
  BY <1>4 DEF Propose, AgreedRuns, Outcome
<1>5. CASE RejectCandidate
  <2>1. Ended("INCONCLUSIVE")
    BY <1>5 DEF RejectCandidate, Refuse, AgreedRuns, Outcome
  <2> QED BY <1>0, <2>1
<1>6. CASE \E run \in Runs : RunCandidate(run)
  <2> PICK run \in Runs : RunCandidate(run)
    BY <1>6
  <2>1. pc = "candidate" /\ candidateEvidence = None /\ replays = <<>> /\ replays' = <<>>
    BY DEF RunCandidate, TypeInv, StageInv
  <2>2. AgreedRuns = 0 /\ AgreedRuns' \in {0, 1}
    <3>1. { i \in DOMAIN replays' : Confirms(candidateEvidence', (replays')[i]) } = {}
      BY <2>1
    <3>2. Cardinality({ i \in DOMAIN replays' : Confirms(candidateEvidence', (replays')[i]) }) = 0
      BY <3>1, FS_EmptySet
    <3> QED BY <2>1, <3>2 DEF AgreedRuns
  <2>3. Outcome = "open" /\ Outcome' = "open"
    BY <2>1 DEF RunCandidate, Outcome
  <2> QED BY <2>2, <2>3 DEF Gate!Next, Gate!Agree, Gate!Required
<1>7. CASE \E run \in Runs : RunFirstReplay(run) \/ RunSecondReplay(run)
  <2> PICK run \in Runs : RunFirstReplay(run) \/ RunSecondReplay(run)
    BY <1>7
  <2> DEFINE first  == EvidenceFromRun(run, attempt, "REPLAY", CurrentCandidate)
             second == EvidenceFromRun(run, attempt + 1, "REPLAY", CurrentCandidate)
  <2>1. pc \in {"replay_1", "replay_2"} /\ attempt \in Nat /\ attempt + 1 \in Nat
    BY DEF RunFirstReplay, RunSecondReplay, TypeInv, TypeOK
  <2>2. first \in Evidence /\ second \in Evidence
    BY <2>1, RunEvidence
  <2>3. PICK e \in Evidence : replays' = Append(replays, e)
    <3>1. CASE RunFirstReplay(run)
      <4>1. replays = <<>> /\ replays' = <<first>>
        BY <3>1 DEF RunFirstReplay, TypeInv, StageInv
      <4>2. replays' = Append(replays, first)
        BY <2>2, <4>1
      <4> QED BY <2>2, <4>2
    <3>2. CASE RunSecondReplay(run)
      BY <2>2, <3>2 DEF RunSecondReplay
    <3> QED BY <3>1, <3>2
  <2>4. Len(replays) <= 1 /\ candidateEvidence # None /\ UNCHANGED candidateEvidence
    <3>1. UNCHANGED candidateEvidence
      BY DEF RunFirstReplay, RunSecondReplay
    <3>2. candidateEvidence # None
      BY <2>1 DEF TypeInv, StageInv
    <3>3. pc = "replay_1" => Len(replays) = 0
      BY DEF TypeInv, StageInv
    <3>4. pc = "replay_2" => Len(replays) = 1
      BY DEF TypeInv, StageInv
    <3>5. Len(replays) \in {0, 1}
      BY <2>1, <3>3, <3>4
    <3>6. \A n \in {0, 1} : n <= 1
      OBVIOUS
    <3> QED BY <3>1, <3>2, <3>5, <3>6
  <2>5. AgreedRuns' = AgreedRuns \/ (AgreedRuns < 3 /\ AgreedRuns' = AgreedRuns + 1)
    BY <2>3, <2>4, ReplayAgrees
  <2>6. Outcome = "open" /\ Outcome' = "open"
    BY <2>1 DEF RunFirstReplay, RunSecondReplay, Outcome
  <2> QED BY <2>5, <2>6 DEF Gate!Next, Gate!Agree, Gate!Required
<1>8. CASE ReturnReproduced \/ ReturnExhausted
  <2>1. pc = "assess" /\ ReturnAssessment
    BY <1>8 DEF ReturnReproduced, ReturnExhausted, NotReproduced
  <2>2. Assessment \in Verdict /\ Assessment.status # "NEED_INFO"
    BY <2>1, AssessmentInLoop
  <2>3. Outcome = "open" /\ Outcome' = Assessment.status /\ AgreedRuns' = AgreedRuns
    BY <2>1 DEF ReturnAssessment, Outcome, AgreedRuns
  <2>4. Assessment.status \in Negative \cup {"REPRODUCED"}
    BY <2>2 DEF Verdict
  <2>5. Assessment.status = "REPRODUCED" => AgreedRuns = 3
    BY <2>1, ReproducedAgreed
  <2> QED BY <1>0, <2>3, <2>4, <2>5
<1>9. CASE Retry
  <2>1. Outcome = "open" /\ Outcome' = "open" /\ AgreedRuns' = 0
    BY <1>9 DEF Retry, NotReproduced, NextAttempt, Outcome, AgreedRuns
  <2> QED BY <2>1 DEF Gate!Next, Gate!Discard
<1>10. CASE Raise
  <2>1. Ended("raised")
    BY <1>10 DEF Raise, AgreedRuns, Outcome
  <2> QED BY <1>0, <2>1
<1> QED
  BY <1>1, <1>2, <1>3, <1>4, <1>5, <1>6, <1>7, <1>8, <1>9, <1>10 DEF Next

(* The orchestrator with its rubric implements the evidence gate: it holds at
   most three agreeing runs, concludes once, and concludes REPRODUCED only
   with the candidate run and both replays in agreement. *)
THEOREM GateImplemented == Spec => ImplementsGate
BY TypeInvariant, GateInit, GateStep, PTL DEF Spec, ImplementsGate, Gate!Spec

-----------------------------------------------------------------------------
(* The returned verdict and the evidence list.  ReproducedIffProven is not
   inductive: it speaks of returned bundles only, so ProofInv says where a
   proof can be in the list while the investigation still runs. *)
ProofIn(s, i) ==
  /\ i + 2 \in DOMAIN s
  /\ s[i].phase = "CANDIDATE" /\ Qualifies(s[i])
  /\ \A k \in {i + 1, i + 2} : s[k].phase = "REPLAY" /\ Confirms(s[i], s[k])

(* A proof is always the attempt under assessment, never an earlier one. *)
ProofIsLast ==
  \A i \in DOMAIN evidence : ProofIn(evidence, i) =>
    /\ pc \in {"assess", "returned"}
    /\ i + 2 = Len(evidence)
    /\ Len(replays) = 2
    /\ candidateEvidence = evidence[i]
    /\ replays[1] = evidence[i + 1] /\ replays[2] = evidence[i + 2]

(* The candidate run is recorded before its replays, and is the last record. *)
CandidateRecorded ==
  pc \in {"replay_1", "replay_2"} =>
    /\ Len(evidence) >= 1
    /\ evidence[Len(evidence)] = candidateEvidence
    /\ candidateEvidence.phase = "CANDIDATE"
    /\ pc = "replay_2" => replays[1].phase = "REPLAY"

(* The runs under assessment are the last ones recorded. *)
AttemptRecorded ==
  pc = "assess" /\ Len(replays) = 2 =>
    /\ Len(evidence) >= 3
    /\ evidence[Len(evidence) - 2] = candidateEvidence /\ candidateEvidence.phase = "CANDIDATE"
    /\ evidence[Len(evidence) - 1] = replays[1] /\ replays[1].phase = "REPLAY"
    /\ evidence[Len(evidence)] = replays[2] /\ replays[2].phase = "REPLAY"

VerdictStands ==
  pc = "returned" =>
    (verdict.status = "REPRODUCED" <=> \E i \in DOMAIN evidence : ProofIn(evidence, i))

ProofInv == ProofIsLast /\ CandidateRecorded /\ AttemptRecorded /\ VerdictStands

(* Recording one more candidate run adds no proof. *)
LEMMA ProofAppend ==
  ASSUME NEW s \in Seq(Evidence), NEW e \in Evidence, e.phase = "CANDIDATE",
         NEW i \in DOMAIN Append(s, e), ProofIn(Append(s, e), i)
  PROVE  i \in DOMAIN s /\ ProofIn(s, i)
<1> DEFINE t == Append(s, e)
<1>1. /\ t \in Seq(Evidence) /\ Len(s) \in Nat /\ DOMAIN t = 1..(Len(s) + 1) /\ DOMAIN s = 1..Len(s)
      /\ t[Len(s) + 1] = e /\ \A j \in 1..Len(s) : t[j] = s[j]
  BY AppendLength
<1> HIDE DEF t
<1>2. /\ i \in DOMAIN t /\ i + 2 \in DOMAIN t
      /\ t[i].phase = "CANDIDATE" /\ Qualifies(t[i])
      /\ t[i + 1].phase = "REPLAY" /\ Confirms(t[i], t[i + 1])
      /\ t[i + 2].phase = "REPLAY" /\ Confirms(t[i], t[i + 2])
  BY DEF ProofIn, t
<1>3. i + 2 # Len(s) + 1
  BY <1>1, <1>2
<1>4. i \in 1..Len(s) /\ i + 1 \in 1..Len(s) /\ i + 2 \in 1..Len(s)
  BY <1>1, <1>2, <1>3
<1>5. t[i] = s[i] /\ t[i + 1] = s[i + 1] /\ t[i + 2] = s[i + 2]
  BY <1>1, <1>4
<1> QED BY <1>1, <1>2, <1>4, <1>5 DEF ProofIn

(* Recording two replays after a candidate run can only make that run a proof. *)
LEMMA ProofPair ==
  ASSUME NEW s \in Seq(Evidence), Len(s) >= 1, s[Len(s)].phase = "CANDIDATE",
         NEW rs \in Seq(Evidence), Len(rs) = 2
  PROVE  /\ \A i \in DOMAIN (s \o rs) : ProofIn(s \o rs, i) =>
              i = Len(s) \/ (i \in DOMAIN s /\ ProofIn(s, i))
         /\ Len(s \o rs) = Len(s) + 2
         /\ (s \o rs)[Len(s)] = s[Len(s)]
         /\ (s \o rs)[Len(s) + 1] = rs[1]
         /\ (s \o rs)[Len(s) + 2] = rs[2]
<1> DEFINE t == s \o rs
           n == Len(s)
<1>a. /\ t \in Seq(Evidence) /\ Len(t) = n + Len(rs)
      /\ \A j \in 1..(n + Len(rs)) : t[j] = IF j <= n THEN s[j] ELSE rs[j - n]
  BY ConcatProperties
<1>b. n \in Nat /\ DOMAIN s = 1..n /\ DOMAIN t = 1..Len(t)
  BY <1>a
<1> HIDE DEF t, n
<1>1. /\ n \in Nat /\ DOMAIN s = 1..n /\ DOMAIN t = 1..(n + 2) /\ Len(t) = n + 2
      /\ \A j \in 1..n : t[j] = s[j]
  BY <1>a, <1>b
<1>2. t[n + 1] = rs[1] /\ t[n + 2] = rs[2]
  BY <1>a, <1>b
<1>3. n >= 1 /\ t[n] = s[n]
  BY <1>1 DEF n
<1>4. ASSUME NEW i \in DOMAIN t, ProofIn(t, i), i # n
      PROVE  i \in DOMAIN s /\ ProofIn(s, i)
  <2>1. /\ i + 2 \in DOMAIN t
        /\ t[i].phase = "CANDIDATE" /\ Qualifies(t[i])
        /\ t[i + 1].phase = "REPLAY" /\ Confirms(t[i], t[i + 1])
        /\ t[i + 2].phase = "REPLAY" /\ Confirms(t[i], t[i + 2])
    BY <1>4 DEF ProofIn
  <2>2. t[n].phase = "CANDIDATE"
    BY <1>3 DEF n
  <2>3. i + 1 # n
    BY <2>1, <2>2
  <2>4. i \in 1..n /\ i + 1 \in 1..n /\ i + 2 \in 1..n
    BY <1>1, <1>4, <2>1, <2>3
  <2>5. t[i] = s[i] /\ t[i + 1] = s[i + 1] /\ t[i + 2] = s[i + 2]
    BY <1>1, <2>4
  <2> QED BY <1>1, <2>1, <2>4, <2>5 DEF ProofIn
<1> QED BY <1>1, <1>2, <1>3, <1>4 DEF t, n

(* The scorer says REPRODUCED exactly when the runs just recorded are a proof. *)
LEMMA AssessmentProof ==
  ASSUME TypeInv, ProofInv, pc = "assess"
  PROVE  Assessment.status = "REPRODUCED" <=> \E i \in DOMAIN evidence : ProofIn(evidence, i)
<1>1. /\ candidateEvidence \in Evidence /\ replays \in Seq(Evidence) /\ Len(replays) \in {0, 2}
      /\ evidence \in Seq(Evidence)
  BY DEF TypeInv, TypeOK, StageInv
<1>2. Known(candidateEvidence) /\ \A i \in DOMAIN replays : Known(replays[i])
  BY InvestigationAssumption, <1>1 DEF TypeInv, OriginInv, Known
<1>3. Assessment.status = "REPRODUCED"
        <=> /\ Len(replays) = 2 /\ Qualifies(candidateEvidence)
            /\ Confirms(candidateEvidence, replays[1]) /\ Confirms(candidateEvidence, replays[2])
  BY <1>1, <1>2, ReproducedMeans DEF Assessment
<1>4. ASSUME Assessment.status = "REPRODUCED"
      PROVE  \E i \in DOMAIN evidence : ProofIn(evidence, i)
  <2> DEFINE n == Len(evidence)
  <2>1. /\ n >= 3
        /\ evidence[n - 2] = candidateEvidence /\ candidateEvidence.phase = "CANDIDATE"
        /\ evidence[n - 1] = replays[1] /\ replays[1].phase = "REPLAY"
        /\ evidence[n] = replays[2] /\ replays[2].phase = "REPLAY"
    BY <1>3, <1>4 DEF ProofInv, AttemptRecorded
  <2>2. n \in Nat /\ DOMAIN evidence = 1..n
    BY <1>1
  <2> HIDE DEF n
  <2>3. n - 2 \in DOMAIN evidence /\ (n - 2) + 1 = n - 1 /\ (n - 2) + 2 = n /\ n \in DOMAIN evidence
    BY <2>1, <2>2
  <2>4. ProofIn(evidence, n - 2)
    BY <1>3, <1>4, <2>1, <2>3 DEF ProofIn
  <2> QED BY <2>3, <2>4
<1>5. ASSUME NEW i \in DOMAIN evidence, ProofIn(evidence, i)
      PROVE  Assessment.status = "REPRODUCED"
  <2>1. /\ Len(replays) = 2 /\ candidateEvidence = evidence[i]
        /\ replays[1] = evidence[i + 1] /\ replays[2] = evidence[i + 2]
    BY <1>5 DEF ProofInv, ProofIsLast
  <2> QED BY <1>3, <1>5, <2>1 DEF ProofIn
<1> QED BY <1>4, <1>5

LEMMA ProofInvInit == Init => ProofInv
BY DEF Init, ProofInv, ProofIsLast, CandidateRecorded, AttemptRecorded, VerdictStands

LEMMA SecondOfTwo ==
  ASSUME NEW s, NEW t, NEW x, Len(s) = 1, Len(t) = Len(s) + 1,
         t[Len(s) + 1] = x, \A i \in 1..Len(s) : t[i] = s[i]
  PROVE  Len(t) = 2 /\ t[1] = s[1] /\ t[2] = x
OBVIOUS

LEMMA AppendSecond ==
  \A s \in Seq(Evidence), x \in Evidence :
    LET t == Append(s, x) IN
    /\ t \in Seq(Evidence)
    /\ Len(s) = 1 => Len(t) = 2 /\ t[1] = s[1] /\ t[2] = x
<1> TAKE s \in Seq(Evidence), x \in Evidence
<1> DEFINE t == Append(s, x)
<1>1. /\ t \in Seq(Evidence) /\ Len(t) = Len(s) + 1
      /\ t[Len(s) + 1] = x /\ \A i \in 1..Len(s) : t[i] = s[i]
  BY AppendLength
<1> HIDE DEF t
<1>2. Len(s) = 1 => Len(t) = 2 /\ t[1] = s[1] /\ t[2] = x
  BY <1>1, SecondOfTwo
<1> QED BY <1>1, <1>2 DEF t

LEMMA ProofInvNext ==
  ASSUME TypeInv, TypeInv', ProofInv, [Next]_vars
  PROVE  ProofInv'
<1> DEFINE NoProof == \A i \in DOMAIN evidence : ~ProofIn(evidence, i)
<1> USE DEF ProofInv
<1>0. pc \notin {"assess", "returned"} => NoProof
  BY DEF ProofIsLast
<1>1. CASE UNCHANGED vars
  BY <1>1 DEF vars, ProofIsLast, CandidateRecorded, AttemptRecorded, VerdictStands
<1>2. CASE AcceptTicket \/ NeedInfo \/ (\E c \in Candidates : Propose(c)) \/ RejectCandidate \/ Raise
  <2>1. NoProof /\ UNCHANGED evidence
    BY <1>0, <1>2 DEF AcceptTicket, NeedInfo, Propose, RejectCandidate, Refuse, Raise
  <2>2. /\ pc' \in {"propose", "candidate", "returned", "raised"}
        /\ pc' = "returned" => verdict'.status # "REPRODUCED"
    BY <1>2 DEF AcceptTicket, NeedInfo, Propose, RejectCandidate, Refuse, Raise
  <2>3. ProofIsLast' /\ VerdictStands'
    BY <2>1, <2>2 DEF ProofIsLast, VerdictStands
  <2>4. CandidateRecorded' /\ AttemptRecorded'
    BY <2>2 DEF CandidateRecorded, AttemptRecorded
  <2> QED BY <2>3, <2>4
<1>3. CASE \E run \in Runs : RunCandidate(run)
  <2> PICK run \in Runs : RunCandidate(run)
    BY <1>3
  <2> DEFINE e == EvidenceFromRun(run, attempt, "CANDIDATE", CurrentCandidate)
  <2>1. pc = "candidate" /\ attempt \in Nat /\ evidence \in Seq(Evidence) /\ replays = <<>>
    BY DEF RunCandidate, TypeInv, TypeOK, StageInv
  <2>2. e \in Evidence /\ e.phase = "CANDIDATE"
    BY <2>1, RunEvidence
  <2>3. /\ evidence' = Append(evidence, e) /\ candidateEvidence' = e
        /\ replays' = <<>> /\ pc' \in {"replay_1", "assess"}
    BY <2>1 DEF RunCandidate
  <2> HIDE DEF e
  <2>4. \A i \in DOMAIN evidence' : ~ProofIn(evidence', i)
    BY <1>0, <2>1, <2>2, <2>3, ProofAppend
  <2>5. ProofIsLast' /\ VerdictStands' /\ AttemptRecorded'
    BY <2>3, <2>4 DEF ProofIsLast, VerdictStands, AttemptRecorded
  <2>6. Len(evidence') >= 1 /\ evidence'[Len(evidence')] = e
    <3>1. Len(evidence) \in Nat /\ Len(evidence') = Len(evidence) + 1
          /\ evidence'[Len(evidence) + 1] = e
      BY <2>1, <2>2, <2>3, AppendLength
    <3> QED BY <3>1
  <2>7. CandidateRecorded'
    BY <2>2, <2>3, <2>6 DEF CandidateRecorded
  <2> QED BY <2>5, <2>7
<1>4. CASE \E run \in Runs : RunFirstReplay(run)
  <2> PICK run \in Runs : RunFirstReplay(run)
    BY <1>4
  <2> DEFINE e == EvidenceFromRun(run, attempt, "REPLAY", CurrentCandidate)
  <2>1. pc = "replay_1" /\ attempt \in Nat
    BY DEF RunFirstReplay, TypeInv, TypeOK
  <2>2. e \in Evidence /\ e.phase = "REPLAY"
    BY <2>1, RunEvidence
  <2>3. pc' = "replay_2" /\ replays' = <<e>> /\ UNCHANGED <<evidence, candidateEvidence>>
    BY DEF RunFirstReplay
  <2> HIDE DEF e
  <2>4. ProofIsLast' /\ VerdictStands' /\ AttemptRecorded'
    BY <1>0, <2>1, <2>3 DEF ProofIsLast, VerdictStands, AttemptRecorded
  <2>5. CandidateRecorded'
    BY <2>1, <2>2, <2>3 DEF CandidateRecorded
  <2> QED BY <2>4, <2>5
<1>5. CASE \E run \in Runs : RunSecondReplay(run)
  <2> PICK run \in Runs : RunSecondReplay(run)
    BY <1>5
  <2> DEFINE e == EvidenceFromRun(run, attempt + 1, "REPLAY", CurrentCandidate)
             n == Len(evidence)
  <2>1. pc = "replay_2" /\ attempt + 1 \in Nat /\ evidence \in Seq(Evidence)
        /\ replays \in Seq(Evidence) /\ Len(replays) = 1
    BY DEF RunSecondReplay, TypeInv, TypeOK, StageInv
  <2>2. e \in Evidence /\ e.phase = "REPLAY"
    BY <2>1, RunEvidence
  <2>3. /\ pc' = "assess" /\ replays' = Append(replays, e)
        /\ evidence' = evidence \o replays' /\ UNCHANGED candidateEvidence
    BY DEF RunSecondReplay
  <2> HIDE DEF e
  <2>4. /\ replays' \in Seq(Evidence) /\ Len(replays') = 2
        /\ replays'[1] = replays[1] /\ replays'[2] = e
    BY <2>1, <2>2, <2>3, AppendSecond
  <2>5. /\ n >= 1 /\ evidence[n] = candidateEvidence
        /\ candidateEvidence.phase = "CANDIDATE" /\ replays[1].phase = "REPLAY"
    BY <2>1 DEF CandidateRecorded
  <2>6. /\ \A i \in DOMAIN evidence' :
             ProofIn(evidence', i) => i = n \/ (i \in DOMAIN evidence /\ ProofIn(evidence, i))
        /\ Len(evidence') = n + 2
        /\ evidence'[n] = evidence[n]
        /\ evidence'[n + 1] = replays'[1]
        /\ evidence'[n + 2] = replays'[2]
    BY <2>1, <2>3, <2>4, <2>5, ProofPair
  <2>7. n \in Nat
    BY <2>1
  <2> HIDE DEF n
  <2>8. \A i \in DOMAIN evidence' : ProofIn(evidence', i) => i = n
    BY <1>0, <2>1, <2>6
  <2>a. ASSUME NEW i \in DOMAIN evidence', ProofIn(evidence', i)
        PROVE  /\ i + 2 = Len(evidence') /\ candidateEvidence' = evidence'[i]
               /\ replays'[1] = evidence'[i + 1] /\ replays'[2] = evidence'[i + 2]
    <3>1. i = n
      BY <2>8, <2>a
    <3> QED BY <2>3, <2>5, <2>6, <3>1
  <2>9. ProofIsLast'
    BY <2>3, <2>4, <2>a DEF ProofIsLast
  <2>10. AttemptRecorded'
    <3>1. Len(evidence') >= 3 /\ Len(evidence') - 2 = n /\ Len(evidence') - 1 = n + 1
      BY <2>5, <2>6, <2>7
    <3> QED BY <2>2, <2>3, <2>4, <2>5, <2>6, <3>1 DEF AttemptRecorded
  <2>11. CandidateRecorded' /\ VerdictStands'
    BY <2>3 DEF CandidateRecorded, VerdictStands
  <2> QED BY <2>9, <2>10, <2>11
<1>6. CASE ReturnReproduced \/ ReturnExhausted
  <2>1. pc = "assess" /\ ReturnAssessment
    BY <1>6 DEF ReturnReproduced, ReturnExhausted, NotReproduced
  <2>2. verdict'.status = "REPRODUCED" <=> \E i \in DOMAIN evidence : ProofIn(evidence, i)
    BY <2>1, AssessmentProof DEF ReturnAssessment
  <2>3. pc' = "returned" /\ UNCHANGED <<evidence, candidateEvidence, replays>>
    BY <2>1 DEF ReturnAssessment
  <2> QED
    BY <2>2, <2>3 DEF ProofIsLast, CandidateRecorded, AttemptRecorded, VerdictStands
<1>7. CASE Retry
  <2>1. NoProof
    BY <1>7, AssessmentProof DEF Retry, NotReproduced
  <2>2. pc' = "propose" /\ UNCHANGED evidence
    BY <1>7 DEF Retry, NextAttempt
  <2> QED
    BY <2>1, <2>2 DEF ProofIsLast, CandidateRecorded, AttemptRecorded, VerdictStands
<1> QED BY <1>1, <1>2, <1>3, <1>4, <1>5, <1>6, <1>7 DEF Next

LEMMA ProofInvSound == ProofInv => ReproducedIffProven
<1>1. \A i : ProofAt(i) <=> ProofIn(evidence, i)
  BY DEF ProofAt, ProofIn
<1> QED BY <1>1 DEF ProofInv, ProofIsLast, VerdictStands, ReproducedIffProven

(* A returned bundle says REPRODUCED exactly when its evidence holds a
   candidate run that two replays confirm, as the last three runs: for every
   set of candidates and runs, and however many attempts the budget allows. *)
THEOREM VerdictSound == Spec => []ReproducedIffProven
<1>1. Spec => [](TypeInv /\ ProofInv)
  BY TypeInvariant, TypeInvNext, ProofInvInit, ProofInvNext, PTL DEF Spec
<1>2. TypeInv /\ ProofInv => ReproducedIffProven
  BY ProofInvSound
<1> QED BY <1>1, <1>2, PTL

-----------------------------------------------------------------------------
(* Counting the records and events of a bundle.  BundleConsistent speaks of
   returned bundles only: CountInv and PairInv say what the counts and the
   replay pairs are at every stage before. *)
Kinds(t, k)  == { i \in DOMAIN t : t[i] = k }
Phases(s, p) == { i \in DOMAIN s : s[i].phase = p }
Paired(s, i) == i + 2 \in Phases(s, "REPLAY") /\ i + 1 \in Phases(s, "REPLAY")

(* Each entry appended to a log adds one to the count of its kind only. *)
LEMMA KindsAppend ==
  ASSUME NEW t \in Seq(EventKind), NEW a \in EventKind, NEW k
  PROVE  /\ Cardinality(Kinds(t, k)) \in Nat
         /\ Cardinality(Kinds(Append(t, a), k)) = Cardinality(Kinds(t, k)) + (IF a = k THEN 1 ELSE 0)
<1> DEFINE n == Len(t) + 1
<1>1. Kinds(t, k) \in SUBSET (1..Len(t)) /\ Len(t) \in Nat /\ n \notin Kinds(t, k)
  BY DEF Kinds
<1>2. IsFiniteSet(Kinds(t, k)) /\ Cardinality(Kinds(t, k)) \in Nat
  BY <1>1, CountBound
<1>3. Kinds(Append(t, a), k) = IF a = k THEN Kinds(t, k) \cup {n} ELSE Kinds(t, k)
  <2>1. DOMAIN Append(t, a) = DOMAIN t \cup {n} /\ n \notin DOMAIN t
    OBVIOUS
  <2>2. Append(t, a)[n] = a /\ \A i \in DOMAIN t : Append(t, a)[i] = t[i]
    OBVIOUS
  <2> HIDE DEF n
  <2> QED BY <2>1, <2>2 DEF Kinds
<1>4. Cardinality(Kinds(t, k) \cup {n}) = Cardinality(Kinds(t, k)) + 1
  BY <1>1, <1>2, FS_AddElement
<1> QED BY <1>2, <1>3, <1>4

(* The same of the evidence list and the phases of its records. *)
LEMMA PhasesAppend ==
  ASSUME NEW s \in Seq(Evidence), NEW e \in Evidence, NEW p
  PROVE  /\ Cardinality(Phases(s, p)) \in Nat
         /\ Cardinality(Phases(Append(s, e), p)) = Cardinality(Phases(s, p)) + (IF e.phase = p THEN 1 ELSE 0)
         /\ Phases(Append(s, e), p) = IF e.phase = p THEN Phases(s, p) \cup {Len(s) + 1} ELSE Phases(s, p)
<1> DEFINE n == Len(s) + 1
<1>1. Phases(s, p) \in SUBSET (1..Len(s)) /\ Len(s) \in Nat /\ n \notin Phases(s, p)
  BY DEF Phases
<1>2. IsFiniteSet(Phases(s, p)) /\ Cardinality(Phases(s, p)) \in Nat
  BY <1>1, CountBound
<1>3. Phases(Append(s, e), p) = IF e.phase = p THEN Phases(s, p) \cup {n} ELSE Phases(s, p)
  <2>1. DOMAIN Append(s, e) = DOMAIN s \cup {n} /\ n \notin DOMAIN s
    OBVIOUS
  <2>2. Append(s, e)[n] = e /\ \A i \in DOMAIN s : Append(s, e)[i] = s[i]
    OBVIOUS
  <2> HIDE DEF n
  <2> QED BY <2>1, <2>2 DEF Phases
<1>4. Cardinality(Phases(s, p) \cup {n}) = Cardinality(Phases(s, p)) + 1
  BY <1>1, <1>2, FS_AddElement
<1> QED BY <1>2, <1>3, <1>4

LEMMA PairMembers ==
  ASSUME NEW S, NEW t \in Seq(S), Len(t) = 2 PROVE t[1] \in S /\ t[2] \in S
OBVIOUS

(* Two entries are appended one after the other. *)
LEMMA ConcatPair ==
  ASSUME NEW S, NEW s \in Seq(S), NEW t \in Seq(S), Len(t) = 2
  PROVE  s \o t = Append(Append(s, t[1]), t[2])
<1> DEFINE u == s \o t
           v == Append(Append(s, t[1]), t[2])
<1>1. t[1] \in S /\ t[2] \in S
  BY PairMembers
<1>2. u \in Seq(S) /\ Len(u) = Len(s) + 2 /\ \A i \in 1..(Len(s) + 2) : u[i] = IF i <= Len(s) THEN s[i] ELSE t[i - Len(s)]
  <2>1. /\ u \in Seq(S) /\ Len(u) = Len(s) + Len(t)
        /\ \A i \in 1..(Len(s) + Len(t)) : u[i] = IF i <= Len(s) THEN s[i] ELSE t[i - Len(s)]
    BY ConcatProperties
  <2> HIDE DEF u
  <2> QED BY <2>1
<1>3. /\ Append(s, t[1]) \in Seq(S) /\ Len(Append(s, t[1])) = Len(s) + 1
      /\ Append(s, t[1])[Len(s) + 1] = t[1] /\ \A i \in 1..Len(s) : Append(s, t[1])[i] = s[i]
  BY <1>1, AppendLength
<1>4. /\ v \in Seq(S) /\ Len(v) = Len(s) + 2
      /\ v[Len(s) + 2] = t[2] /\ \A i \in 1..(Len(s) + 1) : v[i] = Append(s, t[1])[i]
  BY <1>1, <1>3
<1> HIDE DEF u, v
<1>5. Len(s) \in Nat
  OBVIOUS
<1>6. ASSUME NEW i \in 1..(Len(s) + 2) PROVE u[i] = v[i]
  <2>1. CASE i \in 1..Len(s)
    <3>1. i <= Len(s) /\ i \in 1..(Len(s) + 1)
      BY <1>5, <2>1
    <3>2. u[i] = s[i]
      BY <1>2, <3>1
    <3>3. v[i] = s[i]
      BY <1>3, <1>4, <2>1, <3>1
    <3> QED BY <3>2, <3>3
  <2>2. CASE i = Len(s) + 1
    <3>1. ~(i <= Len(s)) /\ i - Len(s) = 1 /\ i \in 1..(Len(s) + 1)
      BY <1>5, <2>2
    <3>2. u[i] = t[1]
      BY <1>2, <3>1
    <3>3. v[i] = t[1]
      BY <1>3, <1>4, <2>2, <3>1
    <3> QED BY <3>2, <3>3
  <2>3. CASE i = Len(s) + 2
    <3>1. ~(i <= Len(s)) /\ i - Len(s) = 2
      BY <1>5, <2>3
    <3>2. u[i] = t[2]
      BY <1>2, <3>1
    <3>3. v[i] = t[2]
      BY <1>4, <2>3
    <3> QED BY <3>2, <3>3
  <2> QED BY <1>5, <2>1, <2>2, <2>3
<1>7. u = v
  BY <1>2, <1>4, <1>6, SeqEqual
<1> QED BY <1>7 DEF u, v

Executed == Cardinality(Phases(evidence, "CANDIDATE"))
Replayed == Cardinality(Phases(evidence, "REPLAY"))
Logged(k) == Cardinality(Kinds(timeline, k))
Tried == Len(candidates)

CountInv ==
  /\ Replayed = 2 * Logged("REPLAY_EVALUATED")
  /\ pc = "validate" =>
       Tried = 0 /\ Executed = 0 /\ Logged("CANDIDATE_EVALUATED") = 0 /\ attempt = 0
  /\ pc = "propose" =>
       Tried = attempt - 1 /\ Executed = attempt - 1 /\ Logged("CANDIDATE_EVALUATED") = attempt - 1
  /\ pc = "candidate" =>
       Tried = attempt /\ Executed = attempt - 1 /\ Logged("CANDIDATE_EVALUATED") = attempt - 1
  /\ pc \in {"replay_1", "replay_2", "assess"} =>
       Tried = attempt /\ Executed = attempt /\ Logged("CANDIDATE_EVALUATED") = attempt - 1
  /\ pc = "returned" =>
       /\ Executed = Tried /\ Tried <= attempt
       /\ Logged("CANDIDATE_EVALUATED") =
            Tried + (IF verdict.status = "INCONCLUSIVE" /\ Tried < attempt THEN 1 ELSE 0)

(* Only the candidate run whose replays are under way is not yet paired. *)
PairInv ==
  pc # "raised" =>
    \A i \in Phases(evidence, "CANDIDATE") :
      IF pc \in {"replay_1", "replay_2"} /\ i = Len(evidence)
        THEN Replayable(evidence[i])
        ELSE Replayable(evidence[i]) <=> Paired(evidence, i)

LEMMA LogOne ==
  ASSUME TypeInv, NEW a \in EventKind, Log(<<a>>)
  PROVE  \A k : Logged(k) \in Nat /\ Logged(k)' = Logged(k) + (IF a = k THEN 1 ELSE 0)
<1>1. timeline \in Seq(EventKind)
  BY DEF TypeInv, TypeOK
<1>2. timeline' = Append(timeline, a)
  BY <1>1, AppendIsConcat DEF Log
<1> QED BY <1>1, <1>2, KindsAppend DEF Logged

LEMMA LogTwo ==
  ASSUME TypeInv, NEW a \in EventKind, NEW b \in EventKind, Log(<<a, b>>)
  PROVE  \A k : /\ Logged(k) \in Nat
                /\ Logged(k)' = Logged(k) + (IF a = k THEN 1 ELSE 0) + (IF b = k THEN 1 ELSE 0)
<1>1. timeline \in Seq(EventKind) /\ <<a, b>> \in Seq(EventKind) /\ Len(<<a, b>>) = 2
  BY DEF TypeInv, TypeOK
<1>2. timeline' = Append(Append(timeline, a), b)
  BY <1>1, ConcatPair DEF Log
<1>3. Append(timeline, a) \in Seq(EventKind)
  BY <1>1
<1>4. ASSUME NEW k
      PROVE  /\ Cardinality(Kinds(timeline, k)) \in Nat
             /\ Cardinality(Kinds(Append(timeline, a), k)) =
                  Cardinality(Kinds(timeline, k)) + (IF a = k THEN 1 ELSE 0)
             /\ Cardinality(Kinds(Append(Append(timeline, a), b), k)) =
                  Cardinality(Kinds(Append(timeline, a), k)) + (IF b = k THEN 1 ELSE 0)
  <2>1. PICK one \in Seq(EventKind) : one = Append(timeline, a)
    BY <1>3
  <2>2. /\ Cardinality(Kinds(timeline, k)) \in Nat
        /\ Cardinality(Kinds(one, k)) = Cardinality(Kinds(timeline, k)) + (IF a = k THEN 1 ELSE 0)
    BY <1>1, <2>1, KindsAppend
  <2>3. Cardinality(Kinds(Append(one, b), k)) = Cardinality(Kinds(one, k)) + (IF b = k THEN 1 ELSE 0)
    BY KindsAppend
  <2> QED BY <2>1, <2>2, <2>3
<1> QED BY <1>2, <1>4 DEF Logged

(* Steps that record no run. *)
LEMMA CountFrame ==
  ASSUME UNCHANGED evidence PROVE UNCHANGED <<Executed, Replayed>>
BY DEF Executed, Replayed

LEMMA PairFrame ==
  ASSUME PairInv, pc \notin {"replay_1", "replay_2", "raised"}, pc' \notin {"replay_1", "replay_2"},
         UNCHANGED evidence
  PROVE  PairInv'
BY DEF PairInv

(* A recorded candidate run is executed once more, and not yet paired. *)
LEMMA CandidateCounts ==
  ASSUME TypeInv, NEW e \in Evidence, e.phase = "CANDIDATE", evidence' = Append(evidence, e)
  PROVE  /\ Executed \in Nat /\ Executed' = Executed + 1 /\ Replayed' = Replayed
         /\ evidence'[Len(evidence')] = e
         /\ \A i \in Phases(evidence', "CANDIDATE") :
              \/ /\ i \in Phases(evidence, "CANDIDATE") /\ i # Len(evidence')
                 /\ evidence'[i] = evidence[i] /\ (Paired(evidence', i) <=> Paired(evidence, i))
              \/ i = Len(evidence') /\ ~Paired(evidence', i)
<1>1. evidence \in Seq(Evidence) /\ Len(evidence) \in Nat
  BY DEF TypeInv, TypeOK
<1>2. /\ Phases(evidence', "CANDIDATE") = Phases(evidence, "CANDIDATE") \cup {Len(evidence) + 1}
      /\ Phases(evidence', "REPLAY") = Phases(evidence, "REPLAY")
      /\ Executed \in Nat /\ Executed' = Executed + 1 /\ Replayed' = Replayed
  BY <1>1, PhasesAppend DEF Executed, Replayed
<1>3. /\ Len(evidence') = Len(evidence) + 1 /\ evidence'[Len(evidence) + 1] = e
      /\ \A i \in 1..Len(evidence) : evidence'[i] = evidence[i]
  BY <1>1, AppendLength
<1>4. \A i : Paired(evidence', i) <=> Paired(evidence, i)
  BY <1>2 DEF Paired
<1>5. \A p : Phases(evidence, p) \in SUBSET (1..Len(evidence))
  BY <1>1 DEF Phases
<1>6. ~Paired(evidence, Len(evidence) + 1)
  BY <1>1, <1>5 DEF Paired
<1> QED BY <1>1, <1>2, <1>3, <1>4, <1>5, <1>6

(* Two recorded replays pair the candidate run before them, and no other. *)
LEMMA ReplaysCount ==
  ASSUME TypeInv, NEW rs \in Seq(Evidence), Len(rs) = 2, rs[1].phase = "REPLAY", rs[2].phase = "REPLAY",
         evidence' = evidence \o rs, Len(evidence) >= 1, evidence[Len(evidence)].phase = "CANDIDATE"
  PROVE  /\ Replayed \in Nat /\ Executed' = Executed /\ Replayed' = Replayed + 2
         /\ \A i \in Phases(evidence', "CANDIDATE") :
              /\ i \in Phases(evidence, "CANDIDATE") /\ evidence'[i] = evidence[i]
              /\ IF i = Len(evidence) THEN Paired(evidence', i)
                                      ELSE Paired(evidence', i) <=> Paired(evidence, i)
<1> DEFINE n == Len(evidence)
           one == Append(evidence, rs[1])
<1>1. evidence \in Seq(Evidence) /\ n \in Nat /\ rs[1] \in Evidence /\ rs[2] \in Evidence
  <2>1. evidence \in Seq(Evidence)
    BY DEF TypeInv, TypeOK
  <2>2. rs[1] \in Evidence /\ rs[2] \in Evidence
    BY PairMembers
  <2> QED BY <2>1, <2>2
<1>2. one \in Seq(Evidence) /\ Len(one) = n + 1 /\ evidence' = Append(one, rs[2])
  BY <1>1, ConcatPair, AppendLength
<1>3. /\ Phases(one, "CANDIDATE") = Phases(evidence, "CANDIDATE")
      /\ Phases(one, "REPLAY") = Phases(evidence, "REPLAY") \cup {n + 1}
      /\ Cardinality(Phases(one, "REPLAY")) = Replayed + 1 /\ Replayed \in Nat
  BY <1>1, PhasesAppend DEF Replayed
<1> HIDE DEF one
<1>4. /\ Phases(evidence', "CANDIDATE") = Phases(one, "CANDIDATE")
      /\ Phases(evidence', "REPLAY") = Phases(one, "REPLAY") \cup {n + 2}
      /\ Cardinality(Phases(evidence', "REPLAY")) = Cardinality(Phases(one, "REPLAY")) + 1
  <2>1. Len(one) + 1 = n + 2
    BY <1>1, <1>2
  <2> QED BY <1>1, <1>2, <2>1, PhasesAppend
<1>5. Executed' = Executed /\ Replayed' = Replayed + 2
  BY <1>3, <1>4 DEF Executed, Replayed
<1>6. \A i \in 1..n : evidence'[i] = evidence[i]
  <2>1. \A i \in 1..n : one[i] = evidence[i]
    BY <1>1, AppendLength DEF one
  <2>2. \A i \in 1..(n + 1) : evidence'[i] = one[i]
    BY <1>1, <1>2, AppendLength
  <2> QED BY <1>1, <2>1, <2>2
<1>7. /\ Phases(evidence, "CANDIDATE") \in SUBSET (1..n) /\ Phases(evidence, "REPLAY") \in SUBSET (1..n)
      /\ n \notin Phases(evidence, "REPLAY")
  BY <1>1 DEF Phases
<1>8. Paired(evidence', n)
  BY <1>1, <1>3, <1>4 DEF Paired
<1>9. ASSUME NEW i \in Phases(evidence, "CANDIDATE"), i # n PROVE Paired(evidence', i) <=> Paired(evidence, i)
  <2>1. i \in 1..n
    BY <1>7
  <2>2. Phases(evidence', "REPLAY") = Phases(evidence, "REPLAY") \cup {n + 1, n + 2}
    BY <1>3, <1>4
  <2>3. CASE i = n - 1
    <3>1. i + 1 = n /\ n # n + 1 /\ n # n + 2
      BY <1>1, <2>3
    <3> QED BY <1>7, <2>2, <3>1 DEF Paired
  <2>4. CASE i # n - 1
    <3>1. i + 1 # n + 1 /\ i + 1 # n + 2 /\ i + 2 # n + 1 /\ i + 2 # n + 2
      BY <1>1, <1>9, <2>1, <2>4
    <3> QED BY <2>2, <3>1 DEF Paired
  <2> QED BY <2>3, <2>4
<1> QED BY <1>3, <1>4, <1>5, <1>6, <1>7, <1>8, <1>9

LEMMA CountInit == Init => CountInv /\ PairInv
<1> SUFFICES ASSUME Init PROVE CountInv /\ PairInv
  OBVIOUS
<1>1. evidence = <<>> /\ timeline = <<>> /\ candidates = <<>> /\ pc = "validate" /\ attempt = 0
  BY DEF Init
<1>2. \A p : Phases(evidence, p) = {}
  BY <1>1 DEF Phases
<1>3. \A k : Kinds(timeline, k) = {}
  BY <1>1 DEF Kinds
<1>4. Executed = 0 /\ Replayed = 0 /\ \A k : Logged(k) = 0
  BY <1>2, <1>3, FS_EmptySet DEF Executed, Replayed, Logged
<1> QED BY <1>1, <1>2, <1>4 DEF CountInv, PairInv, Tried

LEMMA CountNext ==
  ASSUME TypeInv, ProofInv, CountInv, PairInv, [Next]_vars
  PROVE  CountInv' /\ PairInv'
<1>0. attempt \in Nat /\ candidates \in Seq(Candidate) /\ Tried \in Nat /\ evidence \in Seq(Evidence)
  BY InvestigationAssumption DEF TypeInv, TypeOK, Tried
<1>1. CASE UNCHANGED vars
  BY <1>1 DEF vars, CountInv, PairInv, Executed, Replayed, Logged, Tried, Paired
<1>2. CASE AcceptTicket
  <2>1. /\ pc = "validate" /\ pc' = "propose" /\ attempt' = 1 /\ Log(<<"INPUT_VALIDATED">>)
        /\ UNCHANGED <<candidates, evidence>>
    BY <1>2 DEF AcceptTicket
  <2>2. \A k \in {"CANDIDATE_EVALUATED", "REPLAY_EVALUATED"} : Logged(k)' = Logged(k)
    BY <2>1, LogOne DEF EventKind
  <2> QED BY <2>1, <2>2, CountFrame, PairFrame DEF CountInv, Tried
<1>3. CASE NeedInfo
  <2>1. /\ pc = "validate" /\ pc' = "returned" /\ verdict'.status = "NEED_INFO"
        /\ Log(<<"INPUT_VALIDATED", "VERDICT_EMITTED">>) /\ UNCHANGED <<attempt, candidates, evidence>>
    BY <1>3 DEF NeedInfo
  <2>2. \A k \in {"CANDIDATE_EVALUATED", "REPLAY_EVALUATED"} : Logged(k)' = Logged(k)
    BY <2>1, LogTwo DEF EventKind
  <2> QED BY <2>1, <2>2, CountFrame, PairFrame DEF CountInv, Tried
<1>4. CASE \E c \in Candidates : Propose(c)
  <2>1. /\ pc = "propose" /\ pc' = "candidate" /\ UNCHANGED <<attempt, evidence, timeline>>
        /\ Tried' = Tried + 1
    BY <1>0, <1>4, InvestigationAssumption DEF Propose, Tried
  <2> QED BY <1>0, <2>1, CountFrame, PairFrame DEF CountInv, Logged
<1>5. CASE RejectCandidate
  <2>1. /\ pc = "propose" /\ pc' = "returned" /\ verdict'.status = "INCONCLUSIVE"
        /\ Log(<<"CANDIDATE_EVALUATED", "VERDICT_EMITTED">>) /\ UNCHANGED <<attempt, candidates, evidence>>
    BY <1>5 DEF RejectCandidate, Refuse
  <2>2. /\ Logged("CANDIDATE_EVALUATED")' = Logged("CANDIDATE_EVALUATED") + 1
        /\ Logged("REPLAY_EVALUATED")' = Logged("REPLAY_EVALUATED")
    BY <2>1, LogTwo DEF EventKind
  <2> QED BY <1>0, <2>1, <2>2, CountFrame, PairFrame DEF CountInv, Tried
<1>6. CASE \E run \in Runs : RunCandidate(run)
  <2> PICK run \in Runs : RunCandidate(run)
    BY <1>6
  <2> DEFINE e == EvidenceFromRun(run, attempt, "CANDIDATE", CurrentCandidate)
  <2>1. pc = "candidate" /\ e \in Evidence /\ e.phase = "CANDIDATE"
    BY <1>0, RunEvidence DEF RunCandidate
  <2>2. /\ evidence' = Append(evidence, e) /\ UNCHANGED <<attempt, candidates, timeline>>
        /\ pc' = IF Replayable(e) THEN "replay_1" ELSE "assess"
    BY <2>1 DEF RunCandidate
  <2> HIDE DEF e
  <2>3. /\ Executed \in Nat /\ Executed' = Executed + 1 /\ Replayed' = Replayed
        /\ evidence'[Len(evidence')] = e
        /\ \A i \in Phases(evidence', "CANDIDATE") :
             \/ /\ i \in Phases(evidence, "CANDIDATE") /\ i # Len(evidence')
                /\ evidence'[i] = evidence[i] /\ (Paired(evidence', i) <=> Paired(evidence, i))
             \/ i = Len(evidence') /\ ~Paired(evidence', i)
    BY <2>1, <2>2, CandidateCounts
  <2>4. CountInv'
    BY <1>0, <2>1, <2>2, <2>3 DEF CountInv, Tried, Logged
  <2>5. \A i \in Phases(evidence, "CANDIDATE") : Replayable(evidence[i]) <=> Paired(evidence, i)
    BY <2>1 DEF PairInv
  <2>6. ASSUME NEW i \in Phases(evidence', "CANDIDATE")
        PROVE  IF pc' \in {"replay_1", "replay_2"} /\ i = Len(evidence')
                 THEN Replayable(evidence'[i])
                 ELSE Replayable(evidence'[i]) <=> Paired(evidence', i)
    <3>1. CASE i = Len(evidence')
      <4>1. evidence'[i] = e /\ ~Paired(evidence', i)
        BY <2>3, <2>6, <3>1
      <4>2. CASE Replayable(e)
        BY <2>2, <3>1, <4>1, <4>2
      <4>3. CASE ~Replayable(e)
        BY <2>2, <3>1, <4>1, <4>3
      <4> QED BY <4>2, <4>3
    <3>2. CASE i # Len(evidence')
      BY <2>3, <2>5, <2>6, <3>2
    <3> QED BY <3>1, <3>2
  <2>7. PairInv'
    BY <2>6 DEF PairInv
  <2> QED BY <2>4, <2>7
<1>7. CASE \E run \in Runs : RunFirstReplay(run)
  <2>1. /\ pc = "replay_1" /\ pc' = "replay_2" /\ UNCHANGED <<attempt, candidates, evidence, timeline>>
    BY <1>7 DEF RunFirstReplay
  <2>2. CountInv'
    BY <2>1, CountFrame DEF CountInv, Tried, Logged
  <2> QED BY <2>1, <2>2 DEF PairInv
<1>8. CASE \E run \in Runs : RunSecondReplay(run)
  <2> PICK run \in Runs : RunSecondReplay(run)
    BY <1>8
  <2> DEFINE e == EvidenceFromRun(run, attempt + 1, "REPLAY", CurrentCandidate)
  <2>1. pc = "replay_2" /\ attempt + 1 \in Nat /\ replays \in Seq(Evidence) /\ Len(replays) = 1
    BY <1>0 DEF RunSecondReplay, TypeInv, TypeOK, StageInv
  <2>2. e \in Evidence /\ e.phase = "REPLAY"
    BY <2>1, RunEvidence
  <2>3. /\ pc' = "assess" /\ replays' = Append(replays, e) /\ evidence' = evidence \o replays'
        /\ Log(<<"REPLAY_EVALUATED">>) /\ UNCHANGED <<attempt, candidates>>
    BY DEF RunSecondReplay
  <2> HIDE DEF e
  <2>4. replays' \in Seq(Evidence) /\ Len(replays') = 2 /\ replays'[1] = replays[1] /\ replays'[2] = e
    BY <2>1, <2>2, <2>3, AppendSecond
  <2>5. /\ Len(evidence) >= 1 /\ evidence[Len(evidence)].phase = "CANDIDATE"
        /\ replays[1].phase = "REPLAY"
    BY <2>1 DEF ProofInv, CandidateRecorded
  <2>6. /\ Replayed \in Nat /\ Executed' = Executed /\ Replayed' = Replayed + 2
        /\ \A i \in Phases(evidence', "CANDIDATE") :
             /\ i \in Phases(evidence, "CANDIDATE") /\ evidence'[i] = evidence[i]
             /\ IF i = Len(evidence) THEN Paired(evidence', i)
                                     ELSE Paired(evidence', i) <=> Paired(evidence, i)
    BY <2>2, <2>3, <2>4, <2>5, ReplaysCount
  <2>7. /\ Logged("REPLAY_EVALUATED")' = Logged("REPLAY_EVALUATED") + 1
        /\ Logged("REPLAY_EVALUATED") \in Nat
        /\ Logged("CANDIDATE_EVALUATED")' = Logged("CANDIDATE_EVALUATED")
    BY <2>3, LogOne DEF EventKind
  <2>8. CountInv'
    BY <2>1, <2>3, <2>6, <2>7 DEF CountInv, Tried
  <2>9. PairInv'
    BY <2>1, <2>3, <2>6 DEF PairInv
  <2> QED BY <2>8, <2>9
<1>9. CASE ReturnReproduced \/ ReturnExhausted
  <2>1. /\ pc = "assess" /\ pc' = "returned" /\ UNCHANGED <<attempt, candidates, evidence>>
        /\ Log(<<"CANDIDATE_EVALUATED", "VERDICT_EMITTED">>)
    BY <1>9 DEF ReturnReproduced, ReturnExhausted, NotReproduced, ReturnAssessment
  <2>2. /\ Logged("CANDIDATE_EVALUATED")' = Logged("CANDIDATE_EVALUATED") + 1
        /\ Logged("REPLAY_EVALUATED")' = Logged("REPLAY_EVALUATED")
    BY <2>1, LogTwo DEF EventKind
  <2> QED BY <1>0, <2>1, <2>2, CountFrame, PairFrame DEF CountInv, Tried
<1>10. CASE Retry
  <2>1. /\ pc = "assess" /\ pc' = "propose" /\ attempt' = attempt + 1 /\ UNCHANGED <<candidates, evidence>>
        /\ Log(<<"CANDIDATE_EVALUATED">>)
    BY <1>10 DEF Retry, NotReproduced, NextAttempt
  <2>2. /\ Logged("CANDIDATE_EVALUATED")' = Logged("CANDIDATE_EVALUATED") + 1
        /\ Logged("REPLAY_EVALUATED")' = Logged("REPLAY_EVALUATED")
    BY <2>1, LogOne DEF EventKind
  <2> QED BY <1>0, <2>1, <2>2, CountFrame, PairFrame DEF CountInv, Tried
<1>11. CASE Raise
  BY <1>11 DEF Raise, CountInv, PairInv, Executed, Replayed, Logged
<1> QED BY <1>1, <1>2, <1>3, <1>4, <1>5, <1>6, <1>7, <1>8, <1>9, <1>10, <1>11 DEF Next

(* Every returned bundle is consistent, however many attempts it took: each
   validated candidate was executed once, exactly the clean failures have
   their two replays, and the timeline counts both (investigate). *)
THEOREM BundlesAreConsistent == Spec => []BundleConsistent
<1>1. Spec => [](TypeInv /\ ProofInv /\ CountInv /\ PairInv)
  BY TypeInvariant, TypeInvNext, ProofInvInit, ProofInvNext, CountInit, CountNext, PTL DEF Spec
<1>2. TypeInv /\ CountInv /\ PairInv => BundleConsistent
  <2> SUFFICES ASSUME TypeInv, CountInv, PairInv, pc = "returned" PROVE BundleConsistent
    BY DEF BundleConsistent
  <2>1. \A p : Phase(p) = Phases(evidence, p)
    BY DEF Phase, Phases
  <2>2. \A k : { i \in DOMAIN timeline : timeline[i] = k } = Kinds(timeline, k)
    BY DEF Kinds
  <2>3. Tried \in Nat /\ attempt \in Nat /\ attempt <= MaxAttempts /\ MaxAttempts \in Nat
    BY InvestigationAssumption DEF TypeInv, TypeOK, Tried
  <2>4. Tried <= MaxAttempts
    BY <2>3 DEF CountInv
  <2>5. /\ Cardinality(Phase("CANDIDATE")) = Len(candidates)
        /\ Cardinality(Phase("REPLAY")) = 2 * Cardinality(Kinds(timeline, "REPLAY_EVALUATED"))
        /\ Cardinality(Kinds(timeline, "CANDIDATE_EVALUATED")) =
             Len(candidates) + (IF verdict.status = "INCONCLUSIVE" /\ Len(candidates) < attempt THEN 1 ELSE 0)
    BY <2>1 DEF CountInv, Executed, Replayed, Logged, Tried
  <2>6. \A i \in Phase("CANDIDATE") :
          Replayable(evidence[i]) <=> i + 2 \in Phase("REPLAY") /\ i + 1 \in Phase("REPLAY")
    BY <2>1 DEF PairInv, Paired
  <2> QED BY <2>2, <2>4, <2>5, <2>6 DEF BundleConsistent, Tried
<1> QED BY <1>1, <1>2, PTL

-----------------------------------------------------------------------------
(* The audit (BundleReplay) leaves the investigation's own steps as they
   are, so its invariants carry over.  The first record is a candidate run,
   and a report is made of two runs of the returned bundle, after which
   nothing happens to it. *)
FirstIsCandidate == evidence # <<>> => evidence[1].phase = "CANDIDATE"

ReportMade ==
  report # None =>
    /\ pc = "returned"
    /\ report.passed = ReplayPasses(report.runs[1], report.runs[2])

AuditInv == TypeInv /\ ProofInv /\ CountInv /\ PairInv /\ FirstIsCandidate /\ ReportMade

LEMMA FirstAppended ==
  ASSUME NEW s \in Seq(Evidence), NEW e \in Evidence
  PROVE  Append(s, e)[1] = IF s = <<>> THEN e ELSE s[1]
OBVIOUS

LEMMA FirstKept ==
  ASSUME NEW s \in Seq(Evidence), NEW t \in Seq(Evidence), s # <<>>
  PROVE  (s \o t)[1] = s[1]
OBVIOUS

LEMMA FirstIsCandidateNext ==
  ASSUME TypeInv, ProofInv, FirstIsCandidate, [Next]_vars
  PROVE  FirstIsCandidate'
<1>1. evidence \in Seq(Evidence) /\ attempt \in Nat /\ attempt + 1 \in Nat
  BY InvestigationAssumption DEF TypeInv, TypeOK
<1>2. CASE UNCHANGED evidence
  BY <1>2 DEF FirstIsCandidate
<1>3. CASE \E run \in Runs : RunCandidate(run)
  <2> PICK run \in Runs : RunCandidate(run)
    BY <1>3
  <2> DEFINE e == EvidenceFromRun(run, attempt, "CANDIDATE", CurrentCandidate)
  <2>1. pc = "candidate" /\ evidence' = Append(evidence, e)
    BY DEF RunCandidate
  <2>2. e \in Evidence /\ e.phase = "CANDIDATE"
    BY <1>1, <2>1, RunEvidence
  <2> HIDE DEF e
  <2> QED BY <1>1, <2>1, <2>2, FirstAppended DEF FirstIsCandidate
<1>4. CASE \E run \in Runs : RunSecondReplay(run)
  <2> PICK run \in Runs : RunSecondReplay(run)
    BY <1>4
  <2> DEFINE e == EvidenceFromRun(run, attempt + 1, "REPLAY", CurrentCandidate)
  <2>1. pc = "replay_2" /\ evidence' = evidence \o Append(replays, e)
    BY DEF RunSecondReplay
  <2>2. e \in Evidence
    BY <1>1, <2>1, RunEvidence
  <2> HIDE DEF e
  <2>3. replays \in Seq(Evidence) /\ Append(replays, e) \in Seq(Evidence)
    BY <2>2, AppendLength DEF TypeInv, TypeOK
  <2>4. evidence # <<>>
    <3>1. Len(evidence) >= 1
      BY <2>1 DEF ProofInv, CandidateRecorded
    <3> QED BY <3>1
  <2> QED BY <1>1, <2>1, <2>3, <2>4, FirstKept DEF FirstIsCandidate
<1>5. UNCHANGED evidence \/ (\E run \in Runs : RunCandidate(run)) \/ (\E run \in Runs : RunSecondReplay(run))
  BY DEF Next, vars, AcceptTicket, NeedInfo, Propose, RejectCandidate, Refuse, RunFirstReplay,
         ReturnReproduced, Retry, ReturnExhausted, NotReproduced, ReturnAssessment, NextAttempt, Raise
<1> QED BY <1>2, <1>3, <1>4, <1>5

(* Nothing is left to do for an investigation that has returned. *)
LEMMA ReturnedStands == pc = "returned" /\ [Next]_vars => UNCHANGED vars
BY DEF Next, AcceptTicket, NeedInfo, Propose, RejectCandidate, RunCandidate, RunFirstReplay,
       RunSecondReplay, ReturnReproduced, Retry, ReturnExhausted, NotReproduced, Raise

LEMMA AuditInvInit == ReplayInit => AuditInv
<1> SUFFICES ASSUME ReplayInit PROVE AuditInv
  OBVIOUS
<1>1. TypeInv /\ ProofInv /\ CountInv /\ PairInv
  BY TypeInvInit, ProofInvInit, CountInit DEF ReplayInit
<1> QED BY <1>1 DEF ReplayInit, Init, AuditInv, FirstIsCandidate, ReportMade

LEMMA AuditInvNext == AuditInv /\ [ReplayNext]_replayVars => AuditInv'
<1> SUFFICES ASSUME AuditInv, [ReplayNext]_replayVars PROVE AuditInv'
  OBVIOUS
<1>1. [Next]_vars
  BY DEF ReplayNext, replayVars, ReplayBundle
<1>2. TypeInv' /\ ProofInv' /\ CountInv' /\ PairInv' /\ FirstIsCandidate'
  BY <1>1, TypeInvNext, ProofInvNext, CountNext, FirstIsCandidateNext DEF AuditInv
<1>3. CASE UNCHANGED report
  <2>1. report # None => UNCHANGED vars
    BY <1>1, ReturnedStands DEF AuditInv, ReportMade
  <2>2. ReportMade'
    <3> SUFFICES ASSUME report # None PROVE ReportMade'
      BY <1>3 DEF ReportMade
    <3>1. UNCHANGED <<pc, evidence, report>>
      BY <1>3, <2>1 DEF vars
    <3> QED BY <3>1 DEF AuditInv, ReportMade, ReplayPasses, CandidateSignature, Phase
  <2> QED BY <1>2, <2>2 DEF AuditInv
<1>4. CASE \E first, second \in Runs : ReplayBundle(first, second)
  <2> PICK first \in Runs, second \in Runs : ReplayBundle(first, second)
    BY <1>4
  <2>1. /\ pc' = "returned" /\ UNCHANGED evidence
        /\ report'.runs = <<first, second>> /\ report'.passed = ReplayPasses(first, second)
    BY DEF ReplayBundle, vars
  <2>2. CandidateSignature' = CandidateSignature
    BY <2>1 DEF CandidateSignature, Phase
  <2>3. report'.runs[1] = first /\ report'.runs[2] = second
    BY <2>1
  <2>4. ReportMade'
    BY <2>1, <2>2, <2>3 DEF ReportMade, ReplayPasses
  <2> QED BY <1>2, <2>4 DEF AuditInv
<1> QED BY <1>3, <1>4 DEF ReplayNext, replayVars

(* A reproduction of one attempt has its proof at the head of the evidence,
   and the signature the audit expects is the proven one. *)
LEMMA ProofIsFirst ==
  ASSUME AuditInv, pc = "returned", verdict.status = "REPRODUCED", Len(candidates) = 1
  PROVE  Qualifies(evidence[1]) /\ CandidateSignature = evidence[1].signature
<1>1. PICK i \in DOMAIN evidence : ProofIn(evidence, i)
  BY DEF AuditInv, ProofInv, VerdictStands
<1>2. evidence \in Seq(Evidence)
  BY DEF AuditInv, TypeInv, TypeOK
<1>3. 1 \in DOMAIN evidence /\ evidence # <<>>
  BY <1>1, <1>2
<1> DEFINE S == Phases(evidence, "CANDIDATE")
<1>4. Cardinality(S) = 1
  BY DEF AuditInv, CountInv, Executed, Tried
<1>5. S \subseteq 1..Len(evidence) /\ Len(evidence) \in Nat /\ IsFiniteSet(S)
  <2>1. S \subseteq 1..Len(evidence) /\ Len(evidence) \in Nat
    BY <1>2 DEF Phases
  <2> QED BY <2>1, CountBound
<1>6. i \in S /\ 1 \in S
  BY <1>1, <1>3 DEF ProofIn, Phases, AuditInv, FirstIsCandidate
<1>7. S = {1}
  <2>1. PICK x : S = {x}
    BY <1>4, <1>5, FS_Singleton
  <2> QED BY <1>6, <2>1
<1>8. i = 1
  BY <1>6, <1>7
<1>9. Phase("CANDIDATE") = {1}
  BY <1>7 DEF Phase, Phases
<1>10. (CHOOSE j \in {1} : \A k \in {1} : j <= k) = 1
  OBVIOUS
<1>11. CandidateSignature = evidence[1].signature
  BY <1>9, <1>10 DEF CandidateSignature
<1> QED BY <1>1, <1>8, <1>11 DEF ProofIn

(* A bundle that was reproduced in one attempt is replayable (replay_bundle):
   a product that still behaves as recorded passes the audit, and an audit
   that passes has seen the recorded failure twice more. *)
THEOREM AuditIsFaithful == ReplaySpec => []FirstAttemptReplayable
<1>1. ReplaySpec => []AuditInv
  BY AuditInvInit, AuditInvNext, PTL DEF ReplaySpec
<1>2. AuditInv => FirstAttemptReplayable
  <2> SUFFICES ASSUME AuditInv, Audited, Len(candidates) = 1
               PROVE  /\ (\A k \in 1..2 : BehavesAsRecorded(report.runs[k])) => report.passed
                      /\ report.passed => \A k \in 1..2 : /\ TestFailed(report.runs[k])
                                                          /\ evidence[1].signature # None =>
                                                               report.runs[k].signature = evidence[1].signature
    BY DEF FirstAttemptReplayable
  <2> DEFINE first == report.runs[1]
             second == report.runs[2]
             c == evidence[1]
  <2>1. pc = "returned" /\ report.passed = ReplayPasses(first, second)
    BY DEF AuditInv, ReportMade, Audited
  <2>2. c.setupValid /\ c.testFailed /\ ~c.timedOut /\ CandidateSignature = c.signature
    BY <2>1, ProofIsFirst DEF Audited, Qualifies
  <2>3. ASSUME NEW run, BehavesAsRecorded(run)
        PROVE  CleanFailure(run) /\ run.signature = c.signature
    BY <2>2, <2>3 DEF BehavesAsRecorded, EvidenceFromRun, CleanFailure
  <2>4. \A k \in 1..2 : k = 1 \/ k = 2
    OBVIOUS
  <2>5. ASSUME \A k \in 1..2 : BehavesAsRecorded(report.runs[k]) PROVE report.passed
    <3>1. BehavesAsRecorded(first) /\ BehavesAsRecorded(second)
      BY <2>5
    <3> QED BY <2>1, <2>2, <2>3, <3>1 DEF ReplayPasses
  <2>6. ASSUME report.passed
        PROVE  \A k \in 1..2 : /\ TestFailed(report.runs[k])
                               /\ c.signature # None => report.runs[k].signature = c.signature
    BY <2>1, <2>2, <2>4, <2>6 DEF ReplayPasses, CleanFailure
  <2> QED BY <2>5, <2>6
<1> QED BY <1>1, <1>2, PTL

-----------------------------------------------------------------------------
(* The live stages.  The reporter is told no phase and no attempt: LabelInv
   ties the calls it has counted to where the orchestrator is. *)
LabelInv ==
  /\ reported \in Nat /\ sandboxCalls \in Nat
  /\ pc = "validate" => reported = 0
  /\ pc = "propose" => reported = attempt - 1
  /\ pc \in {"candidate", "replay_1", "replay_2", "assess"} => reported = attempt
  /\ pc = "candidate" => sandboxCalls = 0
  /\ pc = "replay_1" => sandboxCalls = 1
  /\ pc = "replay_2" => sandboxCalls = 2

(* The events of a list of stage events that start, and that end, a stage. *)
Begun(t, s) == { i \in DOMAIN t : t[i].stage = s /\ t[i].state = "started" }
Over(t, s)  == { i \in DOMAIN t : t[i].stage = s /\ t[i].state # "started" }

(* All stages but the verdict are balanced, except that k clones are open. *)
Balanced(t, k) ==
  /\ \A s \in Stages \ {"verdict", "yolo"} :
       Cardinality(Begun(t, s)) = Cardinality(Over(t, s)) + (IF s = "github_checkout" THEN k ELSE 0)
  /\ Cardinality(Begun(t, "yolo")) <= Cardinality(Over(t, "yolo"))

Verdicts(t) == Cardinality(Over(t, "verdict"))

(* _run_job is at its checkout before the orchestrator begins, and past its
   bundle after the orchestrator has returned. *)
StepInv ==
  /\ step \in Steps
  /\ step \in {"start", "cloning"} => pc = "validate"
  /\ step \in {"stored", "commented", "automated"} => pc = "returned"

Clones == IF step = "cloning" THEN 1 ELSE 0

(* Stages other than the clone and the verdict are emitted as they end; the
   verdict ends with the job, which happens where no orchestrator step is
   left. *)
ClosingInv ==
  /\ stages \in Seq(StageEvent)
  /\ job \in {"running", "done", "failed"}
  /\ Balanced(stages, Clones)
  /\ job = "running" => Verdicts(stages) = 0
  /\ job # "running" =>
       /\ pc \in {"validate", "returned", "raised"}
       /\ Verdicts(stages) = 1
       /\ stages[Len(stages)] = Event("verdict", IF job = "done" THEN "completed" ELSE "failed", 0)

ProgressInv == TypeInv /\ LabelInv /\ StepInv /\ ClosingInv

LEMMA StagesAppend ==
  ASSUME NEW t \in Seq(StageEvent), NEW e \in StageEvent, NEW s
  PROVE  /\ Append(t, e) \in Seq(StageEvent) /\ Append(t, e)[Len(Append(t, e))] = e
         /\ Cardinality(Begun(t, s)) \in Nat /\ Cardinality(Over(t, s)) \in Nat
         /\ Cardinality(Begun(Append(t, e), s)) =
              Cardinality(Begun(t, s)) + (IF e.stage = s /\ e.state = "started" THEN 1 ELSE 0)
         /\ Cardinality(Over(Append(t, e), s)) =
              Cardinality(Over(t, s)) + (IF e.stage = s /\ e.state # "started" THEN 1 ELSE 0)
<1> DEFINE n == Len(t) + 1
           u == Append(t, e)
<1>1. Begun(t, s) \in SUBSET (1..Len(t)) /\ Over(t, s) \in SUBSET (1..Len(t)) /\ Len(t) \in Nat
  BY DEF Begun, Over
<1>2. n \notin Begun(t, s) /\ n \notin Over(t, s)
  BY <1>1
<1>3. /\ IsFiniteSet(Begun(t, s)) /\ Cardinality(Begun(t, s)) \in Nat
      /\ IsFiniteSet(Over(t, s)) /\ Cardinality(Over(t, s)) \in Nat
  BY <1>1, CountBound
<1>4. u \in Seq(StageEvent) /\ Len(u) = n
  BY AppendLength
<1>5. DOMAIN u = DOMAIN t \cup {n} /\ n \notin DOMAIN t
  BY <1>1
<1>6. u[n] = e /\ \A i \in DOMAIN t : u[i] = t[i]
  BY <1>1
<1> HIDE DEF n, u
<1>7. Begun(u, s) = IF e.stage = s /\ e.state = "started" THEN Begun(t, s) \cup {n} ELSE Begun(t, s)
  BY <1>5, <1>6 DEF Begun
<1>8. Over(u, s) = IF e.stage = s /\ e.state # "started" THEN Over(t, s) \cup {n} ELSE Over(t, s)
  BY <1>5, <1>6 DEF Over
<1>9. Cardinality(Begun(t, s) \cup {n}) = Cardinality(Begun(t, s)) + 1
  BY <1>2, <1>3, FS_AddElement
<1>10. Cardinality(Over(t, s) \cup {n}) = Cardinality(Over(t, s)) + 1
  BY <1>2, <1>3, FS_AddElement
<1> QED BY <1>3, <1>4, <1>6, <1>7, <1>8, <1>9, <1>10 DEF u

(* A stage that starts and ends keeps the balance and adds no verdict. *)
LEMMA StageReported ==
  ASSUME NEW k \in Nat, NEW t \in Seq(StageEvent), Balanced(t, k),
         NEW a \in StageEvent, NEW b \in StageEvent,
         a.stage = b.stage, a.stage # "verdict", a.state = "started", b.state # "started"
  PROVE  /\ t \o <<a, b>> \in Seq(StageEvent)
         /\ Balanced(t \o <<a, b>>, k) /\ Verdicts(t \o <<a, b>>) = Verdicts(t)
<1> DEFINE u == Append(t, a)
           v == Append(u, b)
<1>1. t \o <<a, b>> = v
  <2>1. <<a, b>> \in Seq(StageEvent) /\ Len(<<a, b>>) = 2 /\ <<a, b>>[1] = a /\ <<a, b>>[2] = b
    OBVIOUS
  <2> QED BY <2>1, ConcatPair
<1>2. u \in Seq(StageEvent)
  BY StagesAppend
<1>3. \A s : /\ Cardinality(Begun(t, s)) \in Nat /\ Cardinality(Over(t, s)) \in Nat
             /\ Cardinality(Begun(u, s)) = Cardinality(Begun(t, s)) + (IF a.stage = s THEN 1 ELSE 0)
             /\ Cardinality(Over(u, s)) = Cardinality(Over(t, s))
  BY StagesAppend
<1> HIDE DEF u
<1>4. v \in Seq(StageEvent)
  BY <1>2, StagesAppend
<1>5. \A s : /\ Cardinality(Begun(v, s)) = Cardinality(Begun(u, s))
             /\ Cardinality(Over(v, s)) = Cardinality(Over(u, s)) + (IF b.stage = s THEN 1 ELSE 0)
  BY <1>2, StagesAppend
<1> HIDE DEF v
<1>6. Balanced(v, k)
  BY <1>3, <1>5 DEF Balanced
<1>7. Verdicts(v) = Verdicts(t)
  BY <1>3, <1>5 DEF Verdicts
<1> QED BY <1>1, <1>4, <1>6, <1>7

(* A verdict event keeps the balance of the other stages; one that ends it
   counts, one that starts it does not. *)
LEMMA VerdictReported ==
  ASSUME NEW k \in Nat, NEW t \in Seq(StageEvent), Balanced(t, k), NEW a \in StageEvent, a.stage = "verdict"
  PROVE  /\ Append(t, a) \in Seq(StageEvent) /\ Append(t, a)[Len(Append(t, a))] = a
         /\ Balanced(Append(t, a), k) /\ Verdicts(t) \in Nat
         /\ Verdicts(Append(t, a)) = Verdicts(t) + (IF a.state = "started" THEN 0 ELSE 1)
<1>1. \A s : /\ Cardinality(Begun(t, s)) \in Nat /\ Cardinality(Over(t, s)) \in Nat
             /\ s # "verdict" => /\ Cardinality(Begun(Append(t, a), s)) = Cardinality(Begun(t, s))
                                 /\ Cardinality(Over(Append(t, a), s)) = Cardinality(Over(t, s))
             /\ Cardinality(Over(Append(t, a), "verdict")) =
                  Cardinality(Over(t, "verdict")) + (IF a.state = "started" THEN 0 ELSE 1)
  BY StagesAppend
<1> QED BY <1>1, StagesAppend DEF Balanced, Verdicts

(* The two events of a clone open and close the balance; a follow-through
   that ends without having been announced keeps it. *)
LEMMA SingleReported ==
  ASSUME NEW k \in Nat, NEW m \in Nat, NEW t \in Seq(StageEvent), Balanced(t, k), NEW a \in StageEvent,
         \/ a.stage = "github_checkout" /\ a.state = "started" /\ m = k + 1
         \/ a.stage = "github_checkout" /\ a.state # "started" /\ k = m + 1
         \/ a.stage = "yolo" /\ a.state # "started" /\ m = k
  PROVE  /\ Append(t, a) \in Seq(StageEvent)
         /\ Balanced(Append(t, a), m) /\ Verdicts(Append(t, a)) = Verdicts(t)
<1> DEFINE u == Append(t, a)
<1>1. u \in Seq(StageEvent)
  BY StagesAppend
<1>2. \A s : /\ Cardinality(Begun(t, s)) \in Nat /\ Cardinality(Over(t, s)) \in Nat
             /\ Cardinality(Begun(u, s)) =
                  Cardinality(Begun(t, s)) + (IF a.stage = s /\ a.state = "started" THEN 1 ELSE 0)
             /\ Cardinality(Over(u, s)) =
                  Cardinality(Over(t, s)) + (IF a.stage = s /\ a.state # "started" THEN 1 ELSE 0)
  BY StagesAppend
<1> HIDE DEF u
<1>3. Balanced(u, m)
  <2>1. CASE a.stage = "github_checkout" /\ a.state = "started" /\ m = k + 1
    BY <1>2, <2>1 DEF Balanced
  <2>2. CASE a.stage = "github_checkout" /\ a.state # "started" /\ k = m + 1
    BY <1>2, <2>2 DEF Balanced
  <2>3. CASE a.stage = "yolo" /\ a.state # "started" /\ m = k
    BY <1>2, <2>3 DEF Balanced
  <2> QED BY <2>1, <2>2, <2>3
<1>4. Verdicts(u) = Verdicts(t)
  BY <1>2 DEF Verdicts
<1> QED BY <1>1, <1>3, <1>4 DEF u

LEMMA EventType ==
  ASSUME NEW s \in Stages, NEW st \in States, NEW n \in Nat
  PROVE  /\ Event(s, st, n) \in StageEvent
         /\ Event(s, st, n).stage = s /\ Event(s, st, n).state = st
BY DEF Event, StageEvent

LEMMA ConcatSplit ==
  ASSUME NEW S, NEW t \in Seq(S), NEW a \in S, NEW b \in S, NEW c \in S
  PROVE  /\ t \o (<<a>> \o <<b>> \o <<>>) = t \o <<a, b>>
         /\ t \o (<<a>> \o <<b>> \o <<c>>) = Append(t \o <<a, b>>, c)
         /\ t \o (<<>> \o <<a>>) = Append(t, a)
         /\ t \o (<<a>> \o <<b>>) = Append(Append(t, a), b)
<1>1. <<a>> \o <<b>> = <<a, b>> /\ <<a, b>> \o <<>> = <<a, b>> /\ <<>> \o <<a>> = <<a>>
  <2>1. <<a>> \in Seq(S) /\ <<a, b>> \in Seq(S) /\ <<a>> \o <<b>> \in Seq(S)
    OBVIOUS
  <2>2. Append(<<a>>, b) = <<a>> \o <<b>>
    BY <2>1, AppendIsConcat
  <2>3. Append(<<a>>, b) = <<a, b>>
    <3>1. /\ Append(<<a>>, b) \in Seq(S) /\ Len(Append(<<a>>, b)) = 2
          /\ Append(<<a>>, b)[1] = a /\ Append(<<a>>, b)[2] = b
      <4>1. <<a>> \in Seq(S) /\ Len(<<a>>) = 1 /\ <<a>>[1] = a
        OBVIOUS
      <4> QED BY <4>1, AppendLength
    <3>2. <<a, b>> \in Seq(S) /\ Len(<<a, b>>) = 2 /\ <<a, b>>[1] = a /\ <<a, b>>[2] = b
      OBVIOUS
    <3>3. \A i \in 1..2 : i = 1 \/ i = 2
      OBVIOUS
    <3> QED BY <3>1, <3>2, <3>3, SeqEqual
  <2> QED BY <2>1, <2>2, <2>3, ConcatEmptySeq
<1>2. t \o (<<a, b>> \o <<c>>) = (t \o <<a, b>>) \o <<c>>
  BY ConcatAssociative
<1>3. (t \o <<a, b>>) \o <<c>> = Append(t \o <<a, b>>, c)
  <2>1. t \o <<a, b>> \in Seq(S)
    OBVIOUS
  <2> QED BY <2>1, AppendIsConcat
<1>4. t \o <<a>> = Append(t, a)
  BY AppendIsConcat
<1>5. t \o <<a, b>> = Append(Append(t, a), b)
  <2>1. <<a, b>> \in Seq(S) /\ Len(<<a, b>>) = 2 /\ <<a, b>>[1] = a /\ <<a, b>>[2] = b
    OBVIOUS
  <2> QED BY <2>1, ConcatPair
<1> QED BY <1>1, <1>2, <1>3, <1>4, <1>5

LEMMA SandboxStages ==
  /\ NextSandboxStage \in Stages \ {"verdict"}
  /\ sandboxCalls = 0 => NextSandboxStage = "candidate_sandbox"
  /\ sandboxCalls = 1 => NextSandboxStage = "replay_1"
  /\ sandboxCalls = 2 => NextSandboxStage = "replay_2"
BY DEF NextSandboxStage, StageOfCall, Stages

LEMMA ClonesType == Clones \in Nat
BY DEF Clones

(* What an observed model call or sandbox run does to the list of stages. *)
LEMMA HypothesisReported ==
  ASSUME LabelInv, ClosingInv, NEW state \in {"completed", "failed"}, ReportHypothesis(state)
  PROVE  /\ reported' = reported + 1 /\ sandboxCalls' = 0 /\ UNCHANGED <<step, job>>
         /\ stages' \in Seq(StageEvent) /\ Balanced(stages', Clones) /\ Verdicts(stages') = Verdicts(stages)
<1> DEFINE a == Event("form_hypothesis", "started", reported + 1)
           b == Event("form_hypothesis", state, reported + 1)
<1>1. /\ reported' = reported + 1 /\ sandboxCalls' = 0 /\ UNCHANGED <<step, job>>
      /\ stages' = stages \o <<a, b>>
  BY DEF ReportHypothesis, BeginHypothesis, Emit
<1>2. /\ a \in StageEvent /\ b \in StageEvent /\ a.stage = b.stage /\ a.stage # "verdict"
      /\ a.state = "started" /\ b.state # "started"
  <2>1. reported + 1 \in Nat /\ "form_hypothesis" \in Stages /\ {"started", state} \subseteq States
    BY DEF LabelInv, Stages, States
  <2> QED BY <2>1, EventType
<1> HIDE DEF a, b
<1> QED BY <1>1, <1>2, ClonesType, StageReported DEF ClosingInv

LEMMA SandboxReported ==
  ASSUME LabelInv, ClosingInv, NEW state \in {"completed", "failed"}, ReportSandbox(state)
  PROVE  /\ reported' = reported /\ sandboxCalls' = sandboxCalls + 1 /\ UNCHANGED <<step, job>>
         /\ stages' \in Seq(StageEvent) /\ Balanced(stages', Clones) /\ Verdicts(stages') = Verdicts(stages)
<1> DEFINE a == Event(NextSandboxStage, "started", reported)
           b == Event(NextSandboxStage, state, reported)
           c == Event("verdict", "started", reported)
           pair == stages \o <<a, b>>
<1>1. /\ reported' = reported /\ sandboxCalls' = sandboxCalls + 1 /\ UNCHANGED <<step, job>>
      /\ \/ stages' = stages \o (<<a>> \o <<b>> \o <<>>)
         \/ stages' = stages \o (<<a>> \o <<b>> \o <<c>>)
  BY DEF ReportSandbox, SandboxStage, SandboxEnd, Emit
<1>2. /\ a \in StageEvent /\ b \in StageEvent /\ a.stage = b.stage /\ a.stage # "verdict"
      /\ a.state = "started" /\ b.state # "started"
      /\ c \in StageEvent /\ c.stage = "verdict" /\ c.state = "started"
  <2>1. reported \in Nat /\ "verdict" \in Stages /\ {"started", state} \subseteq States
    BY DEF LabelInv, Stages, States
  <2> QED BY <2>1, EventType, SandboxStages
<1> HIDE DEF a, b, c
<1>3. stages \in Seq(StageEvent) /\ Balanced(stages, Clones) /\ Clones \in Nat
  BY ClonesType DEF ClosingInv
<1>4. pair \in Seq(StageEvent) /\ Balanced(pair, Clones) /\ Verdicts(pair) = Verdicts(stages)
  BY <1>2, <1>3, StageReported
<1>5. stages' = pair \/ stages' = Append(pair, c)
  <2>1. /\ stages \o (<<a>> \o <<b>> \o <<>>) = pair
        /\ stages \o (<<a>> \o <<b>> \o <<c>>) = Append(pair, c)
    BY <1>2, <1>3, ConcatSplit
  <2> QED BY <1>1, <2>1
<1> HIDE DEF pair
<1>6. /\ Append(pair, c) \in Seq(StageEvent) /\ Balanced(Append(pair, c), Clones)
      /\ Verdicts(Append(pair, c)) = Verdicts(pair)
  <2>1. Verdicts(pair) \in Nat /\ Verdicts(Append(pair, c)) = Verdicts(pair) + 0
    BY <1>2, <1>3, <1>4, VerdictReported
  <2> QED BY <1>2, <1>3, <1>4, <2>1, VerdictReported
<1> QED BY <1>1, <1>4, <1>5, <1>6

(* What announcing a verdict does: nothing, or one event that starts it. *)
LEMMA VerdictAnnounced ==
  ASSUME LabelInv, ClosingInv, job = "running"
  PROVE  \E t : /\ t = stages \/ t = Append(stages, Event("verdict", "started", reported))
                /\ Emit(Announcement) => stages' = t
                /\ \A d \in StageEvent : Emit(Announcement \o <<d>>) => stages' = Append(t, d)
                /\ t \in Seq(StageEvent) /\ Balanced(t, Clones) /\ Verdicts(t) = 0
<1> DEFINE c == Event("verdict", "started", reported)
           t == IF pc # "returned" \/ verdictStarted THEN stages ELSE Append(stages, c)
<1>1. c \in StageEvent /\ c.stage = "verdict" /\ c.state = "started"
  <2>1. reported \in Nat /\ "verdict" \in Stages /\ "started" \in States
    BY DEF LabelInv, Stages, States
  <2> QED BY <2>1, EventType
<1>2. stages \in Seq(StageEvent) /\ Balanced(stages, Clones) /\ Verdicts(stages) = 0 /\ Clones \in Nat
  BY ClonesType DEF ClosingInv
<1>3. Announcement = IF pc # "returned" \/ verdictStarted THEN <<>> ELSE <<c>>
  BY DEF Announcement
<1> HIDE DEF c
<1>4. Emit(Announcement) => stages' = t
  <2>1. stages \o <<>> = stages /\ stages \o <<c>> = Append(stages, c)
    BY <1>1, <1>2, ConcatEmptySeq, AppendIsConcat
  <2> QED BY <1>3, <2>1 DEF Emit
<1>5. ASSUME NEW d \in StageEvent, Emit(Announcement \o <<d>>) PROVE stages' = Append(t, d)
  <2>1. /\ stages \o (<<>> \o <<d>>) = Append(stages, d)
        /\ stages \o (<<c>> \o <<d>>) = Append(Append(stages, c), d)
    BY <1>1, <1>2, ConcatSplit
  <2> QED BY <1>3, <1>5, <2>1 DEF Emit
<1>6. t \in Seq(StageEvent) /\ Balanced(t, Clones) /\ Verdicts(t) = 0
  <2>1. /\ Append(stages, c) \in Seq(StageEvent) /\ Balanced(Append(stages, c), Clones)
        /\ Verdicts(Append(stages, c)) = 0 + 0
    BY <1>1, <1>2, VerdictReported
  <2> QED BY <1>2, <2>1
<1>7. t = stages \/ t = Append(stages, c)
  OBVIOUS
<1> HIDE DEF t
<1> QED BY <1>4, <1>5, <1>6, <1>7 DEF c

LEMMA JobClosed ==
  ASSUME LabelInv, ClosingInv, NEW outcome \in {"done", "failed"}, Close(outcome)
  PROVE  /\ job' = outcome /\ stages' \in Seq(StageEvent) /\ Balanced(stages', Clones) /\ Verdicts(stages') = 1
         /\ stages'[Len(stages')] = Event("verdict", IF outcome = "done" THEN "completed" ELSE "failed", 0)
         /\ UNCHANGED <<vars, reported, sandboxCalls, step>>
<1> DEFINE d == Event("verdict", IF outcome = "done" THEN "completed" ELSE "failed", 0)
<1>1. /\ job = "running" /\ job' = outcome /\ UNCHANGED <<vars, reported, sandboxCalls, step>>
      /\ Emit(Announcement \o <<d>>)
  BY DEF Close
<1>2. d \in StageEvent /\ d.stage = "verdict" /\ d.state # "started"
  <2>1. "verdict" \in Stages /\ {"completed", "failed"} \subseteq States
    BY DEF Stages, States
  <2> QED BY <2>1, EventType
<1> HIDE DEF d
<1>3. PICK t : stages' = Append(t, d) /\ t \in Seq(StageEvent) /\ Balanced(t, Clones) /\ Verdicts(t) = 0
  BY <1>1, <1>2, VerdictAnnounced
<1>4. /\ stages' \in Seq(StageEvent) /\ Balanced(stages', Clones)
      /\ stages'[Len(stages')] = d /\ Verdicts(stages') = 0 + 1
  BY <1>2, <1>3, ClonesType, VerdictReported
<1> QED BY <1>1, <1>4 DEF d

(* The events of a follow-through, one by one. *)
LEMMA EventsTold ==
  ASSUME NEW a, NEW b
  PROVE  /\ [i \in DOMAIN <<a>> |-> Event("yolo", (<<a>>)[i], 0)] = <<Event("yolo", a, 0)>>
         /\ [i \in DOMAIN <<a, b>> |-> Event("yolo", (<<a, b>>)[i], 0)]
              = <<Event("yolo", a, 0), Event("yolo", b, 0)>>
OBVIOUS

(* The steps of the job's thread around the investigation: a checkout that
   begins is open, every other step leaves the balance as it is. *)
LEMMA JobMoved ==
  ASSUME LabelInv, StepInv, ClosingInv,
         BeginClone \/ PinClone \/ UseLocal \/ StoreBundle \/ PostEvidence \/ FollowThrough
  PROVE  /\ job = "running" /\ UNCHANGED <<vars, reported, sandboxCalls, job>>
         /\ stages' \in Seq(StageEvent) /\ Balanced(stages', Clones') /\ Verdicts(stages') = Verdicts(stages)
         /\ step' \in Steps /\ (step' \in {"start", "cloning"} => pc = "validate")
         /\ step' \in {"stored", "commented", "automated"} => pc = "returned"
<1>1. stages \in Seq(StageEvent) /\ Balanced(stages, Clones) /\ Clones \in Nat
  BY ClonesType DEF ClosingInv
<1>2. \A s \in {"github_checkout", "jira_comment", "yolo"}, st \in States :
        /\ Event(s, st, 0) \in StageEvent /\ Event(s, st, 0).stage = s /\ Event(s, st, 0).state = st
  BY EventType DEF Stages
<1>3. {"started", "completed", "failed", "skipped"} \subseteq States
  BY DEF States
<1>4. CASE BeginClone
  <2> DEFINE a == Event("github_checkout", "started", 0)
  <2>1. /\ job = "running" /\ step = "start" /\ step' = "cloning" /\ stages' = stages \o <<a>>
        /\ UNCHANGED <<vars, reported, sandboxCalls, job>>
    BY <1>4 DEF BeginClone, JobStep, Emit
  <2>2. a \in StageEvent /\ a.stage = "github_checkout" /\ a.state = "started"
    BY <1>2, <1>3
  <2>3. Clones = 0 /\ Clones' = 1
    BY <2>1 DEF Clones
  <2> HIDE DEF a
  <2>4. stages' = Append(stages, a)
    BY <1>1, <2>1, <2>2, AppendIsConcat
  <2>5. stages' \in Seq(StageEvent) /\ Balanced(stages', 0 + 1) /\ Verdicts(stages') = Verdicts(stages)
    BY <1>1, <2>2, <2>3, <2>4, SingleReported
  <2> QED BY <2>1, <2>3, <2>5 DEF StepInv, Steps
<1>5. CASE PinClone
  <2> DEFINE a == Event("github_checkout", "completed", 0)
  <2>1. /\ job = "running" /\ step = "cloning" /\ step' = "running" /\ stages' = stages \o <<a>>
        /\ UNCHANGED <<vars, reported, sandboxCalls, job>>
    BY <1>5 DEF PinClone, JobStep, Emit
  <2>2. a \in StageEvent /\ a.stage = "github_checkout" /\ a.state # "started"
    BY <1>2, <1>3
  <2>3. Clones = 0 + 1 /\ Clones' = 0
    BY <2>1 DEF Clones
  <2> HIDE DEF a
  <2>4. stages' = Append(stages, a)
    BY <1>1, <2>1, <2>2, AppendIsConcat
  <2>5. stages' \in Seq(StageEvent) /\ Balanced(stages', 0) /\ Verdicts(stages') = Verdicts(stages)
    BY <1>1, <2>2, <2>3, <2>4, SingleReported
  <2> QED BY <2>1, <2>3, <2>5 DEF Steps
<1>6. CASE UseLocal
  <2>1. /\ job = "running" /\ step = "start" /\ step' = "running" /\ stages' = stages \o <<>>
        /\ UNCHANGED <<vars, reported, sandboxCalls, job>>
    BY <1>6 DEF UseLocal, JobStep, Emit
  <2>2. stages' = stages
    BY <1>1, <2>1, ConcatEmptySeq
  <2>3. Clones = 0 /\ Clones' = 0
    BY <2>1 DEF Clones
  <2> QED BY <1>1, <2>1, <2>2, <2>3 DEF Steps
<1>7. CASE StoreBundle
  <2>1. /\ job = "running" /\ pc = "returned" /\ step = "running" /\ step' = "stored" /\ Emit(Announcement)
        /\ UNCHANGED <<vars, reported, sandboxCalls, job>>
    BY <1>7 DEF StoreBundle
  <2>2. Clones = Clones'
    BY <2>1 DEF Clones
  <2>3. stages' \in Seq(StageEvent) /\ Balanced(stages', Clones) /\ Verdicts(stages') = 0
    BY <2>1, VerdictAnnounced
  <2>4. Verdicts(stages) = 0
    BY <2>1 DEF ClosingInv
  <2> QED BY <2>1, <2>2, <2>3, <2>4 DEF Steps
<1>8. CASE PostEvidence
  <2>1. PICK state \in {"completed", "failed"} :
          JobStep("stored", "commented", <<Event("jira_comment", "started", 0), Event("jira_comment", state, 0)>>)
    BY <1>8 DEF PostEvidence
  <2> DEFINE a == Event("jira_comment", "started", 0)
             b == Event("jira_comment", state, 0)
  <2>2. /\ job = "running" /\ step = "stored" /\ step' = "commented" /\ stages' = stages \o <<a, b>>
        /\ UNCHANGED <<vars, reported, sandboxCalls, job>>
    BY <2>1 DEF JobStep, Emit
  <2>3. /\ a \in StageEvent /\ b \in StageEvent /\ a.stage = b.stage /\ a.stage # "verdict"
        /\ a.state = "started" /\ b.state # "started"
    BY <1>2, <1>3
  <2>4. Clones = Clones'
    BY <2>2 DEF Clones
  <2> HIDE DEF a, b
  <2>5. stages' \in Seq(StageEvent) /\ Balanced(stages', Clones) /\ Verdicts(stages') = Verdicts(stages)
    BY <1>1, <2>2, <2>3, StageReported
  <2> QED BY <2>2, <2>4, <2>5 DEF StepInv, Steps
<1>9. CASE FollowThrough
  <2> DEFINE told == {<<"skipped">>, <<"failed">>, <<"started", "completed">>, <<"started", "failed">>}
             Events(states) == [i \in DOMAIN states |-> Event("yolo", states[i], 0)]
  <2>1. PICK states \in told : JobStep("commented", "automated", Events(states))
    BY <1>9 DEF FollowThrough
  <2>2. /\ job = "running" /\ step = "commented" /\ step' = "automated" /\ stages' = stages \o Events(states)
        /\ UNCHANGED <<vars, reported, sandboxCalls, job>>
    BY <2>1 DEF JobStep, Emit
  <2>3. Clones = Clones'
    BY <2>2 DEF Clones
  <2>4. stages' \in Seq(StageEvent) /\ Balanced(stages', Clones) /\ Verdicts(stages') = Verdicts(stages)
    <3>1. ASSUME NEW st \in {"skipped", "failed"}, states = <<st>>
          PROVE  stages' \in Seq(StageEvent) /\ Balanced(stages', Clones) /\ Verdicts(stages') = Verdicts(stages)
      <4> DEFINE a == Event("yolo", st, 0)
      <4>1. Events(states) = <<a>>
        BY <3>1, EventsTold
      <4>2. a \in StageEvent /\ a.stage = "yolo" /\ a.state # "started"
        BY <1>2, <1>3
      <4> HIDE DEF a
      <4>3. stages' = Append(stages, a)
        BY <1>1, <2>2, <4>1, <4>2, AppendIsConcat
      <4> QED BY <1>1, <4>2, <4>3, SingleReported
    <3>2. ASSUME NEW st \in {"completed", "failed"}, states = <<"started", st>>
          PROVE  stages' \in Seq(StageEvent) /\ Balanced(stages', Clones) /\ Verdicts(stages') = Verdicts(stages)
      <4> DEFINE a == Event("yolo", "started", 0)
                 b == Event("yolo", st, 0)
      <4>1. Events(states) = <<a, b>>
        BY <3>2, EventsTold
      <4>2. /\ a \in StageEvent /\ b \in StageEvent /\ a.stage = b.stage /\ a.stage # "verdict"
            /\ a.state = "started" /\ b.state # "started"
        BY <1>2, <1>3
      <4> HIDE DEF a, b
      <4> QED BY <1>1, <2>2, <4>1, <4>2, StageReported
    <3> QED BY <3>1, <3>2
  <2> QED BY <2>2, <2>3, <2>4 DEF StepInv, Steps
<1> QED BY <1>4, <1>5, <1>6, <1>7, <1>8, <1>9

LEMMA ProgressInvInit == ProgressInit => ProgressInv
<1> SUFFICES ASSUME ProgressInit PROVE ProgressInv
  OBVIOUS
<1>1. /\ Init /\ pc = "validate" /\ reported = 0 /\ sandboxCalls = 0
      /\ step = "start" /\ job = "running" /\ stages = <<>>
  BY DEF ProgressInit, Init
<1>2. TypeInv /\ LabelInv /\ StepInv
  BY <1>1, TypeInvInit DEF LabelInv, StepInv, Steps
<1>3. \A s : Begun(stages, s) = {} /\ Over(stages, s) = {}
  BY <1>1 DEF Begun, Over
<1>4. \A s : Cardinality(Begun(stages, s)) = 0 /\ Cardinality(Over(stages, s)) = 0
  BY <1>3, FS_EmptySet
<1>5. Clones = 0
  BY <1>1 DEF Clones
<1>6. Balanced(stages, 0) /\ Verdicts(stages) = 0
  BY <1>4 DEF Balanced, Verdicts
<1> QED BY <1>1, <1>2, <1>5, <1>6 DEF ProgressInv, ClosingInv

(* The adapters and the job only watch: no step of the investigation is
   added, dropped or changed by them. *)
LEMMA ProgressIsNext == [ProgressNext]_allVars => [Next]_vars
BY DEF ProgressNext, allVars, Next, RaiseInSandbox, RaiseInClient, RaiseUnobserved, JobStep,
       BeginClone, PinClone, UseLocal, StoreBundle, PostEvidence, FollowThrough,
       FailCheckout, FailBeforeInvestigation, FinishJob, FailToStore, FailJob, Close

LEMMA ProgressInvNext == ProgressInv /\ [ProgressNext]_allVars => ProgressInv'
<1> SUFFICES ASSUME ProgressInv, [ProgressNext]_allVars PROVE ProgressInv'
  OBVIOUS
<1> USE DEF ProgressInv
<1>0. TypeInv' /\ attempt \in Nat
  BY ProgressIsNext, TypeInvNext, InvestigationAssumption DEF TypeInv, TypeOK
<1> DEFINE Same == UNCHANGED <<reported, sandboxCalls, step, job, stages>>
           Recorded == /\ stages' \in Seq(StageEvent) /\ Balanced(stages', Clones)
                       /\ Verdicts(stages') = Verdicts(stages) /\ UNCHANGED <<step, job>>
           Busy == job = "running" /\ step = "running"
<1>1. ASSUME Busy, Recorded PROVE ClosingInv' /\ StepInv'
  <2>1. Clones' = Clones
    BY <1>1 DEF Clones
  <2> QED BY <1>1, <2>1 DEF ClosingInv, StepInv
<1>2. ASSUME Same PROVE Recorded
  BY <1>2 DEF ClosingInv
<1>3. pc \in InLoop => Busy
  BY DEF ClosingInv, StepInv, Steps, InLoop
<1>4. CASE UNCHANGED allVars
  <2>1. UNCHANGED <<pc, attempt, reported, sandboxCalls, step, job, stages>>
    BY <1>4 DEF allVars, vars, progressVars
  <2>2. Clones' = Clones
    BY <2>1 DEF Clones
  <2> QED BY <1>0, <2>1, <2>2 DEF LabelInv, StepInv, ClosingInv
<1>5. CASE job = "running" /\ step = "running" /\ (AcceptTicket \/ NeedInfo) /\ Silent
  <2>1. Same /\ Busy
    BY <1>5 DEF Silent, progressVars
  <2>2. LabelInv'
    BY <1>5, <2>1 DEF AcceptTicket, NeedInfo, LabelInv
  <2> QED BY <1>0, <1>1, <1>2, <2>1, <2>2
<1>6. CASE (ReturnReproduced \/ Retry \/ ReturnExhausted) /\ Silent
  <2>1. Same
    BY <1>6 DEF Silent, progressVars
  <2>2. pc = "assess" /\ (pc' = "returned" \/ (pc' = "propose" /\ attempt' = attempt + 1))
    BY <1>6 DEF ReturnReproduced, Retry, ReturnExhausted, NotReproduced, ReturnAssessment, NextAttempt
  <2>3. LabelInv'
    BY <1>0, <2>1, <2>2 DEF LabelInv
  <2>4. Busy
    BY <1>3, <2>2 DEF InLoop
  <2> QED BY <1>0, <1>1, <1>2, <2>1, <2>3, <2>4
<1>7. CASE (RejectCandidate \/ \E c \in Candidates : Propose(c)) /\ ReportHypothesis("completed")
  <2>1. Recorded /\ reported' = reported + 1 /\ sandboxCalls' = 0
    BY <1>7, HypothesisReported
  <2>2. pc = "propose" /\ pc' \in {"candidate", "returned"} /\ UNCHANGED attempt
    BY <1>7 DEF RejectCandidate, Refuse, Propose
  <2>3. LabelInv'
    BY <1>0, <2>1, <2>2 DEF LabelInv
  <2>4. Busy
    BY <1>3, <2>2 DEF InLoop
  <2> QED BY <1>0, <1>1, <2>1, <2>3, <2>4
<1>8. CASE /\ \E run \in Runs : RunCandidate(run) \/ RunFirstReplay(run) \/ RunSecondReplay(run)
           /\ ReportSandbox("completed")
  <2>1. Recorded /\ reported' = reported /\ sandboxCalls' = sandboxCalls + 1
    BY <1>8, SandboxReported
  <2>2. /\ UNCHANGED attempt
        /\ \/ pc = "candidate" /\ pc' \in {"replay_1", "assess"}
           \/ pc = "replay_1" /\ pc' = "replay_2"
           \/ pc = "replay_2" /\ pc' = "assess"
    BY <1>8 DEF RunCandidate, RunFirstReplay, RunSecondReplay
  <2>3. LabelInv'
    BY <2>1, <2>2 DEF LabelInv
  <2>4. Busy
    BY <1>3, <2>2 DEF InLoop
  <2> QED BY <1>0, <1>1, <2>1, <2>3, <2>4
<1>9. CASE RaiseInSandbox \/ RaiseInClient \/ RaiseUnobserved
  <2>1. pc \in {"propose", "candidate", "replay_1", "replay_2"} /\ pc' = "raised"
    BY <1>9 DEF RaiseInSandbox, RaiseInClient, RaiseUnobserved, Raise
  <2>2. Recorded /\ reported' \in Nat /\ sandboxCalls' \in Nat
    <3>1. CASE RaiseInSandbox
      BY <3>1, SandboxReported DEF RaiseInSandbox, LabelInv
    <3>2. CASE RaiseInClient
      BY <3>2, HypothesisReported DEF RaiseInClient, LabelInv
    <3>3. CASE RaiseUnobserved
      <4>1. Same
        BY <3>3 DEF RaiseUnobserved, Silent, progressVars
      <4> QED BY <1>2, <4>1 DEF LabelInv
    <3> QED BY <1>9, <3>1, <3>2, <3>3
  <2>3. LabelInv'
    BY <2>1, <2>2 DEF LabelInv
  <2>4. Busy
    BY <1>3, <2>1 DEF InLoop
  <2> QED BY <1>0, <1>1, <2>2, <2>3, <2>4
<1>10. CASE BeginClone \/ PinClone \/ UseLocal \/ StoreBundle \/ PostEvidence \/ FollowThrough
  <2>1. /\ job = "running" /\ UNCHANGED <<vars, reported, sandboxCalls, job>>
        /\ stages' \in Seq(StageEvent) /\ Balanced(stages', Clones') /\ Verdicts(stages') = Verdicts(stages)
        /\ step' \in Steps /\ (step' \in {"start", "cloning"} => pc = "validate")
        /\ step' \in {"stored", "commented", "automated"} => pc = "returned"
    BY <1>10, JobMoved
  <2>2. UNCHANGED <<pc, attempt, reported, sandboxCalls, job>>
    BY <2>1 DEF vars
  <2>3. LabelInv' /\ StepInv'
    BY <2>1, <2>2 DEF LabelInv, StepInv
  <2>4. ClosingInv'
    BY <2>1, <2>2 DEF ClosingInv
  <2> QED BY <1>0, <2>3, <2>4
<1>11. CASE FailCheckout \/ FailBeforeInvestigation \/ FailToStore \/ FailJob \/ FinishJob
  <2>1. PICK outcome \in {"done", "failed"} :
          pc \in {"validate", "returned", "raised"} /\ Close(outcome)
    BY <1>11 DEF FailCheckout, FailBeforeInvestigation, FailToStore, FailJob, FinishJob, StepInv
  <2>2. /\ job' = outcome /\ stages' \in Seq(StageEvent) /\ Balanced(stages', Clones) /\ Verdicts(stages') = 1
        /\ stages'[Len(stages')] = Event("verdict", IF outcome = "done" THEN "completed" ELSE "failed", 0)
        /\ UNCHANGED <<vars, reported, sandboxCalls, step>>
    BY <2>1, JobClosed
  <2>3. UNCHANGED <<pc, attempt, reported, sandboxCalls, step>>
    BY <2>2 DEF vars
  <2>4. LabelInv' /\ StepInv'
    BY <2>3 DEF LabelInv, StepInv
  <2>5. Clones' = Clones
    BY <2>3 DEF Clones
  <2>6. ClosingInv'
    BY <2>1, <2>2, <2>3, <2>5 DEF ClosingInv, Event
  <2> QED BY <1>0, <2>4, <2>6
<1> QED BY <1>4, <1>5, <1>6, <1>7, <1>8, <1>9, <1>10, <1>11 DEF ProgressNext

THEOREM ProgressInvariant == ProgressSpec => []ProgressInv
BY ProgressInvInit, ProgressInvNext, PTL DEF ProgressSpec

(* The stage and the attempt a user sees next to a running container, which
   the reporter infers by counting calls, are the true ones (api_progress). *)
THEOREM LabelsAreTrue == ProgressSpec => []LabelsMatchPhase
<1>1. ProgressInv => LabelsMatchPhase
  BY SandboxStages DEF ProgressInv, LabelInv, LabelsMatchPhase
<1> QED BY <1>1, ProgressInvariant, PTL

(* However a job ends - done, or failed before, inside or after the
   investigation - its last event ends the verdict, which ends once, and
   every other stage that started has ended: all but github_checkout, and
   that one exactly when the clone was what failed (_run_job). *)
THEOREM FinishedJobsAreClosed == ProgressSpec => []FinishedJobClosesStages
<1>1. ProgressInv => FinishedJobClosesStages
  <2> SUFFICES ASSUME ProgressInv, job # "running" PROVE FinishedJobClosesStages
    BY DEF FinishedJobClosesStages
  <2>1. \A s : Starts(s) = Begun(stages, s) /\ Ends(s) = Over(stages, s)
    BY DEF Starts, Ends, Begun, Over
  <2>2. \A s : Cardinality(Begun(stages, s)) \in Nat /\ Cardinality(Over(stages, s)) \in Nat
    <3>1. \A s : Begun(stages, s) \in SUBSET (1..Len(stages)) /\ Over(stages, s) \in SUBSET (1..Len(stages))
      BY DEF Begun, Over, ProgressInv, ClosingInv
    <3>2. Len(stages) \in Nat
      BY DEF ProgressInv, ClosingInv
    <3> QED BY <3>1, <3>2, CountBound
  <2>3. /\ \A s \in Stages \ {"verdict", "yolo"} :
             Unended(s) = IF s = "github_checkout" /\ step = "cloning" THEN 1 ELSE 0
        /\ Unended("yolo") <= 0
    BY <2>1, <2>2 DEF ProgressInv, ClosingInv, Balanced, Clones, Unended
  <2>4. /\ stages[Len(stages)] = Event("verdict", IF job = "done" THEN "completed" ELSE "failed", 0)
        /\ Cardinality(Ends("verdict")) = 1
    BY <2>1 DEF ProgressInv, ClosingInv, Verdicts
  <2> QED BY <2>3, <2>4 DEF FinishedJobClosesStages
<1> QED BY <1>1, ProgressInvariant, PTL
=============================================================================

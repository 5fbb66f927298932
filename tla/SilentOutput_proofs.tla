------------------------ MODULE SilentOutput_proofs ------------------------
(***************************************************************************)
(* Proofs about SilentOutput, for every set of tests and ways to answer.   *)
(* The two computations of a recovered claim agree for every quote: the    *)
(* claim _infer_*_proof reads off a test is one the oracle of its contract *)
(* derives (RecoveredClaimsGround), for every amount, rate and percentage. *)
(* And no claim counts unless a contract yields the values it states       *)
(* (ExpectationsAreDerived).                                               *)
(***************************************************************************)
EXTENDS SilentOutput, FiniteSetTheorems, TLAPS

(* A percentage of an amount is a natural number no larger than it. *)
LEMMA DiscountBounded ==
  ASSUME NEW s \in Nat, NEW p \in 1..100
  PROVE  (s * p) \div 100 \in 0..s
<1>1. s * p \in Nat /\ s * p <= 100 * s
  <2>1. p <= 100 /\ p >= 0 OBVIOUS
  <2>2. s * p <= s * 100 /\ s * p >= 0 BY <2>1, Z3
  <2>. QED BY <2>2
<1> DEFINE m == s * p
<1>2. m \in Nat /\ m <= 100 * s BY <1>1
<1> HIDE DEF m
<1>3. m \div 100 \in 0..s BY <1>2
<1>. QED BY <1>3 DEF m

(* The tax protocol: the discount is at most the subtotal, so the inputs are
   in the oracle's range, and both compute the same tax and total. *)
LEMMA RecoveredTaxGrounds ==
  ASSUME NEW q \in Quote, ShowsTax(q), HasContract("tax")
  PROVE  Grounded(InferTax(q))
<1> DEFINE discount == (q.subtotal * q.coupon) \div 100
           fee == IF q.shipping = None THEN 0 ELSE q.shipping.minor
<1>1. q.subtotal \in Nat /\ q.coupon \in 1..100 /\ q.rate \in Nat
  BY DEF ShowsTax, Quote
<1>2. discount \in 0..q.subtotal
  BY <1>1, DiscountBounded
<1>3. fee \in Nat
  BY DEF Quote
<1>4. /\ InferTax(q).inputs.subtotal = q.subtotal
      /\ InferTax(q).inputs.discount = discount
      /\ InferTax(q).inputs.rate = q.rate
      /\ InferTax(q).inputs.shipping = fee
      /\ InferTax(q).policy = "tax"
      /\ InferTax(q).cites
      /\ InferTax(q).expected =
           [ due   |-> RoundHalfUp(q.subtotal - discount, q.rate),
             total |-> q.subtotal - discount + RoundHalfUp(q.subtotal - discount, q.rate) + fee ]
  BY DEF InferTax
<1> HIDE DEF discount, fee
<1>5. InRange(InferTax(q))
  BY <1>1, <1>2, <1>3, <1>4 DEF InRange
<1>6. InferTax(q).expected = Oracle(InferTax(q))
  BY <1>4 DEF Oracle, TaxOracle
<1>. QED BY <1>4, <1>5, <1>6 DEF Grounded

(* The shipping protocol: no discount and a zero rate by construction, and
   the tier table is the same; only the currency has to be the table's. *)
LEMMA RecoveredShippingGrounds ==
  ASSUME NEW q \in Quote, ShowsShipping(q), HasContract("shipping"),
         InferShipping(q).inputs.currency = "USD"
  PROVE  Grounded(InferShipping(q))
<1>1. q.subtotal \in Nat /\ q.shipping.minor \in Nat
  BY DEF ShowsShipping, Quote
<1>2. /\ InferShipping(q).inputs.subtotal = q.subtotal
      /\ InferShipping(q).inputs.discount = 0
      /\ InferShipping(q).inputs.rate = 0
      /\ InferShipping(q).inputs.shipping = q.shipping.minor
      /\ InferShipping(q).policy = "shipping"
      /\ InferShipping(q).cites
      /\ InferShipping(q).expected =
           [ due   |-> ShippingDue(q.subtotal, q.shipping.minor),
             total |-> q.subtotal + ShippingDue(q.subtotal, q.shipping.minor) ]
  BY DEF InferShipping
<1>3. InRange(InferShipping(q))
  BY <1>1, <1>2 DEF InRange
<1>4. InferShipping(q).expected = Oracle(InferShipping(q))
  BY <1>2 DEF Oracle, ShippingOracle
<1>. QED BY <1>2, <1>3, <1>4 DEF Grounded

(* The candidate test is one of the proposed tests, and stays the same. *)
LEMMA TestFixed == Spec => [](test \in Tests)
<1>1. Init => test \in Tests
  BY DEF Init
<1>2. test \in Tests /\ [Next]_vars => (test \in Tests)'
  BY DEF Next, GroundSilentOutput, Execute, Assess, vars
<1>. QED BY <1>1, <1>2, PTL DEF Spec

(* Every recovered claim is grounded in a checkout that holds its contract,
   unless it is about shipping in a currency without tiers
   (_infer_*_proof against _evaluate_supported_contract). *)
THEOREM RecoveredClaimsAgree == Spec => []RecoveredClaimsGround
<1>1. test \in Tests => RecoveredClaimsGround
  <2> SUFFICES ASSUME test \in Tests, test.claim = None, ClaimOf(test) # None,
                      ClaimOf(test).policy \in contracts,
                      ClaimOf(test).policy = "shipping" => ClaimOf(test).inputs.currency = "USD"
               PROVE  Grounded(ClaimOf(test))
    BY DEF RecoveredClaimsGround
  <2>1. test.quote \in Quote
    BY SilentOutputAssumption DEF Test
  <2>2. CASE ShowsTax(test.quote)
    <3>1. ClaimOf(test) = InferTax(test.quote)
      BY <2>2 DEF ClaimOf, ShowsTax, ShowsShipping
    <3>2. HasContract("tax")
      BY <3>1 DEF HasContract, InferTax
    <3>. QED BY <2>1, <2>2, <3>1, <3>2, RecoveredTaxGrounds
  <2>3. CASE ~ShowsTax(test.quote) /\ ShowsShipping(test.quote)
    <3>1. ClaimOf(test) = InferShipping(test.quote)
      BY <2>3 DEF ClaimOf
    <3>2. HasContract("shipping") /\ InferShipping(test.quote).inputs.currency = "USD"
      BY <3>1 DEF HasContract, InferShipping
    <3>. QED BY <2>1, <2>3, <3>1, <3>2, RecoveredShippingGrounds
  <2>4. CASE ~ShowsTax(test.quote) /\ ~ShowsShipping(test.quote)
    <3>1. ClaimOf(test) = None
      BY <2>4 DEF ClaimOf
    <3>. QED BY <3>1
  <2>. QED BY <2>2, <2>3, <2>4
<1>. QED BY <1>1, TestFixed, PTL

-----------------------------------------------------------------------------
(* What the runs of a test leave as evidence, and when it is assessed. *)

Recorded == { EvidenceFromRun(RunOf(answer), 1, phase, [api |-> test.api, claim |-> status]) :
                answer \in Answers, phase \in {"CANDIDATE", "REPLAY"} }

EvidenceInv ==
  /\ pc \in {"ground", "run", "assess", "assessed"}
  /\ pc = "ground" => evidence = <<>>
  /\ pc # "ground" => status = ClaimStatus(test)
  /\ evidence \in Seq(Recorded)
  /\ pc = "run" => Len(evidence) \in 0..2
  /\ pc \in {"assess", "assessed"} => Len(evidence) \in {1, 3}
  /\ pc = "assessed" => verdict = AssessEvidence(evidence[1], Tail(evidence))

LEMMA EvidenceInvNext == EvidenceInv /\ [Next]_vars => EvidenceInv'
<1> SUFFICES ASSUME EvidenceInv, [Next]_vars PROVE EvidenceInv'
  OBVIOUS
<1> USE DEF EvidenceInv
<1>1. CASE UNCHANGED vars
  BY <1>1 DEF vars, Recorded, RunOf, ClaimStatus, Grounded, HasContract
<1>2. CASE GroundSilentOutput
  <2>1. status' = ClaimStatus(test)'
    BY <1>2 DEF GroundSilentOutput, ClaimStatus, Grounded, HasContract
  <2>2. evidence' = <<>> /\ pc' = "run"
    BY <1>2 DEF GroundSilentOutput
  <2> QED BY <2>1, <2>2
<1>3. ASSUME NEW answer \in Answers, Execute(answer) PROVE EvidenceInv'
  <2>1. pc = "run" /\ UNCHANGED <<contracts, test, status>>
    BY <1>3 DEF Execute
  <2>2. Recorded' = Recorded /\ ClaimStatus(test)' = ClaimStatus(test)
    BY <2>1 DEF Recorded, RunOf, ClaimStatus, Grounded, HasContract
  <2>3. PICK e \in Recorded :
          /\ evidence' = Append(evidence, e)
          /\ pc' = IF Len(evidence) = 2 \/ (evidence = <<>> /\ ~Replayable(e)) THEN "assess" ELSE "run"
    BY <1>3 DEF Execute, Recorded
  <2>4. evidence' \in Seq(Recorded) /\ Len(evidence') = Len(evidence) + 1 /\ Len(evidence) \in 0..2
    BY <2>1, <2>3
  <2>5. evidence = <<>> => Len(evidence) = 0
    OBVIOUS
  <2> QED BY <2>1, <2>2, <2>3, <2>4, <2>5
<1>4. CASE Assess
  <2>1. Recorded' = Recorded /\ ClaimStatus(test)' = ClaimStatus(test)
    BY <1>4 DEF Assess, Recorded, RunOf, ClaimStatus, Grounded, HasContract
  <2> QED BY <1>4, <2>1 DEF Assess
<1> QED BY <1>1, <1>2, <1>3, <1>4 DEF Next

(* REPRODUCED takes two replays, both in clean agreement with the candidate. *)
LEMMA ReproducedAgrees ==
  ASSUME EvidenceInv, Reproduced
  PROVE  Len(evidence) = 3 /\ CleanMatch(evidence[1], evidence[2]) /\ CleanMatch(evidence[1], evidence[3])
<1> DEFINE c == evidence[1]
           replays == Tail(evidence)
           S == { i \in DOMAIN replays : CleanMatch(c, replays[i]) }
<1>1. AssessEvidence(c, replays).status = "REPRODUCED" /\ Len(evidence) \in {1, 3} /\ evidence \in Seq(Recorded)
  BY DEF EvidenceInv, Reproduced
<1>2. MatchingCleanReplays(c, replays) >= 2
  BY <1>1 DEF AssessEvidence
<1>3. Cardinality(S) >= 2
  BY <1>2 DEF MatchingCleanReplays
<1>4. DOMAIN replays = 1..(Len(evidence) - 1) /\ \A i \in DOMAIN replays : replays[i] = evidence[i + 1]
  BY <1>1
<1> HIDE DEF replays
<1>5. ASSUME NEW k, S \subseteq {k} PROVE FALSE
  <2>1. IsFiniteSet({k}) /\ Cardinality({k}) = 1
    BY FS_Singleton
  <2>2. Cardinality(S) \in Nat /\ Cardinality(S) <= 1
    BY <1>5, <2>1, FS_Subset, FS_CardinalityType
  <2> QED BY <1>3, <2>2
<1>6. 1 \in S /\ 2 \in S
  <2>1. S \subseteq {1, 2}
    BY <1>1, <1>4
  <2> QED BY <1>5, <2>1
<1>7. 1 \in DOMAIN replays /\ 2 \in DOMAIN replays /\ CleanMatch(c, replays[1]) /\ CleanMatch(c, replays[2])
  BY <1>6
<1>8. Len(evidence) = 3 /\ replays[1] = evidence[2] /\ replays[2] = evidence[3]
  BY <1>1, <1>4, <1>7
<1> QED BY <1>7, <1>8

(* A verified run failed with a value that is not the one its grounded claim
   expects. *)
LEMMA VerifiedIsGrounded ==
  ASSUME EvidenceInv, pc # "ground", NEW e \in Recorded, e.probeVerified
  PROVE  /\ Grounded(ClaimOf(test)) /\ ProbeAccepted(test, ClaimOf(test))
         /\ e.mismatch # ClaimOf(test).expected
<1>1. PICK answer \in Answers, phase \in {"CANDIDATE", "REPLAY"} :
        e = EvidenceFromRun(RunOf(answer), 1, phase, [api |-> test.api, claim |-> status])
  BY DEF Recorded
<1>2. status = "grounded" /\ RunOf(answer).mismatch # None /\ e.mismatch = RunOf(answer).mismatch
  BY <1>1 DEF EvidenceFromRun, ProbeVerified
<1>3. Grounded(ClaimOf(test)) /\ ProbeAccepted(test, ClaimOf(test))
  BY <1>2 DEF EvidenceInv, ClaimStatus
<1>4. RunOf(answer).mismatch # ClaimOf(test).expected
  BY <1>2 DEF RunOf
<1> QED BY <1>2, <1>3, <1>4

(* A REPRODUCED verdict of a verified silent output rests on values that a
   contract of the checkout yields, and on three runs that each showed another
   value (ground_silent_output, _disqualifiers). *)
THEOREM ClaimsAreDerived == Spec => []ExpectationsAreDerived
<1>1. Init => EvidenceInv
  BY DEF Init, EvidenceInv
<1>2. EvidenceInv => ExpectationsAreDerived
  <2> SUFFICES ASSUME EvidenceInv, Reproduced, evidence[1].probeVerified
               PROVE  /\ ClaimOf(test).policy \in contracts
                      /\ test.asserts = Oracle(ClaimOf(test))
                      /\ \A k \in 1..3 : evidence[k].mismatch # Oracle(ClaimOf(test))
    BY DEF ExpectationsAreDerived
  <2>1. Len(evidence) = 3 /\ CleanMatch(evidence[1], evidence[2]) /\ CleanMatch(evidence[1], evidence[3])
    BY ReproducedAgrees
  <2>2. evidence[1] \in Recorded /\ pc # "ground"
    <3>1. evidence \in Seq(Recorded) /\ pc = "assessed"
      BY DEF EvidenceInv, Reproduced
    <3>2. pc # "ground"
      BY <3>1
    <3>3. 1 \in 1..Len(evidence)
      BY <2>1
    <3>4. evidence[1] \in Recorded
      BY <3>1, <3>3
    <3> QED BY <3>2, <3>4
  <2>3. /\ Grounded(ClaimOf(test)) /\ ProbeAccepted(test, ClaimOf(test))
        /\ evidence[1].mismatch # ClaimOf(test).expected
    BY <2>2, VerifiedIsGrounded
  <2>4. ClaimOf(test).policy \in contracts /\ ClaimOf(test).expected = Oracle(ClaimOf(test))
    BY <2>3 DEF Grounded, HasContract
  <2>5. evidence[2].mismatch = evidence[1].mismatch /\ evidence[3].mismatch = evidence[1].mismatch
    BY <2>1 DEF CleanMatch
  <2>6. \A k \in 1..3 : evidence[k].mismatch = evidence[1].mismatch
    BY <2>5
  <2> QED BY <2>3, <2>4, <2>6 DEF ProbeAccepted
<1> QED BY <1>1, <1>2, EvidenceInvNext, PTL DEF Spec

-----------------------------------------------------------------------------
(* What the product owes by the contracts is what a recovered claim expects. *)

LEMMA RoundedType ==
  ASSUME NEW a \in Int, NEW r \in Int
  PROVE  RoundHalfUp(a, r) \in Int
<1> DEFINE p == 2 * a * r + 1000
<1>1. p \in Int
  OBVIOUS
<1> HIDE DEF p
<1>2. p \div 2000 \in Int
  BY <1>1
<1> QED BY <1>2 DEF RoundHalfUp, p

LEMMA DiscountedType == ASSUME NEW q \in Quote PROVE Discounted(q) \in Int
<1>1. q.subtotal \in Nat
  BY DEF Quote
<1>2. CASE q.coupon = None
  BY <1>1, <1>2 DEF Discounted
<1>3. CASE q.coupon # None
  <2>1. q.coupon \in Nat
    BY <1>3 DEF Quote
  <2> DEFINE m == q.subtotal * q.coupon
  <2>2. m \in Int
    BY <1>1, <2>1
  <2> HIDE DEF m
  <2>3. m \div 100 \in Int
    BY <2>2
  <2> QED BY <1>1, <1>3, <2>3 DEF Discounted, m
<1> QED BY <1>2, <1>3

(* The incentive of an order is the one of the highest tier it reaches. *)
LEMMA BestTier ==
  ASSUME NEW q \in Quote
  PROVE  /\ Discounted(q) >= 35000 => Best(q).off = 1000
         /\ Discounted(q) >= 25000 /\ Discounted(q) < 35000 => Best(q).off = 250
         /\ Discounted(q) >= 15000 /\ Discounted(q) < 25000 => Best(q).off = 500
         /\ (\A i \in Incentives : Discounted(q) < i.from) <=> Discounted(q) < 15000
<1> DEFINE d == Discounted(q)
           Highest(i) == d >= i.from /\ \A j \in Incentives : d >= j.from => j.from <= i.from
           top == [from |-> 35000, off |-> 1000]
           mid == [from |-> 25000, off |-> 250]
           low == [from |-> 15000, off |-> 500]
<1>1. d \in Int
  BY DiscountedType
<1>2. Best(q) = CHOOSE i \in Incentives : Highest(i)
  BY DEF Best
<1>3. Incentives = {top, mid, low} /\ top.from = 35000 /\ mid.from = 25000 /\ low.from = 15000
  BY DEF Incentives
<1>4. top.off = 1000 /\ mid.off = 250 /\ low.off = 500
  OBVIOUS
<1> HIDE DEF d, top, mid, low
<1>5. ASSUME NEW i \in Incentives, Highest(i), \A j \in Incentives : Highest(j) => j = i
      PROVE  Best(q) = i
  BY <1>2, <1>5
<1>6. ASSUME d >= 35000 PROVE Best(q) = top
  <2>1. Highest(top) /\ \A j \in Incentives : Highest(j) => j = top
    BY <1>1, <1>3, <1>6
  <2> QED BY <1>3, <1>5, <2>1
<1>7. ASSUME d >= 25000, d < 35000 PROVE Best(q) = mid
  <2>1. Highest(mid) /\ \A j \in Incentives : Highest(j) => j = mid
    BY <1>1, <1>3, <1>7
  <2> QED BY <1>3, <1>5, <2>1
<1>8. ASSUME d >= 15000, d < 25000 PROVE Best(q) = low
  <2>1. Highest(low) /\ \A j \in Incentives : Highest(j) => j = low
    BY <1>1, <1>3, <1>8
  <2> QED BY <1>3, <1>5, <2>1
<1>9. (\A i \in Incentives : d < i.from) <=> d < 15000
  BY <1>1, <1>3
<1> QED BY <1>4, <1>6, <1>7, <1>8, <1>9 DEF d

LEMMA FeeType == ASSUME NEW q \in Quote, NEW a PROVE FeeDue(q, a) \in Int
<1>1. CASE q.shipping = None
  BY <1>1 DEF FeeDue
<1>2. CASE q.shipping # None
  <2>1. q.shipping.minor \in Int
    BY <1>2 DEF Quote
  <2>2. CASE \A i \in Incentives : Discounted(q) < i.from
    BY <1>2, <2>1, <2>2 DEF FeeDue
  <2>3. CASE ~ \A i \in Incentives : Discounted(q) < i.from
    <3>1. Best(q).off \in {1000, 250, 500}
      BY <2>3, BestTier, DiscountedType
    <3> DEFINE fee == q.shipping.minor
               left == 1000 - Best(q).off
    <3>2. left \in Int /\ fee \in Int
      BY <2>1, <3>1
    <3> HIDE DEF fee, left
    <3>3. RoundHalfUp(fee, left) \in Int
      BY <3>2, RoundedType
    <3> QED BY <1>2, <2>1, <3>3 DEF FeeDue, fee, left
  <2> QED BY <2>2, <2>3
<1> QED BY <1>1, <1>2

LEMMA AnswerType ==
  ASSUME NEW q \in Quote, NEW f, NEW a
  PROVE  Answer(q, f, a) \in Values /\ Answer(q, f, a) # None
<1>1. Discounted(q) \in Int /\ q.subtotal \in Int /\ q.rate \in Int /\ FeeDue(q, a) \in Int
  BY DiscountedType, FeeType DEF Quote
<1>2. TaxDue(q, a) \in Int
  BY <1>1, RoundedType DEF TaxDue
<1>3. Answer(q, f, a) \in Values
  BY <1>1, <1>2 DEF Answer, Values
<1> QED BY <1>3, SilentOutputAssumption

(* Taxes: the fee the oracle adds is the fee due, unless an incentive is
   earned. *)
LEMMA TaxClaimExpected ==
  ASSUME NEW q \in Quote, ShowsTax(q), ~EarnsIncentive(q)
  PROVE  InferTax(q).expected = Answer(q, "tax", "contract")
<1>1. Discounted(q) = q.subtotal - (q.subtotal * q.coupon) \div 100
  BY DEF Discounted, ShowsTax
<1>2. FeeDue(q, "contract") = IF q.shipping = None THEN 0 ELSE q.shipping.minor
  BY DEF EarnsIncentive, FeeDue
<1>3. TaxDue(q, "contract") = RoundHalfUp(Discounted(q), q.rate)
  BY DEF TaxDue
<1> DEFINE d == q.subtotal - (q.subtotal * q.coupon) \div 100
           fee == IF q.shipping = None THEN 0 ELSE q.shipping.minor
<1>4. InferTax(q).expected = [due |-> RoundHalfUp(d, q.rate), total |-> d + RoundHalfUp(d, q.rate) + fee]
  BY DEF InferTax
<1>5. Answer(q, "tax", "contract") = [due |-> RoundHalfUp(d, q.rate), total |-> d + RoundHalfUp(d, q.rate) + fee]
  BY <1>1, <1>2, <1>3 DEF Answer
<1> QED BY <1>4, <1>5

(* Shipping: without coupon and tax nothing but the tiers is left. *)
LEMMA ShippingClaimExpected ==
  ASSUME NEW q \in Quote, ShowsShipping(q), CurrencyOf(q) = "USD"
  PROVE  InferShipping(q).expected = Answer(q, "shipping", "contract")
<1> DEFINE fee == q.shipping.minor
           s == q.subtotal
<1>1. s \in Nat /\ fee \in Nat /\ q.rate = 0 /\ q.shipping # None /\ q.coupon = None
  BY DEF ShowsShipping, Quote
<1>2. q.currencies = {"USD"}
  <2>1. Cardinality(q.currencies) = 1 /\ q.currencies \subseteq {"USD", "EUR"} /\ q.shipping.currency \in q.currencies
    BY DEF ShowsShipping, OneCurrency, Quote
  <2>2. IsFiniteSet(q.currencies)
    <3>1. IsFiniteSet({"USD"})
      BY FS_Singleton
    <3>2. IsFiniteSet({"USD"} \cup {"EUR"})
      BY <3>1, FS_AddElement
    <3>3. q.currencies \subseteq {"USD"} \cup {"EUR"}
      BY <2>1
    <3> QED BY <3>2, <3>3, FS_Subset
  <2>3. PICK c : q.currencies = {c}
    BY <2>1, <2>2, FS_Singleton
  <2>4. CurrencyOf(q) = c
    BY <2>3 DEF CurrencyOf
  <2> QED BY <2>3, <2>4
<1>3. Discounted(q) = s
  BY <1>1 DEF Discounted
<1>4. TaxDue(q, "contract") = 0
  BY <1>1, <1>3 DEF TaxDue, RoundHalfUp
<1> HIDE DEF s, fee
<1>5. FeeDue(q, "contract") = IF s < 15000 THEN fee ELSE RoundHalfUp(fee, 1000 - Best(q).off)
  BY <1>1, <1>2, <1>3, BestTier DEF FeeDue, fee
<1>6. FeeDue(q, "contract") = ShippingDue(s, fee)
  <2>1. CASE s >= 35000
    <3>1. Best(q).off = 1000 /\ ~(s < 15000)
      BY <1>1, <1>3, <2>1, BestTier
    <3>2. RoundHalfUp(fee, 0) = 0
      BY <1>1 DEF RoundHalfUp
    <3>3. ShippingDue(s, fee) = 0
      BY <1>1, <2>1 DEF ShippingDue
    <3> QED BY <1>5, <3>1, <3>2, <3>3
  <2>2. CASE s >= 25000 /\ s < 35000
    <3>1. Best(q).off = 250 /\ ~(s < 15000)
      BY <1>1, <1>3, <2>2, BestTier
    <3>2. ShippingDue(s, fee) = RoundHalfUp(fee, 750)
      BY <1>1, <2>2 DEF ShippingDue
    <3>3. 1000 - 250 = 750
      OBVIOUS
    <3> QED BY <1>5, <3>1, <3>2, <3>3
  <2>3. CASE s >= 15000 /\ s < 25000
    <3>1. Best(q).off = 500 /\ ~(s < 15000)
      BY <1>1, <1>3, <2>3, BestTier
    <3>2. ShippingDue(s, fee) = RoundHalfUp(fee, 500)
      BY <1>1, <2>3 DEF ShippingDue
    <3>3. 1000 - 500 = 500
      OBVIOUS
    <3> QED BY <1>5, <3>1, <3>2, <3>3
  <2>4. CASE s < 15000
    BY <1>1, <1>5, <2>4 DEF ShippingDue
  <2> QED BY <1>1, <2>1, <2>2, <2>3, <2>4
<1>7. ShippingDue(s, fee) \in Int
  BY <1>6, FeeType
<1>8. Answer(q, "shipping", "contract") = [due |-> ShippingDue(s, fee), total |-> s + ShippingDue(s, fee)]
  BY <1>1, <1>3, <1>4, <1>6, <1>7 DEF Answer
<1> QED BY <1>8 DEF InferShipping, s, fee

LEMMA RecoveredExpects ==
  ASSUME test \in Tests, test.claim = None, ClaimStatus(test) = "grounded",
         test.field = "tax" => ~EarnsIncentive(test.quote)
  PROVE  /\ ClaimOf(test) # None /\ test.prints
         /\ test.asserts = Answer(test.quote, test.field, "contract")
         /\ ClaimOf(test).expected = Answer(test.quote, test.field, "contract")
<1> DEFINE q == test.quote
           claim == ClaimOf(test)
<1>1. q \in Quote
  BY SilentOutputAssumption DEF Test
<1>2. /\ claim # None /\ test.prints /\ test.field = claim.policy /\ test.asserts = claim.expected
      /\ InRange(claim)
  BY DEF ClaimStatus, Grounded, ProbeAccepted
<1>3. CASE ShowsTax(q)
  <2>1. claim = InferTax(q)
    BY <1>3 DEF ClaimOf, ShowsTax, ShowsShipping
  <2>2. test.field = "tax"
    BY <1>2, <2>1 DEF InferTax
  <2> QED BY <1>1, <1>2, <1>3, <2>1, <2>2, TaxClaimExpected
<1>4. CASE ~ShowsTax(q) /\ ShowsShipping(q)
  <2>1. claim = InferShipping(q)
    BY <1>4 DEF ClaimOf
  <2>2. test.field = "shipping" /\ CurrencyOf(q) = "USD"
    BY <1>2, <2>1 DEF InferShipping, InRange
  <2> QED BY <1>1, <1>2, <1>4, <2>1, <2>2, ShippingClaimExpected
<1>5. CASE ~ShowsTax(q) /\ ~ShowsShipping(q)
  <2>1. claim = None
    BY <1>5 DEF ClaimOf
  <2> QED BY <1>2, <2>1
<1> QED BY <1>3, <1>4, <1>5

-----------------------------------------------------------------------------
(* Each record is what the product's answer to that run left behind. *)
Left(answer, phase) == EvidenceFromRun(RunOf(answer), 1, phase, [api |-> test.api, claim |-> status])

LeftBy(k) == \E phase : evidence[k] = Left(answers[k], phase)

AnswersRecorded ==
  /\ answers \in Seq(Answers)
  /\ Len(answers) = Len(evidence)
  /\ \A k \in 1..Len(evidence) : LeftBy(k)

AnswersInv == test \in Tests /\ EvidenceInv /\ AnswersRecorded

LEMMA Appended ==
  ASSUME NEW S, NEW s \in Seq(S), NEW e \in S
  PROVE  /\ Append(s, e) \in Seq(S) /\ Len(s) \in Nat /\ Len(Append(s, e)) = Len(s) + 1
         /\ Append(s, e)[Len(s) + 1] = e
         /\ \A i \in 1..Len(s) : Append(s, e)[i] = s[i]
OBVIOUS

LEMMA AnswersInvNext == AnswersInv /\ [Next]_vars => AnswersInv'
<1> SUFFICES ASSUME AnswersInv, [Next]_vars PROVE AnswersInv'
  OBVIOUS
<1>1. EvidenceInv'
  BY EvidenceInvNext DEF AnswersInv
<1>2. UNCHANGED test
  BY DEF Next, GroundSilentOutput, Execute, Assess, vars
<1>3. CASE UNCHANGED <<answers, evidence>> /\ (UNCHANGED status \/ evidence = <<>>)
  <2>1. AnswersRecorded'
    <3>1. CASE evidence = <<>>
      BY <1>3, <3>1 DEF AnswersInv, AnswersRecorded
    <3>2. CASE UNCHANGED status
      BY <1>2, <1>3, <3>2 DEF AnswersInv, AnswersRecorded, LeftBy, Left, RunOf
    <3> QED BY <1>3, <3>1, <3>2
  <2> QED BY <1>1, <1>2, <2>1 DEF AnswersInv
<1>4. ASSUME NEW answer \in Answers, Execute(answer) PROVE AnswersInv'
  <2> DEFINE phase == IF evidence = <<>> THEN "CANDIDATE" ELSE "REPLAY"
             e == Left(answer, phase)
  <2>1. evidence' = Append(evidence, e) /\ answers' = Append(answers, answer) /\ UNCHANGED status
    BY <1>4 DEF Execute, Left
  <2>2. e \in Recorded
    BY DEF Recorded, Left
  <2> HIDE DEF e
  <2>4. evidence \in Seq(Recorded) /\ answers \in Seq(Answers) /\ Len(answers) = Len(evidence)
    BY DEF AnswersInv, EvidenceInv, AnswersRecorded
  <2> DEFINE n == Len(evidence)
  <2>5. /\ n \in Nat /\ Len(evidence') = n + 1 /\ evidence'[n + 1] = e
        /\ \A i \in 1..n : evidence'[i] = evidence[i]
    BY <2>1, <2>2, <2>4, Appended
  <2>6. /\ answers' \in Seq(Answers) /\ Len(answers') = n + 1 /\ answers'[n + 1] = answer
        /\ \A i \in 1..n : answers'[i] = answers[i]
    BY <2>1, <2>4, Appended
  <2> HIDE DEF n
  <2>7. ASSUME NEW k \in 1..(n + 1) PROVE LeftBy(k)'
    <3>1. PICK a, p : answers'[k] = a /\ evidence'[k] = Left(a, p)
      <4>1. CASE k = n + 1
        BY <2>5, <2>6, <4>1 DEF e
      <4>2. CASE k \in 1..n
        <5>1. LeftBy(k)
          BY <4>2 DEF AnswersInv, AnswersRecorded, n
        <5> QED BY <2>5, <2>6, <4>2, <5>1 DEF LeftBy
      <4> QED BY <2>5, <4>1, <4>2
    <3> QED BY <1>2, <2>1, <3>1 DEF LeftBy, Left, RunOf
  <2>8. AnswersRecorded'
    BY <2>5, <2>6, <2>7 DEF AnswersRecorded
  <2> QED BY <1>1, <1>2, <2>8 DEF AnswersInv
<1>5. \/ UNCHANGED <<answers, evidence>> /\ (UNCHANGED status \/ evidence = <<>>)
      \/ \E answer \in Answers : Execute(answer)
  BY DEF Next, GroundSilentOutput, Assess, vars, AnswersInv, EvidenceInv
<1> QED BY <1>3, <1>4, <1>5

(* What a run of a grounded test shows, by the answer the product gave. *)
LEMMA RunShows ==
  ASSUME test \in Tests, test.api, status = "grounded",
         ClaimOf(test) # None, test.prints,
         test.asserts = Answer(test.quote, test.field, "contract"),
         ClaimOf(test).expected = Answer(test.quote, test.field, "contract"),
         NEW a, NEW phase, NEW e, e = Left(a, phase)
  PROVE  /\ e.setupValid /\ ~e.timedOut /\ e.api /\ e.claimed
         /\ e.probeVerified <=> a # "raises" /\ Defective(test, a)
         /\ e.probeVerified => e.testFailed /\ e.mismatch = Answer(test.quote, test.field, a)
<1> DEFINE values == Answer(test.quote, test.field, a)
           owed == Answer(test.quote, test.field, "contract")
           run == RunOf(a)
<1>1. values # None /\ owed # None
  BY AnswerType, SilentOutputAssumption DEF Test
<1>2. /\ e.setupValid = (run.preflight = "ok")
      /\ e.timedOut = (run.preflight = "timeout" \/ run.execution = "timeout")
      /\ e.testFailed = (run.execution = "failed")
      /\ e.api = test.api /\ e.claimed = (status # "none")
      /\ e.probeVerified = (status = "grounded" /\ run.execution = "failed" /\ run.mismatch # None)
      /\ e.mismatch = IF status = "grounded" THEN run.mismatch ELSE None
  BY DEF Left, EvidenceFromRun, SetupValid, TimedOut, TestFailed, ProbeVerified
<1>3. /\ run.preflight = "ok"
      /\ run.execution = IF a = "raises" \/ values # owed THEN "failed" ELSE "passed"
      /\ run.mismatch = IF a # "raises" /\ values # owed THEN values ELSE None
  BY <1>1 DEF RunOf
<1>4. Defective(test, a) <=> a = "raises" \/ values # owed
  BY DEF Defective
<1> HIDE DEF values, owed, run
<1> QED BY <1>1, <1>2, <1>3, <1>4 DEF values

(* Where the claim was recovered from the test, REPRODUCED means exactly that
   the product gave one answer three times that the contracts do not allow
   for the quote the test asks for (_infer_tax_after_discounts_proof,
   _infer_shipping_incentive_proof, same_silent_output). *)
THEOREM RecoveredClaimsExact == Spec => []RecoveredClaimsAreExact
<1>1. Init => AnswersInv
  BY DEF Init, AnswersInv, EvidenceInv, AnswersRecorded
<1>2. AnswersInv => RecoveredClaimsAreExact
  <2> DEFINE given(k) == Answer(test.quote, test.field, answers[k])
             Wrong(k) == answers[k] # "raises" /\ Defective(test, answers[k])
             replays == Tail(evidence)
             c == evidence[1]
  <2> SUFFICES ASSUME AnswersInv, pc = "assessed", test.api, test.claim = None, status = "grounded",
                      test.field = "tax" => ~EarnsIncentive(test.quote)
               PROVE  Reproduced <=> Len(answers) = 3 /\ \A k \in 1..3 : Wrong(k) /\ given(k) = given(1)
    BY DEF RecoveredClaimsAreExact
  <2>1. /\ evidence \in Seq(Recorded) /\ Len(evidence) \in {1, 3} /\ Len(answers) = Len(evidence)
        /\ verdict = AssessEvidence(c, replays) /\ EvidenceInv
    BY DEF AnswersInv, EvidenceInv, AnswersRecorded
  <2>2. /\ ClaimOf(test) # None /\ test.prints
        /\ test.asserts = Answer(test.quote, test.field, "contract")
        /\ ClaimOf(test).expected = Answer(test.quote, test.field, "contract")
    <3>1. ClaimStatus(test) = "grounded" /\ test \in Tests
      BY DEF AnswersInv, EvidenceInv
    <3> QED BY <3>1, RecoveredExpects
  <2>3. ASSUME NEW k \in 1..Len(evidence)
        PROVE  /\ evidence[k].setupValid /\ ~evidence[k].timedOut /\ evidence[k].api /\ evidence[k].claimed
               /\ evidence[k].probeVerified <=> Wrong(k)
               /\ evidence[k].probeVerified => evidence[k].testFailed /\ evidence[k].mismatch = given(k)
    <3>1. PICK phase : evidence[k] = Left(answers[k], phase)
      BY <2>3 DEF AnswersInv, AnswersRecorded, LeftBy
    <3> QED BY <2>2, <3>1, RunShows DEF AnswersInv
  <2> HIDE DEF given, Wrong
  <2>4. 1 \in 1..Len(evidence) /\ (Len(evidence) = 3 => 2 \in 1..Len(evidence) /\ 3 \in 1..Len(evidence))
    BY <2>1
  <2>5. c.setupValid /\ ~c.timedOut /\ c.api /\ c.claimed /\ (c.probeVerified => c.testFailed)
    BY <2>3, <2>4
  <2>6. \A k \in 1..3 : k = 1 \/ k = 2 \/ k = 3
    OBVIOUS
  <2>7. ASSUME Reproduced
        PROVE  Len(answers) = 3 /\ \A k \in 1..3 : Wrong(k) /\ given(k) = given(1)
    <3>1. Len(evidence) = 3 /\ CleanMatch(evidence[1], evidence[2]) /\ CleanMatch(evidence[1], evidence[3])
      BY <2>1, <2>7, ReproducedAgrees
    <3>2. ~Disqualified(c, replays)
      BY <2>1, <2>7 DEF Reproduced, AssessEvidence
    <3>3. c.probeVerified
      BY <2>5, <3>2 DEF Disqualified
    <3>4. /\ evidence[2].probeVerified /\ evidence[2].mismatch = c.mismatch
          /\ evidence[3].probeVerified /\ evidence[3].mismatch = c.mismatch
      BY <3>1, <3>3 DEF CleanMatch
    <3>5. /\ Wrong(1) /\ Wrong(2) /\ Wrong(3)
          /\ c.mismatch = given(1) /\ evidence[2].mismatch = given(2) /\ evidence[3].mismatch = given(3)
      BY <2>3, <2>4, <3>1, <3>3, <3>4
    <3>6. \A k \in 1..3 : Wrong(k) /\ given(k) = given(1)
      BY <2>6, <3>4, <3>5
    <3> QED BY <2>1, <3>1, <3>6
  <2>8. ASSUME Len(answers) = 3, \A k \in 1..3 : Wrong(k) /\ given(k) = given(1)
        PROVE  Reproduced
    <3> DEFINE S == { i \in DOMAIN replays : CleanMatch(c, replays[i]) }
    <3>1. Len(evidence) = 3 /\ Wrong(1) /\ Wrong(2) /\ Wrong(3)
      BY <2>1, <2>8
    <3>2. /\ c.probeVerified /\ evidence[2].probeVerified /\ evidence[3].probeVerified
          /\ evidence[2].setupValid /\ evidence[2].testFailed /\ ~evidence[2].timedOut
          /\ evidence[3].setupValid /\ evidence[3].testFailed /\ ~evidence[3].timedOut
          /\ c.mismatch = given(1) /\ evidence[2].mismatch = given(2) /\ evidence[3].mismatch = given(3)
      BY <2>3, <2>4, <3>1
    <3>3. given(2) = given(1) /\ given(3) = given(1)
      BY <2>8
    <3>4. CleanMatch(c, evidence[2]) /\ CleanMatch(c, evidence[3])
      BY <3>2, <3>3 DEF CleanMatch
    <3>5. DOMAIN replays = 1..2 /\ replays[1] = evidence[2] /\ replays[2] = evidence[3]
      <4>1. DOMAIN replays = 1..(Len(evidence) - 1) /\ \A i \in DOMAIN replays : replays[i] = evidence[i + 1]
        BY <2>1
      <4> HIDE DEF replays
      <4>2. DOMAIN replays = 1..2 /\ 1 \in 1..2 /\ 2 \in 1..2 /\ 1 + 1 = 2 /\ 2 + 1 = 3
        BY <3>1, <4>1
      <4>3. replays[1] = evidence[1 + 1] /\ replays[2] = evidence[2 + 1]
        BY <4>1, <4>2
      <4> QED BY <4>2, <4>3
    <3> HIDE DEF replays
    <3>6. 1..2 = {1} \cup {2}
      OBVIOUS
    <3>7. S = {1} \cup {2}
      BY <3>4, <3>5, <3>6
    <3>8. Cardinality({1} \cup {2}) = 2
      <4>1. IsFiniteSet({1}) /\ Cardinality({1}) = 1
        BY FS_Singleton
      <4>2. 2 \notin {1}
        OBVIOUS
      <4>3. Cardinality({1} \cup {2}) = Cardinality({1}) + 1
        BY <4>1, <4>2, FS_AddElement
      <4> QED BY <4>1, <4>3
    <3>9. MatchingCleanReplays(c, replays) = 2
      BY <3>7, <3>8 DEF MatchingCleanReplays
    <3>10. ~Disqualified(c, replays)
      BY <2>5, <3>2, <3>9 DEF Disqualified
    <3>11. AssessEvidence(c, replays).status = "REPRODUCED"
      BY <3>9, <3>10 DEF AssessEvidence
    <3> QED BY <2>1, <3>11 DEF Reproduced
  <2> QED BY <2>7, <2>8
<1> QED BY <1>1, <1>2, AnswersInvNext, PTL DEF Spec
=============================================================================

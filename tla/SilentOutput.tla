---------------------------- MODULE SilentOutput ----------------------------
(***************************************************************************)
(* Contract-backed evidence for wrong product values                       *)
(* (bugagent/silent_output.py): the claim that comes with a candidate test *)
(* or is recovered from it, its grounding in a contract of the repository, *)
(* the deterministic oracles, the check of the probe, and what the scorer  *)
(* of module Scoring makes of the probe's runs.                            *)
(*                                                                         *)
(* A generated test is what its syntax tree tells: the quote it asks the   *)
(* product for, the field it is about, whether it prints its observation,  *)
(* and the values it asserts.  Amounts are integers in minor units, rates  *)
(* integers in thousandths.                                                *)
(***************************************************************************)
EXTENDS Scoring

CONSTANTS
  Tests,      \* candidate tests the model may propose
  Answers     \* ways the product may answer a quote

Policy == {"tax", "shipping"}

(* What the readers of the syntax tree find of the test's quote() call: the
   sum of its lines, their currencies, the coupon (None, or its percentage;
   0 for a coupon that is no readable percentage), the shipping fee, and the
   tax rate with whether it is a literal default rate. *)
Quote ==
  [ subtotal : Nat, currencies : SUBSET {"USD", "EUR"}, coupon : Nat \cup {None},
    shipping : [minor : Nat, currency : {"USD", "EUR"}] \cup {None},
    rate : Nat, literalRate : BOOLEAN ]

(* The values a policy determines: the field it is about, and the total. *)
Values == [due : Int, total : Int]

(* A claim cites a policy (path, anchor and observed fields as the policy
   wants them, or not) and states the oracle's inputs and its result. *)
Claim ==
  [ policy   : Policy \cup {"unsupported"},
    cites    : BOOLEAN,
    inputs   : [subtotal : Int, discount : Int, rate : Int, shipping : Int, currency : {"USD", "EUR"}],
    expected : Values ]

Test ==
  [ api : BOOLEAN, claim : Claim \cup {None}, quote : Quote, field : Policy,
    prints : BOOLEAN, asserts : Values \cup {None} ]

ASSUME SilentOutputAssumption ==
  /\ Tests \subseteq Test
  /\ Answers \subseteq {"contract", "taxes_subtotal", "ignores_tiers", "raises"}
  /\ None \notin Values

VARIABLES
  pc,         \* ground, then run, then assessed
  contracts,  \* policies whose contract the checkout contains
  test,       \* the candidate test
  status,     \* what became of its claim
  answers,    \* history: how the product answered each run
  evidence,   \* the candidate run's evidence, then its replays'
  verdict     \* None until assessed

vars == <<pc, contracts, test, status, answers, evidence, verdict>>

-----------------------------------------------------------------------------
(* The oracles. *)

RoundHalfUp(amount, rate) == (2 * amount * rate + 1000) \div 2000

(* Mutation: the tiers are checked from the lowest threshold upward. *)
ShippingDue_LowestTier(subtotal, fee) ==
  CASE subtotal >= 15000 -> RoundHalfUp(fee, 500)
    [] subtotal < 15000  -> fee

ShippingDue(subtotal, fee) ==
  CASE subtotal >= 35000                      -> 0
    [] subtotal >= 25000 /\ subtotal < 35000  -> RoundHalfUp(fee, 750)
    [] subtotal >= 15000 /\ subtotal < 25000  -> RoundHalfUp(fee, 500)
    [] subtotal < 15000                       -> fee

(* Mutation: the product of amount and rate is cut instead of rounded. *)
TaxOracle_Floor(in) ==
  LET discounted == in.subtotal - in.discount
      tax == (discounted * in.rate) \div 1000
  IN [due |-> tax, total |-> discounted + tax + in.shipping]

TaxOracle(in) ==
  LET discounted == in.subtotal - in.discount
      tax == RoundHalfUp(discounted, in.rate)
  IN [due |-> tax, total |-> discounted + tax + in.shipping]

ShippingOracle(in) ==
  LET due == ShippingDue(in.subtotal, in.shipping)
  IN [due |-> due, total |-> in.subtotal + due]

InRange(claim) ==
  LET in == claim.inputs IN
  /\ in.subtotal >= 0 /\ in.shipping >= 0
  /\ IF claim.policy = "tax"
       THEN in.discount \in 0..in.subtotal /\ in.rate >= 0
       ELSE in.discount = 0 /\ in.rate = 0 /\ in.currency = "USD"

Oracle(claim) == IF claim.policy = "tax" THEN TaxOracle(claim.inputs) ELSE ShippingOracle(claim.inputs)

-----------------------------------------------------------------------------
(* Claims recovered from a test that came without one. *)

OneCurrency(q) == Cardinality(q.currencies) = 1
CurrencyOf(q)  == CHOOSE c \in q.currencies : TRUE

(* The tax protocol: a readable rate and percentage coupon; the currency of
   the shipping fee is not looked at. *)
ShowsTax(q) == q.literalRate /\ OneCurrency(q) /\ q.coupon # None /\ q.coupon \in 1..100

InferTax(q) ==
  LET discount == (q.subtotal * q.coupon) \div 100
      fee == IF q.shipping = None THEN 0 ELSE q.shipping.minor
      tax == RoundHalfUp(q.subtotal - discount, q.rate)
  IN [ policy   |-> "tax", cites |-> TRUE,
       inputs   |-> [ subtotal |-> q.subtotal, discount |-> discount, rate |-> q.rate,
                      shipping |-> fee, currency |-> CurrencyOf(q) ],
       expected |-> [due |-> tax, total |-> q.subtotal - discount + tax + fee] ]

(* The shipping protocol: a zero rate, no coupon, a fee in the currency of
   the lines. *)
ShowsShipping(q) ==
  /\ q.literalRate /\ q.rate = 0 /\ q.coupon = None
  /\ OneCurrency(q) /\ q.shipping # None /\ q.shipping.currency \in q.currencies

InferShipping(q) ==
  LET due == ShippingDue(q.subtotal, q.shipping.minor)
  IN [ policy   |-> "shipping", cites |-> TRUE,
       inputs   |-> [ subtotal |-> q.subtotal, discount |-> 0, rate |-> 0,
                      shipping |-> q.shipping.minor, currency |-> CurrencyOf(q) ],
       expected |-> [due |-> due, total |-> q.subtotal + due] ]

ClaimOf(t) ==
  CASE t.claim # None                           -> t.claim
    [] t.claim = None /\ ShowsTax(t.quote)      -> InferTax(t.quote)
    [] t.claim = None /\ ShowsShipping(t.quote) -> InferShipping(t.quote)
    [] OTHER                                    -> None

-----------------------------------------------------------------------------
(* Grounding and probe check. *)

(* The cited file is in the checkout and still states the policy. *)
HasContract(policy) == policy \in contracts

(* Mutation: the expected values of the claim are taken on trust. *)
Grounded_Trusting(claim) == claim.cites /\ HasContract(claim.policy) /\ InRange(claim)

Grounded(claim) ==
  /\ claim.cites
  /\ HasContract(claim.policy)
  /\ InRange(claim)
  /\ claim.expected = Oracle(claim)

(* The test prints the fields of the policy and asserts the claim's values;
   the quote it asks for is not compared with the claim's inputs. *)
ProbeAccepted(t, claim) == t.prints /\ t.field = claim.policy /\ t.asserts = claim.expected

ClaimStatus(t) ==
  IF ClaimOf(t) = None THEN "none"
  ELSE IF Grounded(ClaimOf(t)) /\ ProbeAccepted(t, ClaimOf(t)) THEN "grounded" ELSE "rejected"

-----------------------------------------------------------------------------
(* The product under test: the values of the field a test is about when the
   product follows both documented contracts, or breaks one of them. *)

Discounted(q) == q.subtotal - (IF q.coupon = None THEN 0 ELSE (q.subtotal * q.coupon) \div 100)

(* The documented incentives; the highest threshold an order reaches counts. *)
Incentives == { [from |-> 35000, off |-> 1000], [from |-> 25000, off |-> 250], [from |-> 15000, off |-> 500] }
Best(q) == CHOOSE i \in Incentives : /\ Discounted(q) >= i.from
                                     /\ \A j \in Incentives : Discounted(q) >= j.from => j.from <= i.from

FeeDue(q, answer) ==
  IF q.shipping = None THEN 0
  ELSE IF \/ answer = "ignores_tiers" \/ q.currencies # {"USD"}
          \/ \A i \in Incentives : Discounted(q) < i.from
    THEN q.shipping.minor
    ELSE RoundHalfUp(q.shipping.minor, 1000 - Best(q).off)

TaxDue(q, answer) == RoundHalfUp(IF answer = "taxes_subtotal" THEN q.subtotal ELSE Discounted(q), q.rate)

Answer(q, field, answer) ==
  [ due   |-> IF field = "tax" THEN TaxDue(q, answer) ELSE FeeDue(q, answer),
    total |-> Discounted(q) + TaxDue(q, answer) + FeeDue(q, answer) ]

(* A product cannot add amounts of different currencies. *)
CanAnswer(q, answer) == answer # "raises" => OneCurrency(q)

(* Is the answer to the test's quote one the contracts do not allow? *)
Defective(t, answer) ==
  answer = "raises" \/ Answer(t.quote, t.field, answer) # Answer(t.quote, t.field, "contract")

(* One sandbox run of the test, as the product answers: it fails in product
   code when the product raises, and in the test when an assertion fails. *)
RunOf(answer) ==
  LET raises   == answer = "raises"
      values   == Answer(test.quote, test.field, answer)
      failed   == raises \/ (test.asserts # None /\ test.asserts # values)
      observed == failed /\ ~raises /\ test.prints
      mismatch == observed /\ ClaimOf(test) # None /\ values # ClaimOf(test).expected
  IN [ preflight |-> "ok",
       execution |-> IF failed THEN "failed" ELSE "passed",
       signature |-> IF failed THEN [text |-> "t", symptom |-> TRUE, repository |-> raises] ELSE None,
       mismatch  |-> IF mismatch THEN values ELSE None ]

-----------------------------------------------------------------------------
Init ==
  /\ pc = "ground"
  /\ contracts \in SUBSET Policy
  /\ test \in Tests
  /\ status = "none"
  /\ answers = <<>>
  /\ evidence = <<>>
  /\ verdict = None

GroundSilentOutput ==
  /\ pc = "ground"
  /\ pc' = "run"
  /\ status' = ClaimStatus(test)
  /\ UNCHANGED <<contracts, test, answers, evidence, verdict>>

(* The candidate run, and two replays when it failed cleanly. *)
Execute(answer) ==
  LET e == EvidenceFromRun(RunOf(answer), 1, IF evidence = <<>> THEN "CANDIDATE" ELSE "REPLAY",
                           [api |-> test.api, claim |-> status])
  IN /\ pc = "run"
     /\ CanAnswer(test.quote, answer)
     /\ pc' = IF Len(evidence) = 2 \/ (evidence = <<>> /\ ~Replayable(e)) THEN "assess" ELSE "run"
     /\ evidence' = Append(evidence, e)
     /\ answers' = Append(answers, answer)
     /\ UNCHANGED <<contracts, test, status, verdict>>

Assess ==
  /\ pc = "assess"
  /\ pc' = "assessed"
  /\ verdict' = AssessEvidence(evidence[1], Tail(evidence))
  /\ UNCHANGED <<contracts, test, status, answers, evidence>>

Next == GroundSilentOutput \/ (\E answer \in Answers : Execute(answer)) \/ Assess

Spec == Init /\ [][Next]_vars

-----------------------------------------------------------------------------
(* The order also earns a shipping incentive, which the tax oracle, adding
   the full fee, does not know of. *)
EarnsIncentive(q) == FeeDue(q, "contract") # FeeDue(q, "ignores_tiers")

Reproduced == pc = "assessed" /\ verdict.status = "REPRODUCED"

(* For a test whose claim was recovered from the test itself, a silent wrong
   output is reproduced exactly when the product gave the same answer in all
   three runs and the documented contracts do not allow it for the very
   quote the test asks for.  Tax tests of orders that earn a shipping
   incentive are the exception: the tax oracle expects the full fee
   (_infer_tax_after_discounts_proof, same_silent_output). *)
RecoveredClaimsAreExact ==
  /\ pc = "assessed" /\ test.api /\ test.claim = None /\ status = "grounded"
  /\ test.field = "tax" => ~EarnsIncentive(test.quote)
  => LET given(k) == Answer(test.quote, test.field, answers[k])
     IN Reproduced <=>
          /\ Len(answers) = 3
          /\ \A k \in 1..3 : /\ answers[k] # "raises" /\ Defective(test, answers[k])
                             /\ given(k) = given(1)

(* The two computations of every recovered claim agree: it is grounded in a
   checkout that has the contract, unless it is about shipping in a currency
   the tiers are not documented for (_infer_*_proof against
   _evaluate_supported_contract). *)
RecoveredClaimsGround ==
  LET claim == ClaimOf(test) IN
  /\ test.claim = None /\ claim # None
  /\ claim.policy \in contracts
  /\ claim.policy = "shipping" => claim.inputs.currency = "USD"
  => Grounded(claim)

(* No claim of the model counts unless a repository contract yields exactly
   the values it states (ground_silent_output, _disqualifiers): a verified
   mismatch always is one with an oracle's value. *)
ExpectationsAreDerived ==
  Reproduced /\ evidence[1].probeVerified =>
    /\ ClaimOf(test).policy \in contracts
    /\ test.asserts = Oracle(ClaimOf(test))
    /\ \A k \in 1..3 : evidence[k].mismatch # Oracle(ClaimOf(test))

-----------------------------------------------------------------------------
(* What the repository says of claims, each checked against the code. *)

(* "Model-proposed contract citation and inputs; never trusted without
   verification" (domain.py): whatever claim comes with a test, a verified
   wrong output is one the contracts do not allow for the test's own quote,
   again apart from orders that earn a shipping incentive. *)
VerifiedMeansDefective ==
  Reproduced /\ evidence[1].probeVerified /\ ~EarnsIncentive(test.quote)
    => \A k \in 1..3 : Defective(test, answers[k])
=============================================================================

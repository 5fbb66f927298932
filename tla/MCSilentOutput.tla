--------------------------- MODULE MCSilentOutput ---------------------------
(* Small instances of SilentOutput for TLC. *)
EXTENDS SilentOutput

(* Orders on both sides of every shipping tier, a fee and a discount that do
   not divide evenly, and every way a quote can withhold an input. *)
Fee(m, c) == [minor |-> m, currency |-> c]
Order(subtotal, coupon, shipping, rate) ==
  [ subtotal |-> subtotal, currencies |-> {"USD"}, coupon |-> coupon,
    shipping |-> shipping, rate |-> rate, literalRate |-> TRUE ]
MCQuotes ==
  { Order(s, c, f, r) : s \in {1266, 14999, 15000, 24999, 25000, 34999, 35000},
                        c \in {None, 10}, f \in {None, Fee(999, "USD")}, r \in {0, 75} }
  \cup { [Order(15000, None, Fee(999, "EUR"), 0) EXCEPT !.currencies = {"EUR"}],
         [Order(1266, 10, Fee(999, "EUR"), 75) EXCEPT !.currencies = {"EUR"}],
         [Order(1266, 10, None, 75) EXCEPT !.currencies = {"USD", "EUR"}],
         [Order(1266, 10, None, 75) EXCEPT !.literalRate = FALSE],
         Order(1266, 0, Fee(999, "USD"), 75) }

(* Claims of the model about the order of 1266: true to a policy, with
   values of its own, badly cited, out of range, or unsupported. *)
TaxClaim(discount, due, total) ==
  [ policy |-> "tax", cites |-> TRUE, expected |-> [due |-> due, total |-> total],
    inputs |-> [subtotal |-> 1266, discount |-> discount, rate |-> 75, shipping |-> 0, currency |-> "USD"] ]
MCClaims ==
  { TaxClaim(126, 86, 1226), TaxClaim(0, 95, 1361), TaxClaim(126, 95, 1235), TaxClaim(1267, 0, 0),
    [TaxClaim(126, 86, 1226) EXCEPT !.cites = FALSE],
    [TaxClaim(126, 86, 1226) EXCEPT !.policy = "unsupported"] }

(* Tests without a claim assert nothing, what the product may answer, or
   what is recovered from them; tests with a claim assert what it expects. *)
Bare(api, q, f) ==
  [api |-> api, claim |-> None, quote |-> q, field |-> f, prints |-> FALSE, asserts |-> None]
Asserted(t) ==
  { Answer(t.quote, t.field, x) : x \in {"contract", "ignores_tiers", "taxes_subtotal"} }
  \cup { c.expected : c \in {ClaimOf(t)} \ {None} }
Unclaimed ==
  LET bare == { Bare(TRUE, q, f) : q \in MCQuotes, f \in Policy } IN
  bare
  \cup { Bare(FALSE, q, "tax") : q \in MCQuotes }
  \cup UNION { { [t EXCEPT !.prints = p, !.asserts = v] : p \in BOOLEAN, v \in Asserted(t) } : t \in bare }
Claimed ==
  { [Bare(a, q, "tax") EXCEPT !.claim = c, !.prints = p, !.asserts = c.expected] :
      a \in BOOLEAN, c \in MCClaims, p \in BOOLEAN,
      q \in { x \in MCQuotes : x.subtotal = 1266 /\ x.shipping = None } }

MCTests  == Unclaimed \cup Claimed
MCValues == UNION { { Answer(t.quote, t.field, x) : x \in Answers } : t \in MCTests }
=============================================================================

SPECIFICATION Spec
CONSTANTS
  None = None
  Texts = {"t"}
  Mismatches <- MCValues
  Tests <- MCTests
  Answers = {"contract", "taxes_subtotal", "ignores_tiers", "raises"}
INVARIANT
  VerifiedMeansDefective
CHECK_DEADLOCK FALSE

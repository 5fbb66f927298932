SPECIFICATION Spec
CONSTANTS
  None = None
  Texts = {"t"}
  Mismatches <- MCValues
  Tests <- MCTests
  Answers = {"contract", "taxes_subtotal", "ignores_tiers", "raises"}
INVARIANTS
  RecoveredClaimsAreExact
  RecoveredClaimsGround
  ExpectationsAreDerived
CHECK_DEADLOCK FALSE

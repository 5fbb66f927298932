SPECIFICATION ReplaySpec
CONSTANTS
  None = None
  Texts <- MCTexts
  Mismatches <- MCMismatches
  Candidates <- FewCandidates
  Runs <- FewRuns
  MaxAttempts = 2
INVARIANTS
  TypeOK
  ReproducedIffProven
  BundleConsistent
  FirstAttemptReplayable
PROPERTIES
  ImplementsGate
CHECK_DEADLOCK FALSE

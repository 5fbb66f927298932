SPECIFICATION ProgressSpec
CONSTANTS
  None = None
  Texts = {"t"}
  Mismatches = {}
  Candidates <- ProgressCandidates
  Runs <- ProgressRuns
  MaxAttempts = 3
INVARIANTS
  LabelsMatchPhase
  FinishedJobClosesStages
PROPERTY
  JobEnds
CHECK_DEADLOCK FALSE

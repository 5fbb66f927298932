SPECIFICATION Spec
CONSTANTS
  r1 = r1
  r2 = r2
  Runs = {r1, r2}
  ProvenBy <- SecondAndFirst
  Yolo = {r1}
  MaxFixAttempts = 2
  MaxJobs = 2
  MaxStops = 1
INVARIANTS
  TypeOK
  PlansAreValidated
  RetriesAreCorrectable
  AutonomousAnswered
PROPERTIES
  DoneSurvivesRestart
  FixJobsSettle
CHECK_DEADLOCK FALSE

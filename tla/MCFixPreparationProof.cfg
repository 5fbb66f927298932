SPECIFICATION Spec
CONSTANTS
  r1 = r1
  r2 = r2
  Runs = {r1, r2}
  ProvenBy <- SecondAndFirst
  Yolo = {r1}
  MaxFixAttempts = 3
  MaxJobs = 2
  MaxStops = 0
INVARIANT
  PlanCarriesProof
CHECK_DEADLOCK FALSE

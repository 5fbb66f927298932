SPECIFICATION Spec
CONSTANTS
  None = None
  p1 = p1
  p2 = p2
  r1 = r1
  c1 = c1
  c2 = c2
  Plans = {p1, p2}
  RunOf <- SameRun
  RunCommit <- FirstCommit
  Autonomous = {p1}
  FromJira = {p1}
  Clients = {c1, c2}
  MaxMoves = 1
  MaxStops = 1
INVARIANTS
  TypeOK
  NeverRepublished
  PullCarriesValidatedPlan
  DoneIsSettled
PROPERTIES
  ImplementsPublishOnce
  JobsSettle
  OpenPullRequestStaysShown
CHECK_DEADLOCK FALSE

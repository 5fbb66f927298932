SPECIFICATION Spec
CONSTANTS
  j1 = j1
  j2 = j2
  r1 = r1
  r2 = r2
  Jobs = {j1, j2}
  Readers = {r1, r2}
  Follows <- OwnJob
  After <- OneLate
  MaxStages = 1
  MaxDrops = 1
INVARIANTS
  NoLostWakeup
  DeliveryIsExact
PROPERTIES
  StreamEnds
  ReconnectCompletes

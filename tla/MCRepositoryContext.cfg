SPECIFICATION Spec
CONSTANTS
  FileTypes <- SmallFiles
  ItemSizes = {1, 3}
  ManifestSizes = {1, 5}
  MaxFiles = 4
  MaxItems = 2
  FileLimit = 3
  MaxFileBytes = 4
  MaxContextBytes = 9
  MaxApiBytes = 4
  MaxUsageBytes = 3
  Reserve = 1
  MaxSnippets = 2
  MaxExamples = 1
INVARIANTS
  ContextFillsItsCap
  ContractsComeFirst
CHECK_DEADLOCK FALSE

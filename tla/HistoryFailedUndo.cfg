CONSTANTS
  MaxPushes = 4
  MaxGroups = 4
  MergeKeys = {1}
  Costs = {1, 2}
  nMaxOperations = 3
  cbMaxPayloads = 4
  InitialCapacity = 2
SPECIFICATION Spec
INVARIANTS CleanMatchesFile

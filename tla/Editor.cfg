CONSTANTS
  Parts = {"history", "settings", "map"}
  MaxPushes = 4
  MaxGroups = 4
  MergeKeys = {1}
  Costs = {1, 2}
  nMaxOperations = 3
  cbMaxPayloads = 4
  InitialCapacity = 2
  Values = {v0, v1}
  EmptyDocument = v0
  Damaged = {d1, d2}
  Partial = partial
  NoFile = nofile
  EditsWhileOpen = TRUE
  Contents = {c0, c1}
  Blank = c0
  Paths = {map}
  NoPath = untitled
  Missing = missing
  MaxAddresses = 6
  AllocatorReuses = FALSE
  Keep = 1
  MaxStates = 3
  MaxCopies = 2
SPECIFICATION EditorSpec
INVARIANTS EditorTypeOK JournalSound CleanTellsSaved ReportsAreTrue
PROPERTIES SettingsTextKept MapsSurvive

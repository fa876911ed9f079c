CONSTANTS
  Contents = {c0, c1, c2}
  Blank = c0
  Paths = {map}
  NoPath = untitled
  Missing = missing
  MaxAddresses = 2
  AllocatorReuses = TRUE
  Keep = 1
  MaxStates = 3
  MaxCopies = 2
SPECIFICATION MSpec
INVARIANTS UnchangedMeansCopied

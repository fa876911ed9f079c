CONSTANTS
  MaxRequests = 3
  SlotCount = 2
  HandleMax = 3
  Threads = {t1, t2}
  Coordinated = FALSE
  Nobody = Nobody
  NoSlot = NoSlot
SPECIFICATION Spec
SYMMETRY ThreadSymmetry
INVARIANTS BorrowedBuffersSafe ResultsAgree AcceptedCancelWins RunningWorkersTracked

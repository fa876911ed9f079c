CONSTANTS
  MaxRequests = 3
  SlotCount = 1
  HandleMax = 3
  Threads = {t1, t2}
  Coordinated = TRUE
  Nobody = Nobody
  NoSlot = NoSlot
SPECIFICATION Spec
SYMMETRY ThreadSymmetry
INVARIANTS WaiterFindsResult

CONSTANTS
  Parts = {"async", "watch"}
  MaxRequests = 2
  SlotCount = 2
  HandleMax = 1
  Threads = {t1, t2}
  Coordinated = FALSE
  Nobody = Nobody
  NoSlot = NoSlot
  PathOrder <- TreePaths
  DirPaths <- Directories
  FirstPaths <- AtFirst
  Targets <- WatchTargets
  Stamps = {m1, m2}
  DirStamp = dir
  NoEntry = noentry
  NoPath = nopath
  MaxWatches = 2
  MaxDirs = 3
  QueueMax = 3
  nMaxEvents = 4
  MaxChanges = 2
  MaxHandles = 2
SPECIFICATION FileSystemSpec
INVARIANTS TypeOK WatchTypeOK NetChangesReported
PROPERTIES CallsReturn PollsCatchUp

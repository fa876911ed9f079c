CONSTANTS
  Parts = {"pool", "bus", "world", "calls", "mutex", "waits", "lists", "renderer", "host"}
  LastGeneration = 3
  SlotLimit = 4
  MinimumSlots = 2
  NoIndex = noindex
  GenerationMax = 3
  CapacityMax = 2
  Growth = 2
  NoValue = nothing
  EventIds = {e1, e2}
  Priorities = {1, 2}
  SequenceMax = 2
  MaxSubscriptions = 3
  MaxEmissions = 1
  Objects = {o1, o2}
  WorldCapacity = 1
  SubmissionCapacity = 1
  WorldSerialMax = 2
  SubmissionSerialMax = 1
  IncarnationMax = 4
  BuildMax = 2
  Tags = {g1, g2}
  RingMinimum = 2
  RingsMax = 3
  PushesMax = 4
  Threads = {t1, t2, t3}
  NoThread = nothread
  MaxDepth = 3
  Coordinated = TRUE
  Callers = {c1, c2, c3}
  PermitsMax = 2
  PostsMax = 3
  Lists = {l1, l2}
  Nodes = {n1, n2, n3}
  NoList = nolist
  NoNode = nonode
  Buffers = {b1, b2}
  VertexInputs = {v1, v2}
  Shaders = {s1}
  Pipelines = {p1}
  Textures = {x1, x2}
  Samplers = {m1}
  Targets = {target}
  NoTarget = notarget
  ReferenceMax = 2
  BindingsMax = 2
  SubmitClosesPass = TRUE
SPECIFICATION EngineSpec
INVARIANTS EngineTypeOK HandlesNameOneRecord FreeListTrusted EmissionsKeepTheirWord NamesStayTrue CallsRunInTurn HoldersKeepTheLock HolderCanUnlock WaitersServed NodesAccountedFor RendererSound HostUnwinds

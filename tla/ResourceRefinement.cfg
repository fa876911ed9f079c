CONSTANTS
  k1 = k1  k2 = k2  k3 = k3  t1 = t1  t2 = t2  id1 = id1  id2 = id2
  Keys = {k1, k2, k3}
  Types = {t1}
  Ids = {k1,k2,k3}
  TypeOf <- OneType
  IdOf <- Distinct
  cResourceCapacity = 2
  cTypeCapacity = 1
  TypeSlotMax = 1
  GenerationMax = 2
  ReferenceMax = 3
  Refs = {r1,r2}
  App = App  Nobody = Nobody  Pending = Pending  NoSlot = NoSlot  NoKey = NoKey
SPECIFICATION FairSpec
INVARIANTS StaleHandlesRejected
PROPERTIES ImplementsPromise UsesIndex ShutdownCompletes

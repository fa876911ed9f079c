CONSTANTS
  Parts = {"manager", "tables"}
  k1 = k1  k2 = k2  k3 = k3  t1 = t1  t2 = t2  id1 = id1  id2 = id2
  Keys = {k1, k2, k3}
  Types = {t1,t2}
  Ids = {id1,id2}
  TypeOf <- TwoTypes
  IdOf <- Colliding
  cResourceCapacity = 2
  cTypeCapacity = 2
  TypeSlotMax = 3
  GenerationMax = 1
  ReferenceMax = 2
  Refs = {r1,r2}
  App = App  Nobody = Nobody  Pending = Pending  NoSlot = NoSlot  NoKey = NoKey
  Identities = {1, 2, 3, 4}
  SlotCount = 3
  HashRange = {6, 7, 0}
  NoRecord = norecord
SPECIFICATION RegistrySpec
SYMMETRY RefSymmetry
INVARIANTS TypeOK LoaderEntriesStable TablesAgree AcquireAnswersTrue
PROPERTIES ImplementsIndex

CONSTANTS
  k1 = k1  k2 = k2  k3 = k3  t1 = t1  t2 = t2  id1 = id1  id2 = id2
  Keys = {k1, k2, k3}
  Types = {t1}
  Ids = {k1,k2,k3}
  TypeOf <- OneType
  IdOf <- Distinct
  cResourceCapacity = 3
  cTypeCapacity = 1
  TypeSlotMax = 1
  GenerationMax = 1
  ReferenceMax = 3
  Refs = {r1,r2,r3,r4}
  App = App  Nobody = Nobody  Pending = Pending  NoSlot = NoSlot  NoKey = NoKey
SPECIFICATION Spec
SYMMETRY KeyAndRefSymmetry
INVARIANTS ReferencesCounted CallbacksOwnTheirRecord DependenciesOutliveUsers

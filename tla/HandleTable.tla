----------------------------- MODULE HandleTable -----------------------------
(***************************************************************************)
(* The generational table that hands out 32-bit handles                    *)
(* (src/CypherCommon/Tier1/CypherCommon_HandleTable.inl), as functions on  *)
(* a table [slots, free].  A slot keeps its generation while it is vacant; *)
(* free is the intrusive free list, first to be used first.                *)
(***************************************************************************)
EXTENDS Naturals, FiniteSets, SequencesExt, Listing

CONSTANTS
  GenerationMax,   \* CY_HANDLE32_GENERATION_MAX
  CapacityMax,     \* CY_HANDLE_TABLE_MAX_CAPACITY
  Growth,          \* slots gained when the table grows
  NoValue          \* what a vacant slot holds

ASSUME HandleTableAssumption ==
  GenerationMax \in Nat \ {0} /\ CapacityMax \in Nat /\ Growth \in Nat \ {0}

InvalidHandle == [iSlot |-> 0, nGeneration |-> 0]

EmptyTable == [slots |-> <<>>, free |-> <<>>]

Occupied(table) == {i \in DOMAIN table.slots : table.slots[i].bOccupied}
Count(table) == Cardinality(Occupied(table))
HandleOf(table, i) == [iSlot |-> i, nGeneration |-> table.slots[i].nGeneration]

\* A slip: the generation outgrows its bits.
GenerationGoesOn(n) == n + 1

NextGeneration(n) == IF n >= GenerationMax THEN 1 ELSE n + 1

\* DecodeLiveHandle.
Resolves(table, handle) ==
  /\ handle.iSlot \in Occupied(table)
  /\ table.slots[handle.iSlot].nGeneration = handle.nGeneration

Get(table, handle) == table.slots[handle.iSlot].value

\* RebuildFreeList: the vacant slots, lowest first.
Rebuilt(slots) ==
  [slots |-> slots, free |-> Ascending({i \in DOMAIN slots : ~slots[i].bOccupied})]

CanGrow(table) == Len(table.slots) < CapacityMax

\* CalculateGrowth.
GrowthCapacity(table) == Min({Len(table.slots) + Growth, CapacityMax})

NewSlot == [nGeneration |-> 1, bOccupied |-> FALSE, value |-> NoValue]

\* Reserve, when it succeeds.
Reserved(table, nCapacity) ==
  Rebuilt([i \in 1 .. nCapacity |->
             IF i \in DOMAIN table.slots THEN table.slots[i] ELSE NewSlot])

Taken(slot, value) ==
  [nGeneration |-> slot.nGeneration, bOccupied |-> TRUE, value |-> value]

\* Emplace, into a table with a free slot.
Emplace(table, value) ==
  [slots |-> [table.slots EXCEPT ![Head(table.free)] = Taken(@, value)],
   free |-> Tail(table.free)]

\* What a caller does with the pointer that Get answered.
Assigned(table, handle, value) ==
  [slots |-> [table.slots EXCEPT ![handle.iSlot] = Taken(@, value)], free |-> table.free]

Vacated(slot) ==
  [nGeneration |-> NextGeneration(slot.nGeneration), bOccupied |-> FALSE,
   value |-> NoValue]

\* Remove: the slot is the next one to be used, under another generation.
Removed(table, handle) ==
  LET i == handle.iSlot
  IN  [slots |-> [table.slots EXCEPT ![i] = Vacated(@)],
       free |-> <<i>> \o table.free]

Cleared(table) ==
  Rebuilt([i \in DOMAIN table.slots |->
             IF table.slots[i].bOccupied
             THEN Vacated(table.slots[i]) ELSE table.slots[i]])

\* The free list holds every vacant slot once.
TableSound(table) ==
  /\ ToSet(table.free) = DOMAIN table.slots \ Occupied(table)
  /\ Len(table.free) = Cardinality(ToSet(table.free))
  /\ \A i \in DOMAIN table.slots : table.slots[i].nGeneration \in 1 .. GenerationMax
=============================================================================

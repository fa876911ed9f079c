---------------------------- MODULE EngineProofs -----------------------------
(***************************************************************************)
(* Proofs for the parts of the engine over handle tables and for its two   *)
(* staged services: the table itself, EventBus, World, Host and Renderer.  *)
(*                                                                         *)
(* The table: Threaded says that the free list names every slot that is not*)
(* occupied, once.  Each operation keeps it, and says what it does to the  *)
(* slots.                                                                  *)
(*                                                                         *)
(* EventBus: whatever a callback does to the bus, it Moves the table: slots*)
(* stay, are given up, are new, or one takes the next subscription.  What the*)
(* snapshot says of the table, and what the calls made so far say, survives*)
(* any such move, because a handle of the snapshot can only go stale.      *)
(*                                                                         *)
(* World: WorldKept is about the table of objects, IdsKept about every id that*)
(* was given out, and SubmissionKept about the storage and every token.    *)
(*                                                                         *)
(* Host: there is always a number n such that the first n services are up, and*)
(* where the host is in its start, its loop or its shutdown tells n.       *)
(*                                                                         *)
(* Renderer: Rendering relates the records to what they use (RecordShape,  *)
(* ReferencesProtect) and says how far a start or a stop has come (Phases):*)
(* while an initialised renderer stops, the systems still to stop come users*)
(* first.                                                                  *)
(***************************************************************************)
EXTENDS MCEngine, ContainerProofs, SynchronisationProofs

-----------------------------------------------------------------------------
(* The handle table. *)

\* A slot whose value is in V.
Slot(V) == [nGeneration : 1 .. GenerationMax, bOccupied : BOOLEAN, value : V]

\* The free list names every slot that is not occupied, and names it once.
Threaded(table, V) ==
  /\ table.slots \in Seq(Slot(V)) /\ table.free \in Seq(Nat)
  /\ \A n \in 1 .. Len(table.free) :
       table.free[n] \in 1 .. Len(table.slots) /\ ~table.slots[table.free[n]].bOccupied
  /\ \A i \in 1 .. Len(table.slots) :
       ~table.slots[i].bOccupied => \E n \in 1 .. Len(table.free) : table.free[n] = i
  /\ \A m, n \in 1 .. Len(table.free) : table.free[m] = table.free[n] => m = n

\* A sequence of slots, read by index.
LEMMA SlotsShape ==
  ASSUME NEW V, NEW slots \in Seq(Slot(V))
  PROVE  /\ Len(slots) \in Nat /\ DOMAIN slots = 1 .. Len(slots)
         /\ \A i \in 1 .. Len(slots) :
              /\ slots[i] \in Slot(V) /\ slots[i].nGeneration \in 1 .. GenerationMax
              /\ slots[i].bOccupied \in BOOLEAN /\ slots[i].value \in V
<1>1. /\ Len(slots) \in Nat /\ DOMAIN slots = 1 .. Len(slots)
      /\ \A i \in 1 .. Len(slots) : slots[i] \in Slot(V)
  OBVIOUS
<1>2. ASSUME NEW slot \in Slot(V)
      PROVE  slot.nGeneration \in 1 .. GenerationMax /\ slot.bOccupied \in BOOLEAN /\ slot.value \in V
  BY DEF Slot
<1>3. QED
  BY <1>1, <1>2

\* The occupied slots are among the slots.
LEMMA OccupiedSlots ==
  ASSUME NEW V, NEW table, table.slots \in Seq(Slot(V))
  PROVE  Occupied(table) = {i \in 1 .. Len(table.slots) : table.slots[i].bOccupied}
  BY SlotsShape DEF Occupied

\* HandleTable_RebuildFreeList threads a table whatever its slots are.
LEMMA RebuiltThreads ==
  ASSUME NEW V, NEW slots \in Seq(Slot(V))
  PROVE  Threaded(Rebuilt(slots), V)
<1> DEFINE S == {i \in 1 .. Len(slots) : ~slots[i].bOccupied}
<1>1. S \subseteq Nat /\ IsFiniteSet(S)
  <2>1. IsFiniteSet(1 .. Len(slots))
    BY FS_Interval
  <2>2. QED
    BY <2>1, FS_Subset
<1>2. /\ Rebuilt(slots).slots = slots /\ Rebuilt(slots).free = Ascending(S)
  BY SlotsShape DEF Rebuilt
<1>3. /\ Ascending(S) \in Seq(S) /\ Len(Ascending(S)) = Cardinality(S)
      /\ \A i \in S : \E n \in 1 .. Cardinality(S) : Ascending(S)[n] = i
      /\ \A m, n \in 1 .. Cardinality(S) : Ascending(S)[m] = Ascending(S)[n] => m = n
  BY <1>1, AscendingLists
<1>4. Ascending(S) \in Seq(Nat) /\ \A n \in 1 .. Cardinality(S) : Ascending(S)[n] \in S
  <2> HIDE DEF S
  <2>1. Ascending(S) \in Seq(Nat)
    BY <1>1, <1>3, SeqMonotonic
  <2>2. \A n \in 1 .. Cardinality(S) : Ascending(S)[n] \in S
    BY <1>3, ElementOfSeq
  <2>3. QED
    BY <2>1, <2>2
<1>5. \A n \in 1 .. Cardinality(S) : Ascending(S)[n] \in 1 .. Len(slots) /\ ~slots[Ascending(S)[n]].bOccupied
  BY <1>4
<1>6. \A i \in 1 .. Len(slots) : ~slots[i].bOccupied => \E n \in 1 .. Cardinality(S) : Ascending(S)[n] = i
  BY <1>3
<1> HIDE DEF S
<1>7. QED
  BY <1>2, <1>3, <1>4, <1>5, <1>6 DEF Threaded

\* HandleTable_Emplace: one slot that was free is occupied, under the generation it
\* had, and nothing else changes.
LEMMA EmplaceThreads ==
  ASSUME NEW V, NEW table, Threaded(table, V), table.free # << >>, NEW value \in V
  PROVE  /\ Threaded(Emplace(table, value), V)
         /\ Head(table.free) \in 1 .. Len(table.slots) /\ ~table.slots[Head(table.free)].bOccupied
         /\ Len(Emplace(table, value).slots) = Len(table.slots)
         /\ \A i \in 1 .. Len(table.slots) :
              Emplace(table, value).slots[i] =
                IF i = Head(table.free) THEN Taken(table.slots[i], value) ELSE table.slots[i]
<1> DEFINE h == Head(table.free)
           new == Emplace(table, value)
<1>1. /\ Len(table.free) \in Nat \ {0} /\ h = table.free[1]
      /\ h \in 1 .. Len(table.slots) /\ ~table.slots[h].bOccupied
  BY DEF Threaded
<1>2. /\ Len(new.free) = Len(table.free) - 1 /\ new.free \in Seq(Nat)
      /\ \A n \in 1 .. Len(new.free) : new.free[n] = table.free[n + 1]
  BY <1>1 DEF Threaded, Emplace
<1>3. new.slots = [table.slots EXCEPT ![h] = Taken(table.slots[h], value)]
  BY DEF Emplace
<1>4. Taken(table.slots[h], value) \in Slot(V) /\ Taken(table.slots[h], value).bOccupied
  BY <1>1, SlotsShape DEF Threaded, Taken, Slot
<1>5. /\ new.slots \in Seq(Slot(V)) /\ Len(new.slots) = Len(table.slots)
      /\ \A i \in 1 .. Len(table.slots) :
           new.slots[i] = IF i = h THEN Taken(table.slots[i], value) ELSE table.slots[i]
  BY <1>1, <1>3, <1>4, ExceptSeq DEF Threaded
<1> HIDE DEF h, new
<1>6. \A n \in 1 .. Len(new.free) :
        new.free[n] \in 1 .. Len(table.slots) /\ ~table.slots[new.free[n]].bOccupied /\ new.free[n] # h
  <2> SUFFICES ASSUME NEW n \in 1 .. Len(new.free)
               PROVE  new.free[n] \in 1 .. Len(table.slots) /\ ~table.slots[new.free[n]].bOccupied /\ new.free[n] # h
    OBVIOUS
  <2>1. new.free[n] = table.free[n + 1] /\ n + 1 \in 1 .. Len(table.free) /\ 1 \in 1 .. Len(table.free) /\ n + 1 # 1
    BY <1>1, <1>2
  <2>2. QED
    BY <1>1, <2>1 DEF Threaded
<1>7. \A n \in 1 .. Len(new.free) : new.free[n] \in 1 .. Len(new.slots) /\ ~new.slots[new.free[n]].bOccupied
  BY <1>5, <1>6
<1>8. ASSUME NEW i \in 1 .. Len(new.slots), ~new.slots[i].bOccupied
      PROVE  \E n \in 1 .. Len(new.free) : new.free[n] = i
  <2>1. i # h /\ ~table.slots[i].bOccupied /\ i \in 1 .. Len(table.slots)
    BY <1>4, <1>5, <1>8
  <2>2. PICK n \in 1 .. Len(table.free) : table.free[n] = i
    BY <2>1 DEF Threaded
  <2>3. n # 1 /\ n - 1 \in 1 .. Len(new.free) /\ new.free[n - 1] = i
    BY <1>1, <1>2, <2>1, <2>2
  <2>4. QED
    BY <2>3
<1>9. ASSUME NEW m \in 1 .. Len(new.free), NEW n \in 1 .. Len(new.free), new.free[m] = new.free[n]
      PROVE  m = n
  <2>1. table.free[m + 1] = table.free[n + 1] /\ m + 1 \in 1 .. Len(table.free) /\ n + 1 \in 1 .. Len(table.free)
    BY <1>1, <1>2, <1>9, SMTT(40)
  <2>2. m + 1 = n + 1
    BY <2>1 DEF Threaded
  <2>3. QED
    BY <2>2
<1>10. Threaded(new, V)
  BY <1>2, <1>5, <1>7, <1>8, <1>9 DEF Threaded
<1>11. QED
  BY <1>1, <1>5, <1>10 DEF h, new

\* Generations come round to one and stay in their range.
LEMMA NextGenerations ==
  ASSUME NEW n \in 1 .. GenerationMax
  PROVE  NextGeneration(n) \in 1 .. GenerationMax
  BY HandleTableAssumption DEF NextGeneration

\* A slot that is given up is free, under the next generation.
LEMMA VacatedSlots ==
  ASSUME NEW V, NoValue \in V, NEW slot \in Slot(V)
  PROVE  Vacated(slot) \in Slot(V) /\ ~Vacated(slot).bOccupied
  BY NextGenerations DEF Slot, Vacated

\* HandleTable_Remove: the slot of the handle is free, under another generation when
\* there is one, and nothing else changes.
LEMMA RemovedThreads ==
  ASSUME NEW V, NoValue \in V, NEW table, Threaded(table, V), NEW handle,
         handle.iSlot \in 1 .. Len(table.slots), table.slots[handle.iSlot].bOccupied
  PROVE  /\ Threaded(Removed(table, handle), V)
         /\ Len(Removed(table, handle).slots) = Len(table.slots)
         /\ \A i \in 1 .. Len(table.slots) :
              Removed(table, handle).slots[i] =
                IF i = handle.iSlot THEN Vacated(table.slots[i]) ELSE table.slots[i]
<1> DEFINE h == handle.iSlot
           new == Removed(table, handle)
<1>0. h \in Nat /\ Len(table.free) \in Nat
  BY DEF Threaded
<1>1. /\ Len(new.free) = Len(table.free) + 1 /\ new.free \in Seq(Nat) /\ new.free[1] = h
      /\ \A n \in 2 .. Len(table.free) + 1 : new.free[n] = table.free[n - 1]
  BY <1>0 DEF Threaded, Removed
<1>2. new.slots = [table.slots EXCEPT ![h] = Vacated(table.slots[h])]
  BY DEF Removed
<1>3. Vacated(table.slots[h]) \in Slot(V) /\ ~Vacated(table.slots[h]).bOccupied
  BY SlotsShape, VacatedSlots DEF Threaded
<1>4. /\ new.slots \in Seq(Slot(V)) /\ Len(new.slots) = Len(table.slots)
      /\ \A i \in 1 .. Len(table.slots) :
           new.slots[i] = IF i = h THEN Vacated(table.slots[i]) ELSE table.slots[i]
  BY <1>2, <1>3, ExceptSeq DEF Threaded
<1>s. table.slots[h].bOccupied /\ h \in 1 .. Len(table.slots)
  OBVIOUS
<1> HIDE DEF h, new
<1>5. ASSUME NEW n \in 1 .. Len(new.free)
      PROVE  new.free[n] \in 1 .. Len(new.slots) /\ ~new.slots[new.free[n]].bOccupied
  <2>1. CASE n = 1
    BY <1>1, <1>3, <1>4, <1>s, <2>1
  <2>2. CASE n \in 2 .. Len(table.free) + 1
    <3>1. new.free[n] = table.free[n - 1] /\ n - 1 \in 1 .. Len(table.free)
      BY <1>0, <1>1, <2>2
    <3>2. new.free[n] \in 1 .. Len(table.slots) /\ ~table.slots[new.free[n]].bOccupied
      BY <3>1 DEF Threaded
    <3>3. QED
      BY <1>4, <1>s, <3>2
  <2>3. QED
    BY <1>0, <1>1, <2>1, <2>2
<1>6. ASSUME NEW i \in 1 .. Len(new.slots), ~new.slots[i].bOccupied
      PROVE  \E n \in 1 .. Len(new.free) : new.free[n] = i
  <2>1. CASE i = h
    BY <1>0, <1>1, <2>1
  <2>2. CASE i # h
    <3>1. ~table.slots[i].bOccupied /\ i \in 1 .. Len(table.slots)
      BY <1>4, <1>6, <2>2
    <3>2. PICK n \in 1 .. Len(table.free) : table.free[n] = i
      BY <3>1 DEF Threaded
    <3>3. n + 1 \in 2 .. Len(table.free) + 1 /\ n + 1 \in 1 .. Len(new.free) /\ (n + 1) - 1 = n
      BY <1>0, <1>1
    <3>4. new.free[n + 1] = i
      BY <1>1, <3>2, <3>3
    <3>5. QED
      BY <3>3, <3>4
  <2>3. QED
    BY <2>1, <2>2
<1>7. ASSUME NEW m \in 1 .. Len(new.free), NEW n \in 1 .. Len(new.free), new.free[m] = new.free[n]
      PROVE  m = n
  <2>1. \A k \in 2 .. Len(new.free) :
          new.free[k] = table.free[k - 1] /\ k - 1 \in 1 .. Len(table.free) /\ new.free[k] # h
    <3> SUFFICES ASSUME NEW k \in 2 .. Len(new.free)
                 PROVE  new.free[k] = table.free[k - 1] /\ k - 1 \in 1 .. Len(table.free) /\ new.free[k] # h
      OBVIOUS
    <3>1. new.free[k] = table.free[k - 1] /\ k - 1 \in 1 .. Len(table.free)
      BY <1>0, <1>1
    <3>2. ~table.slots[table.free[k - 1]].bOccupied
      BY <3>1 DEF Threaded
    <3>3. QED
      BY <1>s, <3>1, <3>2
  <2>2. CASE m = 1 \/ n = 1
    <3>1. \A k \in 1 .. Len(new.free) : k = 1 \/ k \in 2 .. Len(new.free)
      BY <1>0, <1>1
    <3>2. QED
      BY <1>1, <1>7, <2>1, <2>2, <3>1
  <2>3. CASE m # 1 /\ n # 1
    <3>1. m \in 2 .. Len(new.free) /\ n \in 2 .. Len(new.free)
      BY <1>0, <1>1, <2>3
    <3>2. table.free[m - 1] = table.free[n - 1] /\ m - 1 \in 1 .. Len(table.free) /\ n - 1 \in 1 .. Len(table.free)
      BY <1>7, <2>1, <3>1
    <3>3. m - 1 = n - 1
      BY <3>2 DEF Threaded
    <3>4. QED
      BY <3>3
  <2>4. QED
    BY <2>2, <2>3
<1>8. Threaded(new, V)
  BY <1>1, <1>4, <1>5, <1>6, <1>7 DEF Threaded
<1>9. QED
  BY <1>4, <1>8 DEF h, new

\* Writing through a handle changes the value of its slot alone.
LEMMA AssignedThreads ==
  ASSUME NEW V, NEW table, Threaded(table, V), NEW handle, NEW value \in V,
         handle.iSlot \in 1 .. Len(table.slots), table.slots[handle.iSlot].bOccupied
  PROVE  /\ Threaded(Assigned(table, handle, value), V)
         /\ Len(Assigned(table, handle, value).slots) = Len(table.slots)
         /\ \A i \in 1 .. Len(table.slots) :
              Assigned(table, handle, value).slots[i] =
                IF i = handle.iSlot THEN Taken(table.slots[i], value) ELSE table.slots[i]
<1> DEFINE h == handle.iSlot
           new == Assigned(table, handle, value)
<1>1. /\ new.slots = [table.slots EXCEPT ![h] = Taken(table.slots[h], value)]
      /\ new.free = table.free
  BY DEF Assigned
<1>2. Taken(table.slots[h], value) \in Slot(V) /\ Taken(table.slots[h], value).bOccupied
  BY SlotsShape DEF Threaded, Taken, Slot
<1>3. /\ new.slots \in Seq(Slot(V)) /\ Len(new.slots) = Len(table.slots)
      /\ \A i \in 1 .. Len(table.slots) :
           new.slots[i] = IF i = h THEN Taken(table.slots[i], value) ELSE table.slots[i]
  BY <1>1, <1>2, ExceptSeq DEF Threaded
<1>s. table.slots[h].bOccupied /\ h \in 1 .. Len(table.slots)
  OBVIOUS
<1> HIDE DEF h, new
<1>4. \A i \in 1 .. Len(table.slots) : new.slots[i].bOccupied <=> table.slots[i].bOccupied
  BY <1>2, <1>3, <1>s
<1>5. Threaded(new, V)
  <2>1. /\ new.slots \in Seq(Slot(V)) /\ new.free = table.free /\ Len(new.slots) = Len(table.slots)
    BY <1>1, <1>3
  <2>2. \A n \in 1 .. Len(table.free) : table.free[n] \in 1 .. Len(new.slots) /\ ~new.slots[table.free[n]].bOccupied
    BY <1>4, <2>1 DEF Threaded
  <2>3. /\ table.free \in Seq(Nat)
        /\ \A i \in 1 .. Len(table.slots) :
             ~table.slots[i].bOccupied => \E n \in 1 .. Len(table.free) : table.free[n] = i
        /\ \A m, n \in 1 .. Len(table.free) : table.free[m] = table.free[n] => m = n
    BY DEF Threaded
  <2>4. \A i \in 1 .. Len(new.slots) :
          ~new.slots[i].bOccupied => \E n \in 1 .. Len(table.free) : table.free[n] = i
    BY <1>4, <2>1, <2>3
  <2>5. QED
    BY <2>1, <2>2, <2>3, <2>4 DEF Threaded
<1>6. QED
  BY <1>3, <1>5 DEF h, new

\* A table that is not full has a free slot: the count of the code tells.
LEMMA RoomLeft ==
  ASSUME NEW V, NEW table, Threaded(table, V), Count(table) < Len(table.slots)
  PROVE  table.free # << >>
<1>1. SUFFICES ASSUME table.free = << >> PROVE FALSE
  OBVIOUS
<1>2. Len(table.slots) \in Nat
  BY SlotsShape DEF Threaded
<1>3. Occupied(table) = 1 .. Len(table.slots)
  <2>1. \A i \in 1 .. Len(table.slots) : table.slots[i].bOccupied
    BY <1>1 DEF Threaded
  <2>2. table.slots \in Seq(Slot(V))
    BY DEF Threaded
  <2>3. QED
    BY <2>1, <2>2, OccupiedSlots
<1>4. Cardinality(1 .. Len(table.slots)) = Len(table.slots)
  BY <1>2, FS_Interval
<1>5. QED
  BY <1>2, <1>3, <1>4 DEF Count

\* A threaded table passes the audit of HandleTable_IsValid.
LEMMA ThreadedIsSound ==
  ASSUME NEW V, NEW table, Threaded(table, V)
  PROVE  TableSound(table)
<1> DEFINE free == table.free
<1>1. /\ free \in Seq(Nat) /\ Len(free) \in Nat /\ DOMAIN free = 1 .. Len(free)
      /\ \A m, n \in 1 .. Len(free) : free[m] = free[n] => m = n
  BY DEF Threaded
<1>2. ToSet(free) = {free[n] : n \in 1 .. Len(free)}
  BY <1>1 DEF ToSet
<1>3. Len(free) = Cardinality(ToSet(free))
  <2> HIDE DEF free
  <2>1. free \in Bijection(1 .. Len(free), ToSet(free))
    BY <1>1, <1>2 DEF Bijection, Injection, Surjection, IsInjective
  <2>2. QED
    BY <1>1, <2>1, FS_CountingElements DEF ExistsBijection
<1>4. DOMAIN table.slots = 1 .. Len(table.slots)
      /\ Occupied(table) = {i \in 1 .. Len(table.slots) : table.slots[i].bOccupied}
  <2>1. table.slots \in Seq(Slot(V))
    BY DEF Threaded
  <2>2. QED
    BY <2>1, SlotsShape, OccupiedSlots
<1>5. ToSet(free) = DOMAIN table.slots \ Occupied(table)
  <2>1. \A n \in 1 .. Len(free) :
          free[n] \in 1 .. Len(table.slots) /\ ~table.slots[free[n]].bOccupied
    BY DEF Threaded
  <2>2. \A i \in 1 .. Len(table.slots) :
          ~table.slots[i].bOccupied => \E n \in 1 .. Len(free) : free[n] = i
    BY DEF Threaded
  <2> HIDE DEF free
  <2>3. QED
    BY <1>2, <1>4, <2>1, <2>2
<1>6. \A i \in DOMAIN table.slots : table.slots[i].nGeneration \in 1 .. GenerationMax
  BY SlotsShape DEF Threaded
<1>7. QED
  BY <1>3, <1>5, <1>6 DEF TableSound

\* The empty table.
LEMMA EmptyThreads ==
  ASSUME NEW V PROVE Threaded(EmptyTable, V) /\ Occupied(EmptyTable) = {}
<1>1. /\ EmptyTable.slots = << >> /\ EmptyTable.free = << >>
  BY DEF EmptyTable
<1>2. /\ EmptyTable.slots \in Seq(Slot(V)) /\ EmptyTable.free \in Seq(Nat)
      /\ Len(EmptyTable.slots) = 0 /\ Len(EmptyTable.free) = 0
  BY <1>1, EmptySeq
<1>3. Threaded(EmptyTable, V)
  BY <1>2 DEF Threaded
<1>4. Occupied(EmptyTable) = {}
  BY <1>2, OccupiedSlots
<1>5. QED
  BY <1>3, <1>4

\* What HandleTable_Reserve puts into a new slot.
LEMMA NewSlots ==
  ASSUME NEW V, NoValue \in V PROVE NewSlot \in Slot(V) /\ ~NewSlot.bOccupied
  BY HandleTableAssumption DEF Slot, NewSlot

\* HandleTable_Reserve: the slots that were there keep their contents.
LEMMA ReservedThreads ==
  ASSUME NEW V, NoValue \in V, NEW table, table.slots \in Seq(Slot(V)), NEW n \in Nat
  PROVE  /\ Threaded(Reserved(table, n), V) /\ Len(Reserved(table, n).slots) = n
         /\ \A i \in 1 .. n :
              Reserved(table, n).slots[i] = IF i \in 1 .. Len(table.slots) THEN table.slots[i] ELSE NewSlot
<1> DEFINE slots == [i \in 1 .. n |-> IF i \in 1 .. Len(table.slots) THEN table.slots[i] ELSE NewSlot]
<1>1. slots \in Seq(Slot(V)) /\ Len(slots) = n
  BY NewSlots
<1>2. Reserved(table, n) = Rebuilt(slots)
  BY SlotsShape DEF Reserved
<1>3. Reserved(table, n).slots = slots
  BY <1>2 DEF Rebuilt
<1>4. Threaded(Reserved(table, n), V)
  BY <1>1, <1>2, RebuiltThreads
<1>5. QED
  BY <1>1, <1>3, <1>4

\* A table that was just created has only free slots.
LEMMA FreshThreads ==
  ASSUME NEW V, NoValue \in V, NEW n \in Nat
  PROVE  /\ Threaded(Reserved(EmptyTable, n), V) /\ Len(Reserved(EmptyTable, n).slots) = n
         /\ \A i \in 1 .. n : ~Reserved(EmptyTable, n).slots[i].bOccupied
<1>1. EmptyTable.slots \in Seq(Slot(V)) /\ Len(EmptyTable.slots) = 0
  BY EmptySeq DEF EmptyTable
<1>2. /\ Threaded(Reserved(EmptyTable, n), V) /\ Len(Reserved(EmptyTable, n).slots) = n
      /\ \A i \in 1 .. n : Reserved(EmptyTable, n).slots[i] =
           IF i \in 1 .. Len(EmptyTable.slots) THEN EmptyTable.slots[i] ELSE NewSlot
  BY <1>1, ReservedThreads
<1>3. ASSUME NEW i \in 1 .. n PROVE Reserved(EmptyTable, n).slots[i] = NewSlot
  <2>1. i \notin 1 .. 0
    OBVIOUS
  <2>2. QED
    BY <1>1, <1>2, <2>1
<1>4. QED
  BY <1>2, <1>3, NewSlots

\* HandleTable_Clear: every slot is free, and those that were occupied have moved on
\* by a generation.
LEMMA ClearedThreads ==
  ASSUME NEW V, NoValue \in V, NEW table, table.slots \in Seq(Slot(V))
  PROVE  /\ Threaded(Cleared(table), V) /\ Len(Cleared(table).slots) = Len(table.slots)
         /\ \A i \in 1 .. Len(table.slots) :
              Cleared(table).slots[i] =
                IF table.slots[i].bOccupied THEN Vacated(table.slots[i]) ELSE table.slots[i]
<1> DEFINE n == Len(table.slots)
           slots == [i \in 1 .. n |-> IF table.slots[i].bOccupied THEN Vacated(table.slots[i]) ELSE table.slots[i]]
<1>1. n \in Nat /\ \A i \in 1 .. n : slots[i] \in Slot(V)
  BY SlotsShape, VacatedSlots
<1>2. slots \in Seq(Slot(V)) /\ Len(slots) = n
  <2> HIDE DEF n
  <2>1. slots \in [1 .. n -> Slot(V)]
    BY <1>1
  <2>2. QED
    BY <1>1, <2>1
<1>3. Cleared(table) = Rebuilt(slots)
  BY SlotsShape DEF Cleared
<1>4. Cleared(table).slots = slots
  BY <1>3 DEF Rebuilt
<1>5. Threaded(Cleared(table), V)
  BY <1>2, <1>3, RebuiltThreads
<1>6. QED
  BY <1>2, <1>4, <1>5

-----------------------------------------------------------------------------
(* The event bus. *)

\* What a slot of the bus holds, and the handles that name one.
BusRecords == [eventId : EventIds, nPriority : Priorities, once : BOOLEAN, nSequence : Nat, id : Nat]
BusValues == BusRecords \cup {NoValue}
BusHandles == [iSlot : Nat \ {0}, nGeneration : Nat \ {0}]

\* A handle that resolves: Resolves, by index.
Live(table, handle) ==
  /\ handle.iSlot \in 1 .. Len(table.slots)
  /\ table.slots[handle.iSlot].bOccupied
  /\ table.slots[handle.iSlot].nGeneration = handle.nGeneration

\* The slots hold subscriptions with different numbers, none above n, and the
\* generation of a slot grows no faster than n: no handle comes round.
SubscriptionsKept(table, n) ==
  /\ Threaded(table, BusValues)
  /\ Len(table.slots) <= CapacityMax /\ n \in 0 .. MaxSubscriptions
  /\ \A k \in 1 .. Len(table.slots) :
       /\ table.slots[k].bOccupied =>
            /\ table.slots[k].value \in BusRecords /\ table.slots[k].value.id \in 1 .. n
            /\ table.slots[k].nGeneration <= n
       /\ table.slots[k].nGeneration <= n + 1
  /\ \A k, l \in 1 .. Len(table.slots) :
       table.slots[k].bOccupied /\ table.slots[l].bOccupied
         /\ table.slots[k].value.id = table.slots[l].value.id => k = l

\* One subscription comes before another: by priority, then by age.
InOrder(table, a, b) ==
  \/ Get(table, a).nPriority > Get(table, b).nPriority
  \/ Get(table, a).nPriority = Get(table, b).nPriority /\ Get(table, a).id < Get(table, b).id

\* The order lists every occupied slot once, in the order of InOrder.
OrderKept(table, listed) ==
  /\ listed \in Seq(BusHandles)
  /\ \A i \in 1 .. Len(listed) : Live(table, listed[i])
  /\ \A i, j \in 1 .. Len(listed) : listed[i].iSlot = listed[j].iSlot => i = j
  /\ \A k \in 1 .. Len(table.slots) :
       table.slots[k].bOccupied => \E i \in 1 .. Len(listed) : listed[i].iSlot = k
  /\ \A i, j \in 1 .. Len(listed) : i < j => InOrder(table, listed[i], listed[j])

\* A subscription to come is younger than every one there is.
SequencesKept(table, next) ==
  /\ next \in 0 .. SequenceMax
  /\ \A k \in 1 .. Len(table.slots) :
       table.slots[k].bOccupied => table.slots[k].value.nSequence < next

(* What the snapshot of an emission says of the table. *)
SnapshotKept(table, n) ==
  /\ dispatchSnapshot \in Seq(BusHandles)
  /\ \A i, j \in 1 .. Len(dispatchSnapshot) :
       dispatchSnapshot[i].iSlot = dispatchSnapshot[j].iSlot => i = j
  /\ \A i \in 1 .. Len(dispatchSnapshot) :
       LET h == dispatchSnapshot[i]
       IN  /\ h.iSlot \in 1 .. Len(table.slots)
           /\ \/ table.slots[h.iSlot].nGeneration > h.nGeneration
              \/ Live(table, h)
              \/ ~table.slots[h.iSlot].bOccupied /\ n = MaxSubscriptions
           /\ Live(table, h) => (Get(table, h).eventId = eventId <=> Get(table, h).id \in atStart)
  /\ atStart \subseteq 1 .. n
  /\ bEmitting =>
       \A k \in 1 .. Len(table.slots) :
         table.slots[k].bOccupied /\ table.slots[k].value.id \in atStart =>
           \E i \in 1 .. Len(dispatchSnapshot) : dispatchSnapshot[i] = HandleOf(table, k)

\* The subscriptions that the emission has called.
Made == {calls[i].id : i \in 1 .. Len(calls)}

(* Which calls were made, before the one in progress and by it. *)
CallsKept(table) ==
  /\ calls \in Seq(BusRecords)
  /\ \A i \in 1 .. Len(calls) : calls[i].id \in atStart
  /\ \A i, j \in 1 .. Len(calls) : calls[i].id = calls[j].id => i = j
  /\ \A i \in 1 .. Len(dispatchSnapshot) :
       Live(table, dispatchSnapshot[i]) =>
         LET id == Get(table, dispatchSnapshot[i]).id
         IN  /\ i < iDispatch /\ id \in atStart => id \in Made
             /\ i > iDispatch => id \notin Made
             /\ i = iDispatch /\ calling = NotCalling => id \notin Made
             /\ i = iDispatch /\ calling # NotCalling => id = calls[Len(calls)].id
  /\ \A i \in 1 .. Len(calls), k \in 1 .. Len(table.slots) :
       calls[i].once /\ table.slots[k].bOccupied /\ table.slots[k].value.id = calls[i].id =>
         calling # NotCalling /\ i = Len(calls) /\ calling.handle = HandleOf(table, k)

\* How far the emission is: which handle is being called, and that the last call
\* that was recorded is the one in progress.
Emission ==
  /\ bEmitting \in BOOLEAN /\ eventId \in EventIds /\ iDispatch \in Nat \ {0}
  /\ ~bEmitting => calling = NotCalling /\ dispatchSnapshot = << >>
  /\ bEmitting => iDispatch <= Len(dispatchSnapshot) + 1
  /\ calling # NotCalling =>
       /\ calling \in [handle : BusHandles, once : BOOLEAN]
       /\ iDispatch <= Len(dispatchSnapshot) /\ calling.handle = dispatchSnapshot[iDispatch]
       /\ calls # << >> /\ calls[Len(calls)].once = calling.once

\* The inductive invariant of the bus.
BusKept ==
  /\ SubscriptionsKept(subscriptions, nSubscribed) /\ OrderKept(subscriptions, order)
  /\ SequencesKept(subscriptions, nNextSequence)
  /\ SnapshotKept(subscriptions, nSubscribed) /\ CallsKept(subscriptions) /\ Emission
-----------------------------------------------------------------------------
\* RemoveAt, by index: what was behind the element moves down by one.
LEMMA WithoutOne ==
  ASSUME NEW S, NEW s \in Seq(S), NEW i \in 1 .. Len(s)
  PROVE  /\ RemoveAt(s, i) \in Seq(S) /\ Len(RemoveAt(s, i)) = Len(s) - 1
         /\ \A j \in 1 .. Len(s) - 1 : RemoveAt(s, i)[j] = IF j < i THEN s[j] ELSE s[j + 1]
<1> DEFINE a == SubSeq(s, 1, i - 1)
           b == SubSeq(s, i + 1, Len(s))
<1>1. Len(s) \in Nat /\ \A j \in 1 .. Len(s) : s[j] \in S
  OBVIOUS
<1>2. /\ a \in Seq(S) /\ Len(a) = i - 1 /\ \A j \in 1 .. i - 1 : a[j] = s[j]
  BY <1>1, SubSeqProperties
<1>3. /\ b \in Seq(S) /\ Len(b) = Len(s) - i /\ \A j \in 1 .. Len(s) - i : b[j] = s[i + j]
  BY <1>1, SubSeqProperties
<1> HIDE DEF a, b
<1>4. RemoveAt(s, i) = a \o b
  BY DEF RemoveAt, a, b
<1>5. /\ a \o b \in Seq(S) /\ Len(a \o b) = Len(s) - 1
      /\ \A j \in 1 .. Len(a) : (a \o b)[j] = a[j]
      /\ \A j \in Len(a) + 1 .. Len(a) + Len(b) : (a \o b)[j] = b[j - Len(a)]
  <2>1. a \in Seq(S) /\ b \in Seq(S)
    BY <1>2, <1>3
  <2>2. /\ a \o b \in Seq(S) /\ Len(a \o b) = Len(a) + Len(b)
        /\ \A j \in 1 .. Len(a) : (a \o b)[j] = a[j]
        /\ \A j \in Len(a) + 1 .. Len(a) + Len(b) : (a \o b)[j] = b[j - Len(a)]
    BY <2>1, ConcatProperties
  <2>3. Len(a) + Len(b) = Len(s) - 1
    BY <1>1, <1>2, <1>3
  <2>4. QED
    BY <2>2, <2>3
<1>6. ASSUME NEW j \in 1 .. Len(s) - 1
      PROVE  (a \o b)[j] = IF j < i THEN s[j] ELSE s[j + 1]
  <2>1. CASE j < i
    BY <1>1, <1>2, <1>5, <2>1
  <2>2. CASE ~(j < i)
    <3>1. j \in Len(a) + 1 .. Len(a) + Len(b) /\ j - Len(a) \in 1 .. Len(s) - i /\ i + (j - Len(a)) = j + 1
      BY <1>1, <1>2, <1>3, <2>2
    <3>2. QED
      BY <1>3, <1>5, <2>2, <3>1
  <2>3. QED
    BY <2>1, <2>2
<1>7. QED
  BY <1>4, <1>5, <1>6

\* InsertAt, by index: what was at the place or behind moves up by one.
LEMMA WithOne ==
  ASSUME NEW S, NEW s \in Seq(S), NEW i \in 1 .. Len(s) + 1, NEW e \in S
  PROVE  /\ InsertAt(s, i, e) \in Seq(S) /\ Len(InsertAt(s, i, e)) = Len(s) + 1
         /\ InsertAt(s, i, e)[i] = e
         /\ \A j \in 1 .. Len(s) : InsertAt(s, i, e)[IF j < i THEN j ELSE j + 1] = s[j]
<1> DEFINE a == SubSeq(s, 1, i - 1)
           b == SubSeq(s, i, Len(s))
           d == <<e>>
           c == a \o d
<1>1. Len(s) \in Nat /\ \A j \in 1 .. Len(s) : s[j] \in S
  OBVIOUS
<1>2. /\ a \in Seq(S) /\ Len(a) = i - 1 /\ \A j \in 1 .. i - 1 : a[j] = s[j]
  BY <1>1, SubSeqProperties
<1>3. /\ b \in Seq(S) /\ Len(b) = Len(s) - i + 1 /\ \A j \in 1 .. Len(s) - i + 1 : b[j] = s[i + j - 1]
  BY <1>1, SubSeqProperties
<1>4. InsertAt(s, i, e) = c \o b
  BY DEF InsertAt
<1>5. d \in Seq(S) /\ Len(d) = 1 /\ d[1] = e
  OBVIOUS
<1> HIDE DEF a, b, d
<1>6. /\ c \in Seq(S) /\ Len(c) = i /\ c[i] = e
      /\ \A j \in 1 .. i - 1 : c[j] = s[j]
  <2>1. /\ c \in Seq(S) /\ Len(c) = Len(a) + Len(d)
        /\ \A j \in 1 .. Len(a) : c[j] = a[j]
        /\ \A j \in Len(a) + 1 .. Len(a) + Len(d) : c[j] = d[j - Len(a)]
    <3>1. a \in Seq(S) /\ d \in Seq(S)
      BY <1>2, <1>5
    <3>2. QED
      BY <3>1, ConcatProperties
  <2>2. i \in Len(a) + 1 .. Len(a) + Len(d) /\ i - Len(a) = 1 /\ Len(a) + Len(d) = i
    BY <1>1, <1>2, <1>5
  <2>3. c[i] = d[1]
    BY <2>1, <2>2
  <2>4. \A j \in 1 .. i - 1 : c[j] = s[j]
    BY <1>2, <2>1
  <2>5. QED
    BY <1>5, <2>1, <2>2, <2>3, <2>4
<1> HIDE DEF c
<1>7. /\ c \o b \in Seq(S) /\ Len(c \o b) = Len(s) + 1
      /\ \A j \in 1 .. Len(c) : (c \o b)[j] = c[j]
      /\ \A j \in Len(c) + 1 .. Len(c) + Len(b) : (c \o b)[j] = b[j - Len(c)]
  <2>1. c \in Seq(S) /\ b \in Seq(S)
    BY <1>3, <1>6
  <2>2. /\ c \o b \in Seq(S) /\ Len(c \o b) = Len(c) + Len(b)
        /\ \A j \in 1 .. Len(c) : (c \o b)[j] = c[j]
        /\ \A j \in Len(c) + 1 .. Len(c) + Len(b) : (c \o b)[j] = b[j - Len(c)]
    BY <2>1, ConcatProperties
  <2>3. Len(c) + Len(b) = Len(s) + 1
    BY <1>1, <1>3, <1>6
  <2>4. QED
    BY <2>2, <2>3
<1>8. ASSUME NEW j \in 1 .. Len(s)
      PROVE  (c \o b)[IF j < i THEN j ELSE j + 1] = s[j]
  <2>1. CASE j < i
    BY <1>1, <1>6, <1>7, <2>1
  <2>2. CASE ~(j < i)
    <3>1. /\ j + 1 \in Len(c) + 1 .. Len(c) + Len(b) /\ (j + 1) - Len(c) \in 1 .. Len(s) - i + 1
          /\ i + ((j + 1) - Len(c)) - 1 = j
      BY <1>1, <1>3, <1>6, <2>2
    <3>2. QED
      BY <1>3, <1>7, <2>2, <3>1
  <2>3. QED
    BY <2>1, <2>2
<1>9. i \in 1 .. Len(c)
  BY <1>6
<1>10. QED
  BY <1>4, <1>6, <1>7, <1>8, <1>9

\* Slots that change only in what they hold leave the free list right.
LEMMA SameOccupancyThreads ==
  ASSUME NEW V, NEW T, Threaded(T, V), NEW U, U.free = T.free, U.slots \in Seq(Slot(V)),
         Len(U.slots) = Len(T.slots),
         \A k \in 1 .. Len(T.slots) : U.slots[k].bOccupied <=> T.slots[k].bOccupied
  PROVE  Threaded(U, V)
  BY DEF Threaded

(* What may happen to a table in one go: slots stay as they are, are given up, are
   new, or one of them takes the next subscription. *)
Same(s, t) ==
  /\ t.bOccupied <=> s.bOccupied
  /\ t.nGeneration = s.nGeneration
  /\ s.bOccupied =>
       /\ t.value \in BusRecords
       /\ t.value.id = s.value.id /\ t.value.eventId = s.value.eventId
       /\ t.value.once = s.value.once /\ t.value.nPriority = s.value.nPriority

\* A slot that was given up: its handle is stale from now on.
Left(s, t) == s.bOccupied /\ ~t.bOccupied /\ t.nGeneration = NextGeneration(s.nGeneration)

\* A free slot that took the subscription number m.
Joined(s, t, m) ==
  /\ ~s.bOccupied /\ t.bOccupied /\ t.nGeneration = s.nGeneration
  /\ t.value \in BusRecords /\ t.value.id = m

Moves(T, n, U, m) ==
  /\ n \in Nat /\ m \in n .. MaxSubscriptions /\ Len(T.slots) <= Len(U.slots)
  /\ \A k \in 1 .. Len(U.slots) :
       \/ k \in 1 .. Len(T.slots) /\ Same(T.slots[k], U.slots[k])
       \/ k \in 1 .. Len(T.slots) /\ Left(T.slots[k], U.slots[k])
       \/ k \in 1 .. Len(T.slots) /\ Joined(T.slots[k], U.slots[k], m) /\ n < m
       \/ k \notin 1 .. Len(T.slots) /\ ~U.slots[k].bOccupied /\ U.slots[k].nGeneration = 1
  /\ \A k, l \in 1 .. Len(T.slots) :
       Joined(T.slots[k], U.slots[k], m) /\ Joined(T.slots[l], U.slots[l], m) => k = l

\* A subscription after the move that is not the new one was there before it.
LEMMA OccupiedBefore ==
  ASSUME NEW T, NEW n, NEW U, NEW m, Moves(T, n, U, m),
         NEW k \in 1 .. Len(U.slots), U.slots[k].bOccupied, U.slots[k].value.id # m \/ m = n
  PROVE  k \in 1 .. Len(T.slots) /\ T.slots[k].bOccupied /\ Same(T.slots[k], U.slots[k])
<1>1. \/ k \in 1 .. Len(T.slots) /\ Same(T.slots[k], U.slots[k])
      \/ k \in 1 .. Len(T.slots) /\ Left(T.slots[k], U.slots[k])
      \/ k \in 1 .. Len(T.slots) /\ Joined(T.slots[k], U.slots[k], m) /\ n < m
      \/ k \notin 1 .. Len(T.slots) /\ ~U.slots[k].bOccupied /\ U.slots[k].nGeneration = 1
  BY DEF Moves
<1>2. n < m => m # n
  BY DEF Moves
<1>3. QED
  BY <1>1, <1>2 DEF Left, Joined, Same

\* A move keeps the slots of the bus right.
LEMMA SubscriptionsMove ==
  ASSUME NEW T, NEW n, NEW U, NEW m, SubscriptionsKept(T, n), Moves(T, n, U, m),
         Threaded(U, BusValues), Len(U.slots) <= CapacityMax
  PROVE  SubscriptionsKept(U, m)
<1>1. /\ n \in Nat /\ m \in Nat /\ n <= m /\ m \in 0 .. MaxSubscriptions /\ MaxSubscriptions \in Nat
      /\ GenerationMax \in Nat /\ MaxSubscriptions <= GenerationMax
  BY EventBusAssumption, HandleTableAssumption DEF Moves
<1>2. /\ Len(T.slots) \in Nat /\ Len(U.slots) \in Nat
      /\ \A k \in 1 .. Len(T.slots) : T.slots[k].nGeneration \in 1 .. GenerationMax
      /\ \A k \in 1 .. Len(U.slots) : U.slots[k].nGeneration \in 1 .. GenerationMax
  BY SlotsShape DEF SubscriptionsKept, Threaded
<1>3. ASSUME NEW k \in 1 .. Len(U.slots)
      PROVE  /\ U.slots[k].bOccupied =>
                  /\ U.slots[k].value \in BusRecords /\ U.slots[k].value.id \in 1 .. m
                  /\ U.slots[k].nGeneration <= m
             /\ U.slots[k].nGeneration <= m + 1
  <2>1. CASE k \in 1 .. Len(T.slots) /\ Same(T.slots[k], U.slots[k])
    <3>1. /\ T.slots[k].bOccupied =>
                /\ T.slots[k].value.id \in 1 .. n /\ T.slots[k].nGeneration <= n
          /\ T.slots[k].nGeneration <= n + 1
      BY <2>1 DEF SubscriptionsKept
    <3>2. U.slots[k].nGeneration <= m + 1 /\ (T.slots[k].bOccupied => U.slots[k].nGeneration <= m)
      BY <1>1, <1>2, <2>1, <3>1 DEF Same
    <3>3. T.slots[k].bOccupied => U.slots[k].value.id \in 1 .. m
      BY <1>1, <2>1, <3>1 DEF Same
    <3>4. QED
      BY <2>1, <3>2, <3>3 DEF Same
  <2>2. CASE k \in 1 .. Len(T.slots) /\ Left(T.slots[k], U.slots[k])
    <3>1. T.slots[k].nGeneration <= n
      BY <2>2 DEF SubscriptionsKept, Left
    <3>2. U.slots[k].nGeneration <= n + 1
      BY <1>1, <1>2, <2>2, <3>1 DEF Left, NextGeneration
    <3>3. QED
      BY <1>1, <1>2, <2>2, <3>2 DEF Left
  <2>3. CASE k \in 1 .. Len(T.slots) /\ Joined(T.slots[k], U.slots[k], m) /\ n < m
    <3>1. T.slots[k].nGeneration <= n + 1
      BY <2>3 DEF SubscriptionsKept
    <3>2. U.slots[k].nGeneration <= m
      BY <1>1, <1>2, <2>3, <3>1 DEF Joined
    <3>3. QED
      BY <1>1, <1>2, <2>3, <3>2 DEF Joined
  <2>4. CASE k \notin 1 .. Len(T.slots) /\ ~U.slots[k].bOccupied /\ U.slots[k].nGeneration = 1
    BY <1>1, <2>4
  <2>5. QED
    BY <2>1, <2>2, <2>3, <2>4 DEF Moves
<1>4. ASSUME NEW k \in 1 .. Len(U.slots), NEW l \in 1 .. Len(U.slots),
             U.slots[k].bOccupied, U.slots[l].bOccupied, U.slots[k].value.id = U.slots[l].value.id
      PROVE  k = l
  <2>1. CASE U.slots[k].value.id # m \/ m = n
    <3>1. /\ k \in 1 .. Len(T.slots) /\ T.slots[k].bOccupied /\ Same(T.slots[k], U.slots[k])
          /\ l \in 1 .. Len(T.slots) /\ T.slots[l].bOccupied /\ Same(T.slots[l], U.slots[l])
      BY <1>4, <2>1, OccupiedBefore
    <3>2. T.slots[k].value.id = T.slots[l].value.id
      BY <1>4, <3>1 DEF Same
    <3>3. QED
      BY <3>1, <3>2 DEF SubscriptionsKept
  <2>2. CASE U.slots[k].value.id = m /\ m # n
    <3>1. ASSUME NEW j \in 1 .. Len(U.slots), U.slots[j].bOccupied, U.slots[j].value.id = m
          PROVE  j \in 1 .. Len(T.slots) /\ Joined(T.slots[j], U.slots[j], m)
      <4>1. ~(j \in 1 .. Len(T.slots) /\ Same(T.slots[j], U.slots[j]))
        <5>1. SUFFICES ASSUME j \in 1 .. Len(T.slots), Same(T.slots[j], U.slots[j]) PROVE FALSE
          OBVIOUS
        <5>2. T.slots[j].bOccupied /\ T.slots[j].value.id = m
          BY <3>1, <5>1 DEF Same
        <5>3. T.slots[j].value.id \in 1 .. n
          BY <5>1, <5>2 DEF SubscriptionsKept
        <5>4. QED
          BY <1>1, <2>2, <5>2, <5>3
      <4>2. QED
        BY <3>1, <4>1 DEF Moves, Left
    <3>2. QED
      BY <1>4, <2>2, <3>1 DEF Moves
  <2>3. QED
    BY <2>1, <2>2
<1>5. QED
  BY <1>1, <1>3, <1>4 DEF SubscriptionsKept

\* The handles of a snapshot name slots of the table.
LEMMA SnapshotHandles ==
  ASSUME NEW T, NEW n, SnapshotKept(T, n), NEW i \in 1 .. Len(dispatchSnapshot)
  PROVE  /\ dispatchSnapshot[i] \in BusHandles /\ dispatchSnapshot[i].iSlot \in 1 .. Len(T.slots)
         /\ dispatchSnapshot[i].nGeneration \in Nat
<1>1. dispatchSnapshot[i] \in BusHandles
  BY ElementOfSeq DEF SnapshotKept
<1>2. QED
  BY <1>1 DEF SnapshotKept, BusHandles

\* A handle of the snapshot that resolves after the move did so before, to the
\* same subscription: a slot that was reused has another generation.
LEMMA LiveBefore ==
  ASSUME NEW T, NEW n, NEW U, NEW m, SnapshotKept(T, n), Moves(T, n, U, m),
         NEW i \in 1 .. Len(dispatchSnapshot), Live(U, dispatchSnapshot[i]),
         T.slots[dispatchSnapshot[i].iSlot].nGeneration \in Nat
  PROVE  /\ Live(T, dispatchSnapshot[i])
         /\ Same(T.slots[dispatchSnapshot[i].iSlot], U.slots[dispatchSnapshot[i].iSlot])
<1> DEFINE h == dispatchSnapshot[i]
           k == h.iSlot
<1>1. /\ k \in 1 .. Len(T.slots) /\ k \in 1 .. Len(U.slots) /\ h.nGeneration \in Nat
      /\ U.slots[k].bOccupied /\ U.slots[k].nGeneration = h.nGeneration
  BY SnapshotHandles DEF Live
<1>2. ~Left(T.slots[k], U.slots[k])
  BY <1>1 DEF Left
<1>3. ~(Joined(T.slots[k], U.slots[k], m) /\ n < m)
  <2>1. SUFFICES ASSUME Joined(T.slots[k], U.slots[k], m), n < m PROVE FALSE
    OBVIOUS
  <2>2. n # MaxSubscriptions
    BY <2>1, EventBusAssumption DEF Moves
  <2>3. ~Live(T, h)
    BY <2>1 DEF Live, Joined
  <2>4. T.slots[k].nGeneration > h.nGeneration
    BY <2>2, <2>3 DEF SnapshotKept
  <2>5. T.slots[k].nGeneration = h.nGeneration
    BY <1>1, <2>1 DEF Joined
  <2>6. QED
    BY <1>1, <2>4, <2>5
<1>4. Same(T.slots[k], U.slots[k])
  BY <1>1, <1>2, <1>3 DEF Moves
<1>5. QED
  BY <1>1, <1>4 DEF Live, Same

\* A move keeps what the snapshot says of the table.
LEMMA SnapshotMoves ==
  ASSUME NEW T, NEW n, NEW U, NEW m, SubscriptionsKept(T, n), Moves(T, n, U, m),
         Threaded(U, BusValues), SnapshotKept(T, n)
  PROVE  SnapshotKept(U, m)
<1>1. /\ n \in Nat /\ m \in Nat /\ n <= m /\ m <= MaxSubscriptions /\ MaxSubscriptions \in Nat
      /\ GenerationMax \in Nat /\ MaxSubscriptions <= GenerationMax
  BY EventBusAssumption, HandleTableAssumption DEF Moves
<1>2. /\ Len(T.slots) \in Nat /\ Len(U.slots) \in Nat /\ Len(T.slots) <= Len(U.slots)
      /\ \A k \in 1 .. Len(T.slots) : T.slots[k].nGeneration \in 1 .. GenerationMax
      /\ \A k \in 1 .. Len(U.slots) : U.slots[k].nGeneration \in 1 .. GenerationMax
  BY SlotsShape DEF SubscriptionsKept, Threaded, Moves
<1>3. ASSUME NEW i \in 1 .. Len(dispatchSnapshot)
      PROVE  LET h == dispatchSnapshot[i]
             IN  /\ h.iSlot \in 1 .. Len(U.slots)
                 /\ \/ U.slots[h.iSlot].nGeneration > h.nGeneration
                    \/ Live(U, h)
                    \/ ~U.slots[h.iSlot].bOccupied /\ m = MaxSubscriptions
                 /\ Live(U, h) => (Get(U, h).eventId = eventId <=> Get(U, h).id \in atStart)
  <2> DEFINE h == dispatchSnapshot[i]
             k == h.iSlot
             s == T.slots[k]
             t == U.slots[k]
  <2>1. /\ k \in 1 .. Len(T.slots) /\ k \in 1 .. Len(U.slots) /\ h.nGeneration \in Nat
        /\ s.nGeneration \in 1 .. GenerationMax /\ t.nGeneration \in 1 .. GenerationMax
    <3>1. k \in 1 .. Len(T.slots) /\ h.nGeneration \in Nat
      BY SnapshotHandles
    <3>2. k \in 1 .. Len(U.slots)
      BY <1>2, <3>1
    <3>3. QED
      BY <1>2, <3>1, <3>2
  <2>2. \/ s.nGeneration > h.nGeneration
        \/ Live(T, h)
        \/ ~s.bOccupied /\ n = MaxSubscriptions
    BY DEF SnapshotKept
  <2>3. \/ t.nGeneration > h.nGeneration
        \/ Live(U, h)
        \/ ~t.bOccupied /\ m = MaxSubscriptions
    <3>1. CASE Same(s, t)
      BY <1>1, <2>1, <2>2, <3>1 DEF Same, Live
    <3>2. CASE Left(s, t)
      <4>1. s.bOccupied /\ ~t.bOccupied /\ s.nGeneration >= h.nGeneration
        BY <2>1, <2>2, <3>2 DEF Left, Live
      <4>2. CASE s.nGeneration >= GenerationMax
        <5>1. s.nGeneration <= n
          BY <2>1, <4>1 DEF SubscriptionsKept
        <5>2. m = MaxSubscriptions
          BY <1>1, <2>1, <4>2, <5>1
        <5>3. QED
          BY <4>1, <5>2
      <4>3. CASE ~(s.nGeneration >= GenerationMax)
        BY <2>1, <3>2, <4>1, <4>3 DEF Left, NextGeneration
      <4>4. QED
        BY <4>2, <4>3
    <3>3. CASE Joined(s, t, m) /\ n < m
      <4>1. ~s.bOccupied /\ n # MaxSubscriptions
        BY <1>1, <3>3 DEF Joined
      <4>2. s.nGeneration > h.nGeneration
        BY <2>2, <4>1 DEF Live
      <4>3. QED
        BY <3>3, <4>2 DEF Joined
    <3>4. QED
      BY <2>1, <3>1, <3>2, <3>3 DEF Moves
  <2>4. ASSUME Live(U, h) PROVE Get(U, h).eventId = eventId <=> Get(U, h).id \in atStart
    <3>1. s.nGeneration \in Nat
      BY <2>1
    <3>2. Live(T, h) /\ Same(s, t)
      BY <2>4, <3>1, LiveBefore
    <3>3. Get(T, h).eventId = eventId <=> Get(T, h).id \in atStart
      BY <3>2 DEF SnapshotKept
    <3>4. s.bOccupied /\ t.value.id = s.value.id /\ t.value.eventId = s.value.eventId
      BY <3>2 DEF Same, Live
    <3>5. QED
      BY <3>3, <3>4 DEF Get
  <2>5. QED
    BY <2>1, <2>3, <2>4
<1>4. atStart \subseteq 1 .. m
  <2>1. 1 .. n \subseteq 1 .. m
    BY <1>1
  <2>2. QED
    BY <2>1 DEF SnapshotKept
<1>5. ASSUME bEmitting, NEW k \in 1 .. Len(U.slots), U.slots[k].bOccupied, U.slots[k].value.id \in atStart
      PROVE  \E i \in 1 .. Len(dispatchSnapshot) : dispatchSnapshot[i] = HandleOf(U, k)
  <2>1. U.slots[k].value.id \in 1 .. n
    BY <1>5 DEF SnapshotKept
  <2>2. U.slots[k].value.id # m \/ m = n
    BY <1>1, <2>1
  <2>3. k \in 1 .. Len(T.slots) /\ T.slots[k].bOccupied /\ Same(T.slots[k], U.slots[k])
    BY <1>5, <2>2, OccupiedBefore
  <2>4. T.slots[k].value.id = U.slots[k].value.id /\ HandleOf(T, k) = HandleOf(U, k)
    BY <2>3 DEF Same, HandleOf
  <2>5. QED
    BY <1>5, <2>3, <2>4 DEF SnapshotKept
<1>6. QED
  BY <1>3, <1>4, <1>5 DEF SnapshotKept

\* A move keeps what the calls made so far say of the table.
LEMMA CallsMove ==
  ASSUME NEW T, NEW n, NEW U, NEW m, SubscriptionsKept(T, n), Moves(T, n, U, m),
         SnapshotKept(T, n), CallsKept(T)
  PROVE  CallsKept(U)
<1>1. ASSUME NEW i \in 1 .. Len(dispatchSnapshot), Live(U, dispatchSnapshot[i])
      PROVE  /\ Live(T, dispatchSnapshot[i])
             /\ Get(U, dispatchSnapshot[i]).id = Get(T, dispatchSnapshot[i]).id
  <2> DEFINE k == dispatchSnapshot[i].iSlot
  <2>1. k \in 1 .. Len(T.slots)
    BY SnapshotHandles
  <2>2. T.slots[k].nGeneration \in Nat
    BY <2>1, SlotsShape, HandleTableAssumption DEF SubscriptionsKept, Threaded
  <2>3. Live(T, dispatchSnapshot[i]) /\ Same(T.slots[k], U.slots[k])
    BY <1>1, <2>2, LiveBefore
  <2>4. QED
    BY <2>3 DEF Same, Live, Get
<1>2. ASSUME NEW i \in 1 .. Len(calls), NEW k \in 1 .. Len(U.slots),
             calls[i].once, U.slots[k].bOccupied, U.slots[k].value.id = calls[i].id
      PROVE  calling # NotCalling /\ i = Len(calls) /\ calling.handle = HandleOf(U, k)
  <2>1. U.slots[k].value.id \in 1 .. n /\ n \in Nat
    BY <1>2 DEF SnapshotKept, CallsKept, Moves
  <2>2. U.slots[k].value.id # m \/ m = n
    BY <2>1 DEF Moves
  <2>3. k \in 1 .. Len(T.slots) /\ T.slots[k].bOccupied /\ Same(T.slots[k], U.slots[k])
    BY <1>2, <2>2, OccupiedBefore
  <2>4. T.slots[k].value.id = calls[i].id /\ HandleOf(T, k) = HandleOf(U, k)
    BY <1>2, <2>3 DEF Same, HandleOf
  <2>5. QED
    BY <1>2, <2>3, <2>4 DEF CallsKept
<1>3. /\ calls \in Seq(BusRecords)
      /\ \A i \in 1 .. Len(calls) : calls[i].id \in atStart
      /\ \A i, j \in 1 .. Len(calls) : calls[i].id = calls[j].id => i = j
  BY DEF CallsKept
<1>4. ASSUME NEW i \in 1 .. Len(dispatchSnapshot), Live(U, dispatchSnapshot[i])
      PROVE  LET id == Get(U, dispatchSnapshot[i]).id
             IN  /\ i < iDispatch /\ id \in atStart => id \in Made
                 /\ i > iDispatch => id \notin Made
                 /\ i = iDispatch /\ calling = NotCalling => id \notin Made
                 /\ i = iDispatch /\ calling # NotCalling => id = calls[Len(calls)].id
  <2> DEFINE id == Get(T, dispatchSnapshot[i]).id
  <2>1. /\ i < iDispatch /\ id \in atStart => id \in Made
        /\ i > iDispatch => id \notin Made
        /\ i = iDispatch /\ calling = NotCalling => id \notin Made
        /\ i = iDispatch /\ calling # NotCalling => id = calls[Len(calls)].id
    BY <1>1, <1>4 DEF CallsKept
  <2>2. QED
    BY <1>1, <1>4, <2>1
<1>5. QED
  BY <1>2, <1>3, <1>4 DEF CallsKept

\* The order stays right while the slots keep their subscriptions.
LEMMA OrderStays ==
  ASSUME NEW T, NEW U, NEW listed, OrderKept(T, listed), Len(T.slots) \in Nat, Len(U.slots) \in Nat,
         Len(T.slots) <= Len(U.slots),
         \A k \in 1 .. Len(U.slots) : U.slots[k].bOccupied => k \in 1 .. Len(T.slots),
         \A k \in 1 .. Len(T.slots) :
           /\ U.slots[k].bOccupied <=> T.slots[k].bOccupied
           /\ T.slots[k].bOccupied => Same(T.slots[k], U.slots[k])
  PROVE  OrderKept(U, listed)
<1>1. ASSUME NEW i \in 1 .. Len(listed)
      PROVE  /\ Live(T, listed[i]) /\ Live(U, listed[i])
             /\ Get(U, listed[i]).id = Get(T, listed[i]).id
             /\ Get(U, listed[i]).nPriority = Get(T, listed[i]).nPriority
  <2>1. Live(T, listed[i])
    BY DEF OrderKept
  <2>2. listed[i].iSlot \in 1 .. Len(U.slots)
    BY <2>1 DEF Live
  <2>3. QED
    BY <2>1, <2>2 DEF Live, Get, Same
<1>2. \A i, j \in 1 .. Len(listed) : i < j => InOrder(U, listed[i], listed[j])
  BY <1>1 DEF OrderKept, InOrder
<1>3. QED
  BY <1>1, <1>2 DEF OrderKept
-----------------------------------------------------------------------------
\* A handle resolves when it is live.
LEMMA LiveResolves ==
  ASSUME NEW V, NEW T, Threaded(T, V), NEW h
  PROVE  Resolves(T, h) <=> Live(T, h)
<1>1. Occupied(T) = {i \in 1 .. Len(T.slots) : T.slots[i].bOccupied}
  BY OccupiedSlots DEF Threaded
<1>2. QED
  BY <1>1 DEF Resolves, Live

\* The order is as long as there are subscriptions; with a free slot it is shorter
\* than the table.
LEMMA OrderCounted ==
  ASSUME NEW T, Threaded(T, BusValues), NEW listed, OrderKept(T, listed)
  PROVE  /\ Len(listed) \in Nat /\ Len(T.slots) \in Nat
         /\ Len(listed) = Count(T) /\ Len(listed) <= Len(T.slots)
         /\ (\E k \in 1 .. Len(T.slots) : ~T.slots[k].bOccupied) => Len(listed) < Len(T.slots)
<1>1. /\ Len(T.slots) \in Nat /\ Occupied(T) = {i \in 1 .. Len(T.slots) : T.slots[i].bOccupied}
  BY SlotsShape, OccupiedSlots DEF Threaded
<1>2. Len(listed) \in Nat
  BY DEF OrderKept
<1> DEFINE f == [i \in 1 .. Len(listed) |-> listed[i].iSlot]
<1>3. f \in Bijection(1 .. Len(listed), Occupied(T))
  <2>1. \A i \in 1 .. Len(listed) : f[i] \in Occupied(T)
    BY <1>1 DEF OrderKept, Live
  <2>2. \A i, j \in 1 .. Len(listed) : f[i] = f[j] => i = j
    BY DEF OrderKept
  <2>3. \A k \in Occupied(T) : \E i \in 1 .. Len(listed) : f[i] = k
    BY <1>1 DEF OrderKept
  <2> HIDE DEF f
  <2>4. f \in [1 .. Len(listed) -> Occupied(T)]
    BY <2>1 DEF f
  <2>5. QED
    BY <2>2, <2>3, <2>4 DEF Bijection, Injection, Surjection, IsInjective
<1>4. Cardinality(Occupied(T)) = Len(listed)
  BY <1>2, <1>3, FS_CountingElements DEF ExistsBijection
<1>5. IsFiniteSet(1 .. Len(T.slots)) /\ Cardinality(1 .. Len(T.slots)) = Len(T.slots)
  BY <1>1, FS_Interval
<1>6. Occupied(T) \subseteq 1 .. Len(T.slots)
  BY <1>1
<1>7. /\ Cardinality(Occupied(T)) <= Len(T.slots)
      /\ Cardinality(Occupied(T)) = Len(T.slots) => Occupied(T) = 1 .. Len(T.slots)
  BY <1>5, <1>6, FS_Subset
<1>8. QED
  BY <1>1, <1>2, <1>4, <1>7 DEF Count

\* Min of a set of numbers that is not empty is its least member.
LEMMA LeastIs ==
  ASSUME NEW N, N \subseteq Nat, N # {}
  PROVE  Min(N) \in N /\ \A i \in N : Min(N) <= i
<1>1. \E m \in N : \A i \in N : m <= i
  BY LeastNumber
<1>2. QED
  BY <1>1 DEF Min

\* The order has a live handle at the place that OrderedAt finds.
LEMMA FoundInOrder ==
  ASSUME OrderKept(subscriptions, order), NEW handle \in BusHandles, Live(subscriptions, handle)
  PROVE  OrderedAt(handle) \in 1 .. Len(order) /\ order[OrderedAt(handle)] = handle
<1>1. DOMAIN order = 1 .. Len(order) /\ \A i \in 1 .. Len(order) : order[i] \in BusHandles
  BY DEF OrderKept
<1>2. PICK i \in 1 .. Len(order) : order[i].iSlot = handle.iSlot
  BY DEF OrderKept, Live
<1>3. order[i].nGeneration = handle.nGeneration
  BY <1>2 DEF OrderKept, Live
<1>4. order[i] = handle
  BY <1>1, <1>2, <1>3 DEF BusHandles
<1> DEFINE N == {j \in 1 .. Len(order) : order[j] = handle}
<1>5. N \subseteq Nat /\ N # {}
  BY <1>4
<1>6. Min(N) \in N
  BY <1>5, LeastIs
<1>7. QED
  BY <1>1, <1>6 DEF OrderedAt

\* The handle of an occupied slot is live.
LEMMA SlotHandles ==
  ASSUME NEW T, Threaded(T, BusValues), NEW k \in 1 .. Len(T.slots)
  PROVE  /\ HandleOf(T, k) \in BusHandles /\ HandleOf(T, k).iSlot = k
         /\ T.slots[k].bOccupied => Live(T, HandleOf(T, k))
<1>1. Len(T.slots) \in Nat /\ T.slots[k].nGeneration \in 1 .. GenerationMax
  BY SlotsShape DEF Threaded
<1>2. T.slots[k].nGeneration \in Nat \ {0} /\ k \in Nat \ {0}
  BY <1>1, HandleTableAssumption
<1>3. QED
  BY <1>2 DEF HandleOf, BusHandles, Live

\* A change that keeps every subscription and adds free slots is a move.
LEMMA StillMoves ==
  ASSUME NEW T, NEW n, NEW U, NEW m, SubscriptionsKept(T, n), m \in n .. MaxSubscriptions,
         Len(U.slots) \in Nat, Len(T.slots) <= Len(U.slots),
         \A k \in 1 .. Len(T.slots) : Same(T.slots[k], U.slots[k]),
         \A k \in 1 .. Len(U.slots) : k \notin 1 .. Len(T.slots) =>
           ~U.slots[k].bOccupied /\ U.slots[k].nGeneration = 1
  PROVE  Moves(T, n, U, m)
<1>1. n \in Nat
  BY DEF SubscriptionsKept
<1>2. \A k \in 1 .. Len(T.slots) : ~Joined(T.slots[k], U.slots[k], m)
  BY DEF Same, Joined
<1>3. QED
  BY <1>1, <1>2 DEF Moves

\* A slot that does not change keeps its subscription.
LEMMA SlotsSame ==
  ASSUME NEW T, NEW n, SubscriptionsKept(T, n), NEW k \in 1 .. Len(T.slots)
  PROVE  Same(T.slots[k], T.slots[k])
  BY DEF SubscriptionsKept, Same

\* A rebase gives every subscription its place in the order as its number: the
\* order stays right, and the next number is above them all.
LEMMA RebaseKeeps ==
  ASSUME SubscriptionsKept(subscriptions, nSubscribed), OrderKept(subscriptions, order),
         SequencesKept(subscriptions, nNextSequence)
  PROVE  /\ Threaded(Rebased, BusValues) /\ Len(Rebased.slots) = Len(subscriptions.slots)
         /\ \A k \in 1 .. Len(subscriptions.slots) : Same(subscriptions.slots[k], Rebased.slots[k])
         /\ SequencesKept(Rebased, SequenceAfterRebase)
         /\ SequenceAfterRebase = SequenceMax => SequenceAfterRebase = Len(order)
<1> DEFINE slots == subscriptions.slots
           new == Rebased.slots
<1>1. /\ Threaded(subscriptions, BusValues) /\ Len(slots) \in Nat /\ DOMAIN slots = 1 .. Len(slots)
      /\ slots \in Seq(Slot(BusValues)) /\ Len(slots) <= CapacityMax
      /\ \A k \in 1 .. Len(slots) : slots[k].bOccupied \in BOOLEAN /\ slots[k] \in Slot(BusValues)
  BY SlotsShape DEF SubscriptionsKept, Threaded
<1>2. CASE nNextSequence # SequenceMax
  BY <1>1, <1>2, SlotsSame DEF Rebased, SequenceAfterRebase
<1>3. CASE nNextSequence = SequenceMax
  <2> DEFINE place == [k \in 1 .. Len(slots) |-> OrderedAt(HandleOf(subscriptions, k)) - 1]
             Moved(k) == Taken(slots[k], [slots[k].value EXCEPT !.nSequence = place[k]])
  <2>1. ASSUME NEW k \in 1 .. Len(slots), slots[k].bOccupied
        PROVE  place[k] \in 0 .. Len(order) - 1
    <3>1. HandleOf(subscriptions, k) \in BusHandles /\ Live(subscriptions, HandleOf(subscriptions, k))
      BY <1>1, <2>1, SlotHandles
    <3>2. OrderedAt(HandleOf(subscriptions, k)) \in 1 .. Len(order)
      BY <3>1, FoundInOrder
    <3>3. Len(order) \in Nat
      BY DEF OrderKept
    <3>4. QED
      BY <3>2, <3>3
  <2>2. /\ new = [k \in 1 .. Len(slots) |-> IF slots[k].bOccupied THEN Moved(k) ELSE slots[k]]
        /\ Rebased.free = subscriptions.free /\ SequenceAfterRebase = Len(order)
    BY <1>1, <1>3 DEF Rebased, SequenceAfterRebase
  <2> HIDE DEF place
  <2>3. ASSUME NEW k \in 1 .. Len(slots), slots[k].bOccupied
        PROVE  /\ Moved(k) \in Slot(BusValues) /\ Moved(k).bOccupied
               /\ Same(slots[k], Moved(k)) /\ Moved(k).value.nSequence = place[k]
    <3>1. slots[k].value \in BusRecords
      BY <2>3 DEF SubscriptionsKept
    <3>2. place[k] \in Nat
      <4>1. Len(order) \in Nat
        BY DEF OrderKept
      <4>2. QED
        BY <2>1, <2>3, <4>1
    <3> DEFINE value == [slots[k].value EXCEPT !.nSequence = place[k]]
    <3>3. /\ value \in BusRecords /\ value.nSequence = place[k]
          /\ value.id = slots[k].value.id /\ value.eventId = slots[k].value.eventId
          /\ value.once = slots[k].value.once /\ value.nPriority = slots[k].value.nPriority
      BY <3>1, <3>2 DEF BusRecords
    <3> HIDE DEF value
    <3>4. /\ Taken(slots[k], value).value = value /\ Taken(slots[k], value).bOccupied
          /\ Taken(slots[k], value).nGeneration = slots[k].nGeneration
      BY DEF Taken
    <3>5. slots[k].nGeneration \in 1 .. GenerationMax /\ value \in BusValues
      BY <1>1, <3>3 DEF Slot, BusValues
    <3>6. Taken(slots[k], value) \in Slot(BusValues)
      BY <3>5 DEF Taken, Slot
    <3>7. Same(slots[k], Taken(slots[k], value))
      BY <2>3, <3>3, <3>4 DEF Same
    <3>8. QED
      BY <3>3, <3>4, <3>6, <3>7 DEF value
  <2> HIDE DEF Moved
  <2>4. /\ \A k \in 1 .. Len(slots) : new[k] \in Slot(BusValues)
        /\ \A k \in 1 .. Len(slots) : Same(slots[k], new[k])
    BY <1>1, <2>2, <2>3, SlotsSame
  <2>5. new \in Seq(Slot(BusValues)) /\ Len(new) = Len(slots)
    <3>1. new \in [1 .. Len(slots) -> Slot(BusValues)]
      BY <2>2, <2>4
    <3>2. QED
      BY <1>1, <3>1
  <2>6. Threaded(Rebased, BusValues)
    <3>1. \A k \in 1 .. Len(slots) : new[k].bOccupied <=> slots[k].bOccupied
      BY <2>4 DEF Same
    <3>2. QED
      BY <1>1, <2>2, <2>5, <3>1, SameOccupancyThreads
  <2>7. SequencesKept(Rebased, SequenceAfterRebase)
    <3>1. /\ Len(order) \in Nat /\ Len(order) <= SequenceMax /\ SequenceMax \in Nat
      BY <1>1, OrderCounted, EventBusAssumption, HandleTableAssumption
    <3>2. ASSUME NEW k \in 1 .. Len(slots), new[k].bOccupied
          PROVE  new[k].value.nSequence < Len(order)
      <4>1. slots[k].bOccupied
        BY <2>4, <3>2 DEF Same
      <4>2. new[k].value.nSequence = place[k]
        BY <2>2, <2>3, <4>1
      <4>3. QED
        BY <2>1, <3>1, <4>1, <4>2
    <3>3. SequenceAfterRebase \in 0 .. SequenceMax
      BY <2>2, <3>1
    <3>4. \A k \in 1 .. Len(new) : new[k].bOccupied => new[k].value.nSequence < SequenceAfterRebase
      BY <2>2, <2>5, <3>2
    <3>5. QED
      BY <3>3, <3>4 DEF SequencesKept
  <2>8. QED
    BY <2>2, <2>4, <2>5, <2>6, <2>7
<1>4. QED
  BY <1>2, <1>3
\* Growing the table keeps the subscriptions and the order.
LEMMA RoomMade ==
  ASSUME NEW R, Threaded(R, BusValues), Len(R.slots) <= CapacityMax,
         NEW P, P = IF R.free = << >> /\ CanGrow(R) THEN Reserved(R, GrowthCapacity(R)) ELSE R
  PROVE  /\ Threaded(P, BusValues) /\ Len(R.slots) <= Len(P.slots) /\ Len(P.slots) <= CapacityMax
         /\ \A k \in 1 .. Len(R.slots) : P.slots[k] = R.slots[k]
         /\ \A k \in 1 .. Len(P.slots) : k \notin 1 .. Len(R.slots) => P.slots[k] = NewSlot
<1>1. Len(R.slots) \in Nat /\ R.slots \in Seq(Slot(BusValues))
  BY SlotsShape DEF Threaded
<1>2. CASE R.free = << >> /\ CanGrow(R)
  <2> DEFINE g == GrowthCapacity(R)
             N == {Len(R.slots) + Growth, CapacityMax}
  <2>1. N \subseteq Nat /\ N # {}
    BY <1>1, HandleTableAssumption
  <2>2. g \in N /\ g <= CapacityMax
    BY <2>1, LeastIs DEF GrowthCapacity
  <2>3. g \in Nat /\ Len(R.slots) <= g
    BY <1>1, <1>2, <2>2, HandleTableAssumption DEF CanGrow
  <2> HIDE DEF g
  <2>4. P = Reserved(R, g)
    BY <1>2 DEF g
  <2>5. NoValue \in BusValues
    BY DEF BusValues
  <2>6. /\ Threaded(Reserved(R, g), BusValues) /\ Len(Reserved(R, g).slots) = g
        /\ \A k \in 1 .. g :
             Reserved(R, g).slots[k] = IF k \in 1 .. Len(R.slots) THEN R.slots[k] ELSE NewSlot
    BY <1>1, <2>3, <2>5, ReservedThreads
  <2>7. QED
    BY <1>1, <2>2, <2>3, <2>4, <2>6
<1>3. CASE ~(R.free = << >> /\ CanGrow(R))
  BY <1>1, <1>3
<1>4. QED
  BY <1>2, <1>3

\* Emplace is a move: the first free slot takes the next subscription.
LEMMA EmplaceMoves ==
  ASSUME NEW P, NEW n, SubscriptionsKept(P, n), P.free # << >>, n < MaxSubscriptions,
         NEW record \in BusRecords, record.id = n + 1
  PROVE  /\ Threaded(Emplace(P, record), BusValues) /\ Moves(P, n, Emplace(P, record), n + 1)
         /\ Len(Emplace(P, record).slots) = Len(P.slots)
         /\ Head(P.free) \in 1 .. Len(P.slots) /\ ~P.slots[Head(P.free)].bOccupied
         /\ \A k \in 1 .. Len(P.slots) :
              Emplace(P, record).slots[k] =
                IF k = Head(P.free) THEN Taken(P.slots[k], record) ELSE P.slots[k]
<1> DEFINE U == Emplace(P, record)
           f == Head(P.free)
<1>1. /\ Threaded(U, BusValues) /\ f \in 1 .. Len(P.slots) /\ ~P.slots[f].bOccupied
      /\ Len(U.slots) = Len(P.slots)
      /\ \A k \in 1 .. Len(P.slots) :
           U.slots[k] = IF k = f THEN Taken(P.slots[k], record) ELSE P.slots[k]
  <2>1. record \in BusValues /\ Threaded(P, BusValues)
    BY DEF BusValues, SubscriptionsKept
  <2>2. QED
    BY <2>1, EmplaceThreads
<1> HIDE DEF U, f
<1>2. n \in Nat /\ n + 1 \in n .. MaxSubscriptions /\ n < n + 1 /\ Len(P.slots) \in Nat
  BY EventBusAssumption, SlotsShape DEF SubscriptionsKept, Threaded
<1>3. Joined(P.slots[f], U.slots[f], n + 1)
  <2>1. U.slots[f] = Taken(P.slots[f], record)
    BY <1>1
  <2>2. /\ U.slots[f].bOccupied /\ U.slots[f].nGeneration = P.slots[f].nGeneration
        /\ U.slots[f].value = record
    BY <2>1 DEF Taken
  <2>3. QED
    BY <1>1, <2>2 DEF Joined
<1>4. ASSUME NEW k \in 1 .. Len(P.slots), k # f
      PROVE  Same(P.slots[k], U.slots[k]) /\ ~Joined(P.slots[k], U.slots[k], n + 1)
  <2>1. U.slots[k] = P.slots[k]
    BY <1>1, <1>4
  <2>2. QED
    BY <2>1, SlotsSame DEF Joined
<1>5. Moves(P, n, U, n + 1)
  BY <1>1, <1>2, <1>3, <1>4 DEF Moves
<1>6. QED
  BY <1>1, <1>5 DEF U, f

\* Remove is a move: the slot of the handle is given up, and no other changes.
LEMMA RemoveMoves ==
  ASSUME NEW T, NEW n, SubscriptionsKept(T, n), NEW handle, Live(T, handle)
  PROVE  /\ Threaded(Removed(T, handle), BusValues) /\ Moves(T, n, Removed(T, handle), n)
         /\ Len(Removed(T, handle).slots) = Len(T.slots)
         /\ ~Removed(T, handle).slots[handle.iSlot].bOccupied
         /\ \A k \in 1 .. Len(T.slots) :
              k # handle.iSlot => Removed(T, handle).slots[k] = T.slots[k]
<1> DEFINE U == Removed(T, handle)
           f == handle.iSlot
<1>1. /\ Threaded(U, BusValues) /\ f \in 1 .. Len(T.slots) /\ T.slots[f].bOccupied
      /\ Len(U.slots) = Len(T.slots)
      /\ \A k \in 1 .. Len(T.slots) :
           U.slots[k] = IF k = f THEN Vacated(T.slots[k]) ELSE T.slots[k]
  <2>1. NoValue \in BusValues /\ Threaded(T, BusValues)
    BY DEF BusValues, SubscriptionsKept
  <2>2. f \in 1 .. Len(T.slots) /\ T.slots[f].bOccupied
    BY DEF Live
  <2>3. QED
    BY <2>1, <2>2, RemovedThreads
<1> HIDE DEF U, f
<1>2. n \in Nat /\ n \in n .. MaxSubscriptions /\ Len(T.slots) \in Nat
  BY EventBusAssumption, SlotsShape DEF SubscriptionsKept, Threaded
<1>3. Left(T.slots[f], U.slots[f]) /\ ~U.slots[f].bOccupied /\ ~Joined(T.slots[f], U.slots[f], n)
  <2>1. U.slots[f] = Vacated(T.slots[f])
    BY <1>1
  <2>2. ~U.slots[f].bOccupied /\ U.slots[f].nGeneration = NextGeneration(T.slots[f].nGeneration)
    BY <2>1 DEF Vacated
  <2>3. QED
    BY <1>1, <2>2 DEF Left, Joined
<1>4. ASSUME NEW k \in 1 .. Len(T.slots), k # f
      PROVE  Same(T.slots[k], U.slots[k]) /\ ~Joined(T.slots[k], U.slots[k], n)
  <2>1. U.slots[k] = T.slots[k]
    BY <1>1, <1>4
  <2>2. QED
    BY <2>1, SlotsSame DEF Joined
<1>5. Moves(T, n, U, n)
  BY <1>1, <1>2, <1>3, <1>4 DEF Moves
<1>6. QED
  BY <1>1, <1>3, <1>5 DEF U, f

\* Clear is a move: every occupied slot is given up.
LEMMA ClearMoves ==
  ASSUME NEW T, NEW n, SubscriptionsKept(T, n)
  PROVE  /\ Threaded(Cleared(T), BusValues) /\ Moves(T, n, Cleared(T), n)
         /\ Len(Cleared(T).slots) = Len(T.slots)
         /\ \A k \in 1 .. Len(T.slots) : ~Cleared(T).slots[k].bOccupied
<1> DEFINE U == Cleared(T)
<1>1. /\ Threaded(U, BusValues) /\ Len(U.slots) = Len(T.slots)
      /\ \A k \in 1 .. Len(T.slots) :
           U.slots[k] = IF T.slots[k].bOccupied THEN Vacated(T.slots[k]) ELSE T.slots[k]
  <2>1. NoValue \in BusValues /\ T.slots \in Seq(Slot(BusValues))
    BY DEF BusValues, SubscriptionsKept, Threaded
  <2>2. QED
    BY <2>1, ClearedThreads
<1> HIDE DEF U
<1>2. n \in Nat /\ n \in n .. MaxSubscriptions /\ Len(T.slots) \in Nat
  BY EventBusAssumption, SlotsShape DEF SubscriptionsKept, Threaded
<1>3. ASSUME NEW k \in 1 .. Len(T.slots)
      PROVE  /\ Same(T.slots[k], U.slots[k]) \/ Left(T.slots[k], U.slots[k])
             /\ ~U.slots[k].bOccupied /\ ~Joined(T.slots[k], U.slots[k], n)
  <2>1. CASE T.slots[k].bOccupied
    <3>1. U.slots[k] = Vacated(T.slots[k])
      BY <1>1, <2>1
    <3>2. ~U.slots[k].bOccupied /\ U.slots[k].nGeneration = NextGeneration(T.slots[k].nGeneration)
      BY <3>1 DEF Vacated
    <3>3. QED
      BY <2>1, <3>2 DEF Left, Joined
  <2>2. CASE ~T.slots[k].bOccupied
    BY <1>1, <2>2, SlotsSame DEF Joined
  <2>3. QED
    BY <2>1, <2>2
<1>4. Moves(T, n, U, n)
  BY <1>1, <1>2, <1>3 DEF Moves
<1>5. QED
  BY <1>1, <1>3, <1>4 DEF U

\* The order without a handle is right for the table without its slot.
LEMMA RemovedOrder ==
  ASSUME NEW T, NEW U, NEW listed, OrderKept(T, listed), NEW i \in 1 .. Len(listed),
         Len(U.slots) = Len(T.slots), ~U.slots[listed[i].iSlot].bOccupied,
         \A k \in 1 .. Len(T.slots) : k # listed[i].iSlot => U.slots[k] = T.slots[k]
  PROVE  OrderKept(U, RemoveAt(listed, i))
<1> DEFINE r == RemoveAt(listed, i)
           from == [j \in 1 .. Len(listed) - 1 |-> IF j < i THEN j ELSE j + 1]
<1>1. /\ listed \in Seq(BusHandles) /\ Len(listed) \in Nat
      /\ \A a \in 1 .. Len(listed) : Live(T, listed[a])
      /\ \A a, b \in 1 .. Len(listed) : listed[a].iSlot = listed[b].iSlot => a = b
      /\ \A a, b \in 1 .. Len(listed) : a < b => InOrder(T, listed[a], listed[b])
  BY DEF OrderKept
<1>2. /\ r \in Seq(BusHandles) /\ Len(r) = Len(listed) - 1
      /\ \A j \in 1 .. Len(listed) - 1 : r[j] = IF j < i THEN listed[j] ELSE listed[j + 1]
  BY <1>1, WithoutOne
<1> HIDE DEF r
<1>3. ASSUME NEW j \in 1 .. Len(r)
      PROVE  /\ from[j] \in 1 .. Len(listed) /\ from[j] # i /\ r[j] = listed[from[j]]
             /\ from[j] = IF j < i THEN j ELSE j + 1
  BY <1>1, <1>2
<1> HIDE DEF from
<1>4. ASSUME NEW j \in 1 .. Len(r)
      PROVE  /\ Live(U, r[j]) /\ Get(U, r[j]) = Get(T, r[j])
  <2>1. Live(T, r[j]) /\ r[j].iSlot # listed[i].iSlot
    BY <1>1, <1>3
  <2>2. U.slots[r[j].iSlot] = T.slots[r[j].iSlot]
    BY <2>1 DEF Live
  <2>3. QED
    BY <2>1, <2>2 DEF Live, Get
<1>5. ASSUME NEW j \in 1 .. Len(r), NEW l \in 1 .. Len(r), r[j].iSlot = r[l].iSlot
      PROVE  j = l
  <2>1. from[j] = from[l]
    <3>1. /\ from[j] \in 1 .. Len(listed) /\ from[l] \in 1 .. Len(listed)
          /\ listed[from[j]].iSlot = listed[from[l]].iSlot
      BY <1>3, <1>5
    <3>2. QED
      BY <1>1, <3>1
  <2>2. QED
    BY <1>1, <1>2, <1>3, <2>1
<1>6. ASSUME NEW k \in 1 .. Len(U.slots), U.slots[k].bOccupied
      PROVE  \E j \in 1 .. Len(r) : r[j].iSlot = k
  <2>1. k \in 1 .. Len(T.slots) /\ k # listed[i].iSlot /\ T.slots[k].bOccupied
    BY <1>6
  <2>2. PICK a \in 1 .. Len(listed) : listed[a].iSlot = k
    BY <2>1 DEF OrderKept
  <2>3. CASE a < i
    <3>1. a \in 1 .. Len(r) /\ from[a] = a
      BY <1>1, <1>2, <1>3, <2>3
    <3>2. QED
      BY <1>3, <2>2, <3>1
  <2>4. CASE a > i
    <3>1. a - 1 \in 1 .. Len(r) /\ ~(a - 1 < i) /\ (a - 1) + 1 = a
      BY <1>1, <1>2, <2>4
    <3>2. from[a - 1] = a
      BY <1>3, <3>1
    <3>3. QED
      BY <1>3, <2>2, <3>1, <3>2
  <2>5. a # i
    BY <2>1, <2>2
  <2>6. QED
    BY <1>1, <2>3, <2>4, <2>5
<1>7. ASSUME NEW j \in 1 .. Len(r), NEW l \in 1 .. Len(r), j < l
      PROVE  InOrder(U, r[j], r[l])
  <2>1. from[j] < from[l]
    BY <1>1, <1>2, <1>3, <1>7
  <2>2. InOrder(T, r[j], r[l])
    <3>1. /\ from[j] \in 1 .. Len(listed) /\ from[l] \in 1 .. Len(listed)
          /\ r[j] = listed[from[j]] /\ r[l] = listed[from[l]]
      BY <1>3
    <3>2. InOrder(T, listed[from[j]], listed[from[l]])
      BY <1>1, <2>1, <3>1
    <3>3. QED
      BY <3>1, <3>2
  <2>3. QED
    BY <1>4, <2>2 DEF InOrder
<1>8. OrderKept(U, r)
  BY <1>2, <1>4, <1>5, <1>6, <1>7 DEF OrderKept
<1>9. QED
  BY <1>8 DEF r

\* What a live handle gets: a subscription with a priority and a number.
LEMMA SlotPriorities ==
  ASSUME NEW T, NEW n, SubscriptionsKept(T, n), NEW h, Live(T, h)
  PROVE  /\ Get(T, h) \in BusRecords /\ Get(T, h).nPriority \in Int
         /\ Get(T, h).nSequence \in Nat /\ Get(T, h).id \in 1 .. n
<1>1. Get(T, h) \in BusRecords /\ Get(T, h).id \in 1 .. n
  BY DEF SubscriptionsKept, Live, Get
<1>2. QED
  BY <1>1, EventBusAssumption DEF BusRecords

\* A subscription inserted where InsertionIndex says keeps the order: those before
\* it come first by priority or age, and it comes before those behind it.
LEMMA InsertedOrder ==
  ASSUME NEW P, NEW n, SubscriptionsKept(P, n), OrderKept(P, order), P.free # << >>,
         n < MaxSubscriptions, NEW record \in BusRecords, record.id = n + 1,
         \A k \in 1 .. Len(P.slots) :
           P.slots[k].bOccupied => P.slots[k].value.nSequence < record.nSequence,
         NEW U, U = Emplace(P, record)
  PROVE  OrderKept(U, InsertAt(order, InsertionIndex(U, record), HandleOf(P, Head(P.free))))
<1> DEFINE f == Head(P.free)
           e == HandleOf(P, f)
           m == InsertionIndex(U, record)
           c == Len(order)
           r == InsertAt(order, m, e)
<1>1. /\ Threaded(P, BusValues) /\ Threaded(U, BusValues)
      /\ f \in 1 .. Len(P.slots) /\ ~P.slots[f].bOccupied /\ Len(U.slots) = Len(P.slots)
      /\ \A k \in 1 .. Len(P.slots) :
           U.slots[k] = IF k = f THEN Taken(P.slots[k], record) ELSE P.slots[k]
  BY EmplaceMoves DEF SubscriptionsKept
<1>2. /\ order \in Seq(BusHandles) /\ c \in Nat /\ DOMAIN order = 1 .. c
      /\ \A i \in 1 .. c : Live(P, order[i])
      /\ \A i, j \in 1 .. c : order[i].iSlot = order[j].iSlot => i = j
      /\ \A i, j \in 1 .. c : i < j => InOrder(P, order[i], order[j])
  BY DEF OrderKept
<1>3. e \in BusHandles /\ e.iSlot = f
  BY <1>1, SlotHandles
<1>4. Live(U, e) /\ Get(U, e) = record
  <2>1. U.slots[f] = Taken(P.slots[f], record)
    BY <1>1
  <2>2. U.slots[f].bOccupied /\ U.slots[f].nGeneration = P.slots[f].nGeneration /\ U.slots[f].value = record
    BY <2>1 DEF Taken
  <2>3. e.nGeneration = P.slots[f].nGeneration
    BY DEF HandleOf
  <2>4. QED
    BY <1>1, <1>3, <2>2, <2>3 DEF Live, Get
<1>5. ASSUME NEW i \in 1 .. c
      PROVE  /\ Live(U, order[i]) /\ Get(U, order[i]) = Get(P, order[i]) /\ order[i].iSlot # f
  <2>1. Live(P, order[i])
    BY <1>2
  <2>2. order[i].iSlot # f
    BY <1>1, <2>1 DEF Live
  <2>3. U.slots[order[i].iSlot] = P.slots[order[i].iSlot]
    BY <1>1, <2>1, <2>2 DEF Live
  <2>4. QED
    BY <1>1, <2>1, <2>2, <2>3 DEF Live, Get
<1>6. ASSUME NEW i \in 1 .. c
      PROVE  /\ Get(U, order[i]).nPriority \in Int /\ Get(U, order[i]).id < record.id
             /\ ~(record.nSequence < Get(U, order[i]).nSequence)
  <2>1. Live(P, order[i])
    BY <1>2
  <2>2. /\ Get(P, order[i]).nPriority \in Int /\ Get(P, order[i]).nSequence \in Nat
        /\ Get(P, order[i]).id \in 1 .. n
    BY <2>1, SlotPriorities
  <2>3. Get(P, order[i]).nSequence < record.nSequence
    BY <2>1 DEF Live, Get
  <2>4. record.nSequence \in Nat /\ n \in Nat
    BY DEF BusRecords, SubscriptionsKept
  <2>5. QED
    BY <1>5, <2>2, <2>3, <2>4
<1>7. record.nPriority \in Int
  BY EventBusAssumption DEF BusRecords
<1> DEFINE higher == {i \in 1 .. c : record.nPriority > Get(U, order[i]).nPriority}
<1>8. m = Min(higher \cup {c + 1})
  <2>1. m = Min({i \in 1 .. c : \/ record.nPriority > Get(U, order[i]).nPriority
                                \/ /\ record.nPriority = Get(U, order[i]).nPriority
                                   /\ record.nSequence < Get(U, order[i]).nSequence} \cup {c + 1})
    BY <1>2 DEF InsertionIndex
  <2>2. {i \in 1 .. c : \/ record.nPriority > Get(U, order[i]).nPriority
                        \/ /\ record.nPriority = Get(U, order[i]).nPriority
                           /\ record.nSequence < Get(U, order[i]).nSequence} = higher
    BY <1>6
  <2>3. QED
    BY <2>1, <2>2
<1>9. m \in higher \cup {c + 1} /\ \A i \in higher \cup {c + 1} : m <= i
  <2>1. higher \cup {c + 1} \subseteq Nat /\ higher \cup {c + 1} # {}
    BY <1>2
  <2> HIDE DEF higher, m
  <2>2. QED
    BY <1>8, <2>1, LeastIs
<1>10. m \in 1 .. c + 1
  BY <1>2, <1>9
<1> HIDE DEF m, e, f, r
<1>11. ASSUME NEW i \in 1 .. c, i < m
       PROVE  \/ Get(U, order[i]).nPriority > record.nPriority
              \/ Get(U, order[i]).nPriority = record.nPriority /\ Get(U, order[i]).id < record.id
  <2>1. i \notin higher
    BY <1>2, <1>9, <1>10, <1>11
  <2>2. QED
    BY <1>6, <1>7, <2>1
<1>12. ASSUME NEW i \in 1 .. c, ~(i < m)
       PROVE  record.nPriority > Get(U, order[i]).nPriority
  <2>1. m \in 1 .. c /\ record.nPriority > Get(U, order[m]).nPriority
    BY <1>2, <1>9, <1>10, <1>12
  <2>2. CASE i = m
    BY <2>1, <2>2
  <2>3. CASE m < i
    <3>1. InOrder(P, order[m], order[i])
      BY <1>2, <2>1, <2>3
    <3>2. Get(U, order[m]).nPriority >= Get(U, order[i]).nPriority
      BY <1>5, <1>6, <2>1, <3>1 DEF InOrder
    <3>3. QED
      BY <1>6, <1>7, <2>1, <3>2
  <2>4. QED
    BY <1>10, <1>12, <2>2, <2>3
<1> HIDE DEF higher
<1> DEFINE to == [j \in 1 .. c |-> IF j < m THEN j ELSE j + 1]
<1>13. /\ r \in Seq(BusHandles) /\ Len(r) = c + 1 /\ r[m] = e
       /\ \A j \in 1 .. c : r[to[j]] = order[j]
  BY <1>2, <1>3, <1>10, WithOne DEF r
<1>14. ASSUME NEW i \in 1 .. c + 1, i # m
       PROVE  \E j \in 1 .. c : i = to[j] /\ (i < m <=> j < m)
  <2>1. CASE i < m
    <3>1. i \in 1 .. c /\ to[i] = i
      BY <1>2, <1>10, <2>1
    <3>2. QED
      BY <2>1, <3>1
  <2>2. CASE m < i
    <3>1. i - 1 \in 1 .. c /\ ~(i - 1 < m) /\ (i - 1) + 1 = i
      BY <1>2, <1>10, <2>2
    <3>2. to[i - 1] = i
      BY <3>1
    <3>3. QED
      BY <2>2, <3>1, <3>2, <1>10
  <2>3. QED
    BY <1>2, <1>10, <1>14, <2>1, <2>2
<1>15. ASSUME NEW i \in 1 .. c, NEW j \in 1 .. c
       PROVE  to[i] < to[j] => i < j
  BY <1>2, <1>10
<1>16. ASSUME NEW i \in 1 .. c
       PROVE  (to[i] < m <=> i < m) /\ to[i] # m
  BY <1>2, <1>10
<1> HIDE DEF to
<1>17. ASSUME NEW i \in 1 .. Len(r) PROVE Live(U, r[i])
  <2>1. CASE i = m
    BY <1>4, <1>13, <2>1
  <2>2. CASE i # m
    <3>1. PICK j \in 1 .. c : i = to[j]
      BY <1>13, <1>14, <2>2
    <3>2. QED
      BY <1>5, <1>13, <3>1
  <2>3. QED
    BY <2>1, <2>2
<1>18. ASSUME NEW i \in 1 .. Len(r), NEW j \in 1 .. Len(r), r[i].iSlot = r[j].iSlot
       PROVE  i = j
  <2>1. ASSUME NEW a \in 1 .. Len(r), a # m
        PROVE  \E b \in 1 .. c : a = to[b] /\ r[a] = order[b] /\ r[a].iSlot # f
    <3>1. PICK b \in 1 .. c : a = to[b]
      BY <1>13, <1>14, <2>1
    <3>2. r[a] = order[b]
      BY <1>13, <3>1
    <3>3. QED
      BY <1>5, <3>1, <3>2
  <2>2. r[m].iSlot = f
    BY <1>3, <1>13
  <2>3. CASE i = m \/ j = m
    BY <1>18, <2>1, <2>2, <2>3
  <2>4. CASE i # m /\ j # m
    <3>1. PICK a \in 1 .. c : i = to[a] /\ r[i] = order[a]
      BY <2>1, <2>4
    <3>2. PICK b \in 1 .. c : j = to[b] /\ r[j] = order[b]
      BY <2>1, <2>4
    <3>3. a = b
      BY <1>2, <1>18, <3>1, <3>2
    <3>4. QED
      BY <3>1, <3>2, <3>3
  <2>5. QED
    BY <2>3, <2>4
<1>19. ASSUME NEW k \in 1 .. Len(U.slots), U.slots[k].bOccupied
       PROVE  \E i \in 1 .. Len(r) : r[i].iSlot = k
  <2>1. CASE k = f
    <3>1. m \in 1 .. Len(r) /\ r[m].iSlot = k
      BY <1>3, <1>10, <1>13, <2>1
    <3>2. QED
      BY <3>1
  <2>2. CASE k # f
    <3>1. k \in 1 .. Len(P.slots) /\ P.slots[k].bOccupied
      BY <1>1, <1>19, <2>2
    <3>2. PICK j \in 1 .. c : order[j].iSlot = k
      BY <3>1 DEF OrderKept
    <3>3. to[j] \in 1 .. Len(r)
      BY <1>2, <1>13 DEF to
    <3>4. QED
      BY <1>13, <3>2, <3>3
  <2>3. QED
    BY <2>1, <2>2
<1>20. ASSUME NEW i \in 1 .. Len(r), NEW j \in 1 .. Len(r), i < j
       PROVE  InOrder(U, r[i], r[j])
  <2>1. CASE i = m
    <3>1. j # m /\ ~(j < m)
      BY <1>10, <1>13, <1>20, <2>1
    <3>2. PICK b \in 1 .. c : j = to[b] /\ (j < m <=> b < m)
      BY <1>13, <1>14, <3>1
    <3>3. r[i] = e /\ r[j] = order[b] /\ ~(b < m)
      BY <1>13, <2>1, <3>1, <3>2
    <3>4. record.nPriority > Get(U, order[b]).nPriority
      BY <1>12, <3>3
    <3>5. QED
      BY <1>4, <3>3, <3>4 DEF InOrder
  <2>2. CASE j = m
    <3>1. i # m /\ i < m
      BY <1>10, <1>13, <1>20, <2>2
    <3>2. PICK a \in 1 .. c : i = to[a] /\ (i < m <=> a < m)
      BY <1>13, <1>14, <3>1
    <3>3. r[j] = e /\ r[i] = order[a] /\ a < m
      BY <1>13, <2>2, <3>1, <3>2
    <3>4. \/ Get(U, order[a]).nPriority > record.nPriority
          \/ Get(U, order[a]).nPriority = record.nPriority /\ Get(U, order[a]).id < record.id
      BY <1>11, <3>3
    <3>5. QED
      BY <1>4, <3>3, <3>4 DEF InOrder
  <2>3. CASE i # m /\ j # m
    <3>1. PICK a \in 1 .. c : i = to[a]
      BY <1>13, <1>14, <2>3
    <3>2. PICK b \in 1 .. c : j = to[b]
      BY <1>13, <1>14, <2>3
    <3>3. r[i] = order[a] /\ r[j] = order[b] /\ a < b
      BY <1>13, <1>15, <1>20, <3>1, <3>2
    <3>4. InOrder(P, order[a], order[b])
      BY <1>2, <3>3
    <3>5. QED
      BY <1>5, <3>3, <3>4 DEF InOrder
  <2>4. QED
    BY <2>1, <2>2, <2>3
<1>21. OrderKept(U, r)
  BY <1>13, <1>17, <1>18, <1>19, <1>20 DEF OrderKept
<1>22. QED
  BY <1>21 DEF r, m, e, f

\* The parts of BusKept that are about the slots.
TableKept(table, n) == SubscriptionsKept(table, n) /\ SnapshotKept(table, n) /\ CallsKept(table)

\* A move keeps TableKept.
LEMMA TableMoves ==
  ASSUME NEW T, NEW n, NEW U, NEW m, TableKept(T, n), Moves(T, n, U, m),
         Threaded(U, BusValues), Len(U.slots) <= CapacityMax
  PROVE  TableKept(U, m)
  BY SubscriptionsMove, SnapshotMoves, CallsMove DEF TableKept

\* A step that leaves the locals of the emission alone keeps BusKept when it keeps
\* the table and the order.
LEMMA EmissionUnmoved ==
  ASSUME TableKept(subscriptions', nSubscribed'), OrderKept(subscriptions', order'),
         SequencesKept(subscriptions', nNextSequence'), Emission,
         UNCHANGED <<emission, atStart, calls>>
  PROVE  BusKept'
<1>1. SnapshotKept(subscriptions, nSubscribed)' /\ CallsKept(subscriptions)' /\ Emission'
  BY DEF TableKept, SnapshotKept, CallsKept, Made, Emission, emission
<1>2. QED
  BY <1>1 DEF BusKept, TableKept

\* EventBus_Subscribe keeps BusKept, also when an allocation fails.
LEMMA SubscribeKeeps ==
  ASSUME BusKept, NEW id \in EventIds, NEW p \in Priorities, NEW o \in BOOLEAN, Subscribe(id, p, o)
  PROVE  BusKept'
<1> DEFINE n == nSubscribed
           q == SequenceAfterRebase
           R == Rebased
           P == IF R.free = << >> /\ CanGrow(R) THEN Reserved(R, GrowthCapacity(R)) ELSE R
           record == [eventId |-> id, nPriority |-> p, once |-> o, nSequence |-> q, id |-> n + 1]
           U == Emplace(P, record)
           handle == HandleOf(P, Head(P.free))
           M == Removed(U, handle)
<1>1. /\ n < MaxSubscriptions /\ nSubscribed' = n + 1 /\ UNCHANGED <<emission, atStart, calls>>
      /\ \/ /\ P.free # << >>
            /\ subscriptions' = U
            /\ order' = InsertAt(order, InsertionIndex(U, record), handle)
            /\ nNextSequence' = q + 1
         \/ subscriptions' = R /\ nNextSequence' = q /\ order' = order
         \/ P.free # << >> /\ subscriptions' = M /\ nNextSequence' = q /\ order' = order
  BY DEF Subscribe
<1>2. /\ TableKept(subscriptions, n) /\ OrderKept(subscriptions, order) /\ Emission
      /\ SubscriptionsKept(subscriptions, n) /\ Threaded(subscriptions, BusValues)
      /\ SequencesKept(subscriptions, nNextSequence)
      /\ n \in Nat /\ n + 1 \in n .. MaxSubscriptions /\ n \in n .. MaxSubscriptions
      /\ Len(subscriptions.slots) \in Nat /\ Len(subscriptions.slots) <= CapacityMax
  <2>1. n \in 0 .. MaxSubscriptions /\ MaxSubscriptions \in Nat
    BY EventBusAssumption DEF BusKept, SubscriptionsKept
  <2>2. n \in Nat /\ n + 1 \in n .. MaxSubscriptions /\ n \in n .. MaxSubscriptions
    BY <1>1, <2>1
  <2>3. Threaded(subscriptions, BusValues) /\ Len(subscriptions.slots) <= CapacityMax
    BY DEF BusKept, SubscriptionsKept
  <2>4. Len(subscriptions.slots) \in Nat
    BY <2>3, SlotsShape DEF Threaded
  <2>5. QED
    BY <2>2, <2>3, <2>4 DEF BusKept, TableKept
<1>3. /\ Threaded(R, BusValues) /\ Len(R.slots) = Len(subscriptions.slots)
      /\ \A k \in 1 .. Len(subscriptions.slots) : Same(subscriptions.slots[k], R.slots[k])
      /\ SequencesKept(R, q) /\ (q = SequenceMax => q = Len(order))
  BY <1>2, RebaseKeeps
<1>4. /\ Threaded(P, BusValues) /\ Len(R.slots) <= Len(P.slots) /\ Len(P.slots) <= CapacityMax
      /\ \A k \in 1 .. Len(R.slots) : P.slots[k] = R.slots[k]
      /\ \A k \in 1 .. Len(P.slots) : k \notin 1 .. Len(R.slots) => P.slots[k] = NewSlot
  <2>1. Threaded(R, BusValues) /\ Len(R.slots) <= CapacityMax
    BY <1>2, <1>3
  <2> HIDE DEF R
  <2>2. QED
    BY <2>1, RoomMade
<1>5. Len(P.slots) \in Nat
  BY <1>4, SlotsShape DEF Threaded
<1>6. record \in BusRecords /\ record.id = n + 1 /\ record.nSequence = q
  <2>1. q \in Nat
    BY <1>3, EventBusAssumption DEF SequencesKept
  <2> HIDE DEF q
  <2>2. QED
    BY <1>2, <2>1 DEF BusRecords
<1> HIDE DEF n, q, R, P, record
<1>7. OrderKept(R, order) /\ TableKept(R, n + 1)
  <2>1. Moves(subscriptions, n, R, n + 1)
    BY <1>2, <1>3, StillMoves
  <2>2. TableKept(R, n + 1)
    BY <1>2, <1>3, <2>1, TableMoves
  <2>3. \A k \in 1 .. Len(subscriptions.slots) : R.slots[k].bOccupied <=> subscriptions.slots[k].bOccupied
    BY <1>3 DEF Same
  <2>4. OrderKept(R, order)
    BY <1>2, <1>3, <2>3, OrderStays
  <2>5. QED
    BY <2>2, <2>4
<1>8. OrderKept(P, order) /\ TableKept(P, n) /\ SubscriptionsKept(P, n)
  <2>1. ~NewSlot.bOccupied /\ NewSlot.nGeneration = 1
    BY DEF NewSlot
  <2>2. \A k \in 1 .. Len(subscriptions.slots) : Same(subscriptions.slots[k], P.slots[k])
    BY <1>3, <1>4
  <2>3. Len(subscriptions.slots) <= Len(P.slots)
    BY <1>3, <1>4
  <2>4. \A k \in 1 .. Len(P.slots) : k \notin 1 .. Len(subscriptions.slots) =>
          ~P.slots[k].bOccupied /\ P.slots[k].nGeneration = 1
    BY <1>3, <1>4, <2>1
  <2>5. Moves(subscriptions, n, P, n)
    BY <1>2, <1>5, <2>2, <2>3, <2>4, StillMoves
  <2>6. TableKept(P, n)
    BY <1>2, <1>4, <2>5, TableMoves
  <2>7. \A k \in 1 .. Len(subscriptions.slots) : P.slots[k].bOccupied <=> subscriptions.slots[k].bOccupied
    BY <2>2 DEF Same
  <2>8. OrderKept(P, order)
    BY <1>2, <1>5, <2>2, <2>3, <2>4, <2>7, OrderStays
  <2>9. QED
    BY <2>6, <2>8 DEF TableKept
<1>9. \A k \in 1 .. Len(P.slots) : P.slots[k].bOccupied => P.slots[k].value.nSequence < q
  <2>1. ~NewSlot.bOccupied
    BY DEF NewSlot
  <2>2. QED
    BY <1>3, <1>4, <2>1 DEF SequencesKept
<1>10. CASE subscriptions' = R /\ nNextSequence' = q /\ order' = order
  BY <1>1, <1>2, <1>3, <1>7, <1>10, EmissionUnmoved
<1>11. ASSUME P.free # << >>
       PROVE  /\ Threaded(U, BusValues) /\ Moves(P, n, U, n + 1)
              /\ Len(U.slots) = Len(P.slots) /\ Head(P.free) \in 1 .. Len(P.slots)
              /\ ~P.slots[Head(P.free)].bOccupied
              /\ U.slots[Head(P.free)] = Taken(P.slots[Head(P.free)], record)
              /\ \A k \in 1 .. Len(P.slots) : k # Head(P.free) => U.slots[k] = P.slots[k]
  <2>1. n < MaxSubscriptions
    BY <1>1 DEF n
  <2> HIDE DEF U
  <2>2. /\ Threaded(U, BusValues) /\ Moves(P, n, U, n + 1)
        /\ Len(U.slots) = Len(P.slots)
        /\ Head(P.free) \in 1 .. Len(P.slots) /\ ~P.slots[Head(P.free)].bOccupied
        /\ \A k \in 1 .. Len(P.slots) :
              U.slots[k] = IF k = Head(P.free) THEN Taken(P.slots[k], record) ELSE P.slots[k]
    BY <1>6, <1>8, <1>11, <2>1, EmplaceMoves DEF U
  <2>3. QED
    BY <2>2
<1>12. ASSUME P.free # << >> PROVE TableKept(U, n + 1)
  BY <1>4, <1>8, <1>11, <1>12, TableMoves
<1>13. CASE /\ P.free # << >> /\ subscriptions' = U
            /\ order' = InsertAt(order, InsertionIndex(U, record), handle)
            /\ nNextSequence' = q + 1
  <2>1. OrderKept(subscriptions', order')
    <3>1. n < MaxSubscriptions
      BY <1>1 DEF n
    <3>2. \A k \in 1 .. Len(P.slots) :
            P.slots[k].bOccupied => P.slots[k].value.nSequence < record.nSequence
      BY <1>6, <1>9
    <3>3. OrderKept(U, InsertAt(order, InsertionIndex(U, record), handle))
      BY <1>6, <1>8, <1>13, <3>1, <3>2, InsertedOrder
    <3>4. QED
      BY <1>13, <3>3
  <2>2. q + 1 \in 0 .. SequenceMax
    <3>1. q \in 0 .. SequenceMax /\ SequenceMax \in Nat /\ CapacityMax \in Nat /\ CapacityMax <= SequenceMax
      BY <1>3, EventBusAssumption, HandleTableAssumption DEF SequencesKept
    <3>2. CASE q # SequenceMax
      BY <3>1, <3>2
    <3>3. CASE q = SequenceMax
      <4>1. Len(order) < Len(P.slots) /\ Len(order) \in Nat
        BY <1>4, <1>8, <1>11, <1>13, OrderCounted
      <4>2. QED
        BY <1>3, <1>4, <1>5, <3>1, <3>3, <4>1
    <3>4. QED
      BY <3>2, <3>3
  <2>3. ASSUME NEW k \in 1 .. Len(U.slots), U.slots[k].bOccupied
        PROVE  U.slots[k].value.nSequence < q + 1
    <3>1. q \in Nat
      BY <1>3, EventBusAssumption DEF SequencesKept
    <3>2. CASE k = Head(P.free)
      BY <1>6, <1>11, <1>13, <3>1, <3>2 DEF Taken
    <3>3. CASE k # Head(P.free)
      <4>1. k \in 1 .. Len(P.slots) /\ U.slots[k] = P.slots[k]
        BY <1>11, <1>13, <3>3
      <4>2. P.slots[k].value.nSequence < q /\ P.slots[k].value.nSequence \in Nat
        <5>1. P.slots[k].bOccupied
          BY <2>3, <4>1
        <5>2. P.slots[k].value \in BusRecords
          BY <1>8, <4>1, <5>1 DEF SubscriptionsKept
        <5>3. QED
          BY <1>9, <4>1, <5>1, <5>2 DEF BusRecords
      <4>3. QED
        BY <3>1, <4>1, <4>2
    <3>4. QED
      BY <3>2, <3>3
  <2>4. SequencesKept(subscriptions', nNextSequence')
    <3> HIDE DEF U
    <3>1. QED
      BY <1>13, <2>2, <2>3 DEF SequencesKept
  <2>5. TableKept(subscriptions', nSubscribed')
    BY <1>1, <1>12, <1>13 DEF n
  <2>6. QED
    BY <1>1, <1>2, <2>1, <2>4, <2>5, EmissionUnmoved
<1>14. CASE P.free # << >> /\ subscriptions' = M /\ nNextSequence' = q /\ order' = order
  <2>1. Live(U, handle) /\ handle.iSlot = Head(P.free)
    <3>1. handle.iSlot = Head(P.free) /\ handle.nGeneration = P.slots[Head(P.free)].nGeneration
      BY DEF HandleOf
    <3>2. /\ U.slots[Head(P.free)].bOccupied
          /\ U.slots[Head(P.free)].nGeneration = P.slots[Head(P.free)].nGeneration
      BY <1>11, <1>14 DEF Taken
    <3> HIDE DEF U, handle
    <3>3. QED
      BY <1>11, <1>14, <3>1, <3>2 DEF Live, U
  <2> HIDE DEF U, handle
  <2>2. SubscriptionsKept(U, n + 1)
    BY <1>12, <1>14 DEF TableKept, U
  <2>3. /\ Threaded(M, BusValues) /\ Moves(U, n + 1, M, n + 1) /\ Len(M.slots) = Len(U.slots)
        /\ ~M.slots[handle.iSlot].bOccupied
        /\ \A k \in 1 .. Len(U.slots) : k # handle.iSlot => M.slots[k] = U.slots[k]
    BY <2>1, <2>2, RemoveMoves
  <2> HIDE DEF M
  <2>4. /\ Len(U.slots) = Len(P.slots) /\ ~P.slots[Head(P.free)].bOccupied
        /\ \A k \in 1 .. Len(P.slots) : k # Head(P.free) => U.slots[k] = P.slots[k]
    BY <1>11, <1>14 DEF U
  <2>5. TableKept(M, n + 1)
    <3>1. TableKept(U, n + 1)
      BY <1>12, <1>14 DEF U
    <3>2. QED
      BY <1>4, <2>3, <2>4, <3>1, TableMoves
  <2>6. ASSUME NEW k \in 1 .. Len(P.slots)
        PROVE  /\ M.slots[k].bOccupied <=> P.slots[k].bOccupied
               /\ P.slots[k].bOccupied => M.slots[k] = P.slots[k]
    <3>1. CASE k = Head(P.free)
      BY <2>1, <2>3, <2>4, <3>1
    <3>2. CASE k # Head(P.free)
      BY <2>1, <2>3, <2>4, <3>2
    <3>3. QED
      BY <3>1, <3>2
  <2>7. OrderKept(M, order)
    <3>1. \A k \in 1 .. Len(P.slots) : P.slots[k].bOccupied => Same(P.slots[k], M.slots[k])
      BY <1>8, <2>6, SlotsSame
    <3>2. Len(M.slots) = Len(P.slots)
      BY <2>3, <2>4
    <3>3. QED
      BY <1>5, <1>8, <2>6, <3>1, <3>2, OrderStays
  <2>8. SequencesKept(M, q)
    <3>1. q \in 0 .. SequenceMax
      BY <1>3 DEF SequencesKept
    <3>2. \A k \in 1 .. Len(M.slots) : M.slots[k].bOccupied => M.slots[k].value.nSequence < q
      BY <1>9, <2>3, <2>4, <2>6
    <3>3. QED
      BY <3>1, <3>2 DEF SequencesKept
  <2>9. subscriptions' = M /\ nSubscribed' = n + 1
    BY <1>1, <1>14 DEF M, U, handle, n
  <2>10. QED
    BY <1>1, <1>2, <1>14, <2>5, <2>7, <2>8, <2>9, EmissionUnmoved
<1>15. QED
  BY <1>1, <1>10, <1>13, <1>14 DEF n, q, R, P, record

\* Taking one subscription away keeps the table and the order.
LEMMA UnsubscribedKeeps ==
  ASSUME BusKept, NEW handle \in BusHandles, Unsubscribed(handle)
  PROVE  /\ TableKept(subscriptions', nSubscribed) /\ OrderKept(subscriptions', order')
         /\ SequencesKept(subscriptions', nNextSequence')
         /\ ~subscriptions'.slots[handle.iSlot].bOccupied
<1> DEFINE T == subscriptions
           n == nSubscribed
           U == Removed(T, handle)
           i == OrderedAt(handle)
<1>1. /\ TableKept(T, n) /\ SubscriptionsKept(T, n) /\ OrderKept(T, order) /\ Threaded(T, BusValues)
      /\ SequencesKept(T, nNextSequence) /\ Len(T.slots) <= CapacityMax
  BY DEF BusKept, TableKept, SubscriptionsKept
<1>2. Live(T, handle)
  BY <1>1, LiveResolves DEF Unsubscribed
<1>3. i \in 1 .. Len(order) /\ order[i] = handle
  BY <1>1, <1>2, FoundInOrder
<1>4. /\ Threaded(U, BusValues) /\ Moves(T, n, U, n) /\ Len(U.slots) = Len(T.slots)
      /\ ~U.slots[handle.iSlot].bOccupied
      /\ \A k \in 1 .. Len(T.slots) : k # handle.iSlot => U.slots[k] = T.slots[k]
  BY <1>1, <1>2, RemoveMoves
<1>5. subscriptions' = U /\ order' = RemoveAt(order, i) /\ nNextSequence' = nNextSequence
  BY DEF Unsubscribed
<1> HIDE DEF U, i, n
<1>6. TableKept(U, n)
  BY <1>1, <1>4, TableMoves
<1>7. OrderKept(U, RemoveAt(order, i))
  BY <1>1, <1>3, <1>4, RemovedOrder
<1>8. SequencesKept(U, nNextSequence)
  BY <1>1, <1>4 DEF SequencesKept
<1>9. QED
  BY <1>4, <1>5, <1>6, <1>7, <1>8 DEF n

\* EventBus_Unsubscribe keeps BusKept, inside a callback or outside.
LEMMA UnsubscribeKeeps == ASSUME BusKept, Unsubscribe PROVE BusKept'
<1>1. PICK handle \in ToSet(order) : Unsubscribed(handle)
  BY DEF Unsubscribe
<1>2. handle \in BusHandles
  BY <1>1 DEF ToSet, BusKept, OrderKept
<1>3. UNCHANGED <<emission, nSubscribed, atStart, calls>>
  BY DEF Unsubscribe
<1>4. QED
  BY <1>1, <1>2, <1>3, UnsubscribedKeeps, EmissionUnmoved DEF BusKept

\* The empty order is right for a table with no subscription.
LEMMA NoneListed ==
  ASSUME NEW T, \A k \in 1 .. Len(T.slots) : ~T.slots[k].bOccupied
  PROVE  OrderKept(T, << >>)
<1>1. << >> \in Seq(BusHandles) /\ Len(<< >>) = 0
  BY EmptySeq
<1>2. QED
  BY <1>1 DEF OrderKept

\* EventBus_Clear keeps BusKept, inside a callback or outside.
LEMMA ClearKeeps == ASSUME BusKept, Clear PROVE BusKept'
<1> DEFINE T == subscriptions
           U == Cleared(T)
<1>1. /\ subscriptions' = U /\ order' = << >>
      /\ UNCHANGED <<nNextSequence, emission, nSubscribed, atStart, calls>>
  BY DEF Clear
<1>2. /\ TableKept(T, nSubscribed) /\ SubscriptionsKept(T, nSubscribed) /\ Emission
      /\ SequencesKept(T, nNextSequence) /\ Len(T.slots) <= CapacityMax
  BY DEF BusKept, TableKept, SubscriptionsKept
<1>3. /\ Threaded(U, BusValues) /\ Moves(T, nSubscribed, U, nSubscribed)
      /\ Len(U.slots) = Len(T.slots) /\ \A k \in 1 .. Len(T.slots) : ~U.slots[k].bOccupied
  BY <1>2, ClearMoves
<1> HIDE DEF U
<1>4. TableKept(U, nSubscribed)
  BY <1>2, <1>3, TableMoves
<1>5. OrderKept(U, << >>) /\ SequencesKept(U, nNextSequence)
  BY <1>2, <1>3, NoneListed DEF SequencesKept
<1>6. QED
  BY <1>1, <1>2, <1>4, <1>5, EmissionUnmoved

\* A new bus is right.
LEMMA NothingKept ==
  /\ Threaded(EmptyTable, BusValues) /\ Len(EmptyTable.slots) = 0
  /\ OrderKept(EmptyTable, << >>) /\ SequencesKept(EmptyTable, 0)
  /\ \A n \in 0 .. MaxSubscriptions : SubscriptionsKept(EmptyTable, n)
<1>1. Threaded(EmptyTable, BusValues) /\ EmptyTable.slots = << >>
  BY EmptyThreads DEF EmptyTable
<1>2. Len(EmptyTable.slots) = 0
  BY <1>1
<1>3. OrderKept(EmptyTable, << >>)
  BY <1>2, NoneListed
<1>4. SequencesKept(EmptyTable, 0)
  BY <1>2, EventBusAssumption DEF SequencesKept
<1>5. CapacityMax \in Nat
  BY HandleTableAssumption
<1>6. QED
  BY <1>1, <1>2, <1>3, <1>4, <1>5 DEF SubscriptionsKept

\* A destroyed bus and a new one keep BusKept.
LEMMA ReplaceKeeps == ASSUME BusKept, Replace PROVE BusKept'
<1>1. /\ subscriptions' = EmptyTable /\ order' = << >> /\ nNextSequence' = 0
      /\ atStart' = {} /\ calls' = << >> /\ ~bEmitting /\ UNCHANGED emission
      /\ nSubscribed' = nSubscribed
  BY DEF Replace
<1>2. /\ dispatchSnapshot = << >> /\ calling = NotCalling /\ Emission /\ nSubscribed \in 0 .. MaxSubscriptions
      /\ nSubscribed \in Nat
  <2>1. Emission /\ nSubscribed \in 0 .. MaxSubscriptions
    BY DEF BusKept, SubscriptionsKept
  <2>2. QED
    BY <1>1, <2>1 DEF Emission
<1>3. /\ SubscriptionsKept(subscriptions, nSubscribed)' /\ OrderKept(subscriptions, order)'
      /\ SequencesKept(subscriptions, nNextSequence)'
  BY <1>1, <1>2, NothingKept
<1>4. dispatchSnapshot' = << >> /\ calls' = << >> /\ ~bEmitting' /\ Len(<< >>) = 0
  BY <1>1, <1>2, EmptySeq DEF emission
<1>5. SnapshotKept(subscriptions, nSubscribed)'
  <2>1. << >> \in Seq(BusHandles)
    BY EmptySeq
  <2>2. QED
    BY <1>1, <1>4, <2>1 DEF SnapshotKept
<1>6. CallsKept(subscriptions)'
  <2>1. << >> \in Seq(BusRecords)
    BY EmptySeq
  <2>2. QED
    BY <1>1, <1>4, <2>1 DEF CallsKept
<1>7. Emission'
  BY <1>1, <1>2, <1>4 DEF Emission, emission
<1>8. QED
  BY <1>3, <1>5, <1>6, <1>7 DEF BusKept

\* BusKept holds initially.
LEMMA BusStarts == EInit => BusKept
<1> SUFFICES ASSUME EInit PROVE BusKept
  OBVIOUS
<1>1. /\ subscriptions = EmptyTable /\ order = << >> /\ nNextSequence = 0
      /\ atStart = {} /\ calls = << >> /\ ~bEmitting /\ bEmitting = FALSE /\ dispatchSnapshot = << >>
      /\ nSubscribed = 0 /\ nSubscribed \in 0 .. MaxSubscriptions /\ calling = NotCalling
      /\ iDispatch = 1 /\ eventId \in EventIds
  BY EventBusAssumption DEF EInit
<1>2. << >> \in Seq(BusHandles) /\ << >> \in Seq(BusRecords) /\ Len(<< >>) = 0
  BY EmptySeq
<1>3. /\ SubscriptionsKept(subscriptions, nSubscribed) /\ OrderKept(subscriptions, order)
      /\ SequencesKept(subscriptions, nNextSequence)
  BY <1>1, NothingKept
<1>4. SnapshotKept(subscriptions, nSubscribed)
  BY <1>1, <1>2 DEF SnapshotKept
<1>5. CallsKept(subscriptions)
  BY <1>1, <1>2 DEF CallsKept
<1>6. Emission
  <2>1. bEmitting \in BOOLEAN
    BY Zenon DEF EInit
  <2>2. iDispatch \in Nat \ {0}
    BY <1>1
  <2>3. QED
    BY <1>1, <2>1, <2>2 DEF Emission
<1>7. QED
  BY <1>3, <1>4, <1>5, <1>6 DEF BusKept

\* The order has the handle of every occupied slot.
LEMMA ListedBySlot ==
  ASSUME NEW T, NEW n, SubscriptionsKept(T, n), OrderKept(T, order),
         NEW k \in 1 .. Len(T.slots), T.slots[k].bOccupied
  PROVE  \E i \in 1 .. Len(order) : order[i] = HandleOf(T, k)
<1>1. \A i \in 1 .. Len(order) : order[i] \in BusHandles
  BY DEF OrderKept
<1>2. PICK i \in 1 .. Len(order) : order[i].iSlot = k
  BY DEF OrderKept
<1>3. order[i].nGeneration = T.slots[k].nGeneration
  BY <1>2 DEF OrderKept, Live
<1>4. order[i] = HandleOf(T, k)
  BY <1>1, <1>2, <1>3 DEF BusHandles, HandleOf
<1>5. QED
  BY <1>4

\* The beginning of an emission takes the order as its snapshot and keeps BusKept.
LEMMA EmitBeginsKeeps == ASSUME BusKept, NEW id \in EventIds, EmitBegins(id) PROVE BusKept'
<1> DEFINE T == subscriptions
           n == nSubscribed
<1>1. /\ ~bEmitting /\ bEmitting' = TRUE /\ dispatchSnapshot' = order
      /\ iDispatch' = 1 /\ eventId' = id /\ calls' = << >>
      /\ atStart' = IdsOf({h \in ToSet(order) : Record(h).eventId = id})
      /\ subscriptions' = T /\ order' = order /\ nNextSequence' = nNextSequence
      /\ calling' = calling /\ nSubscribed' = n
  BY DEF EmitBegins, busTable
<1>2. /\ SubscriptionsKept(T, n) /\ OrderKept(T, order) /\ SequencesKept(T, nNextSequence)
      /\ Threaded(T, BusValues) /\ Emission /\ calling = NotCalling
  BY <1>1 DEF BusKept, SubscriptionsKept, Emission
<1>3. /\ order \in Seq(BusHandles) /\ Len(order) \in Nat /\ DOMAIN order = 1 .. Len(order)
      /\ \A i \in 1 .. Len(order) : Live(T, order[i])
      /\ \A i, j \in 1 .. Len(order) : order[i].iSlot = order[j].iSlot => i = j
  BY <1>2 DEF OrderKept
<1>4. atStart' = {Get(T, order[i]).id : i \in {j \in 1 .. Len(order) : Get(T, order[j]).eventId = id}}
  BY <1>1, <1>3 DEF IdsOf, ToSet, Record
<1>5. ASSUME NEW i \in 1 .. Len(order), NEW j \in 1 .. Len(order),
             Get(T, order[i]).id = Get(T, order[j]).id
      PROVE  i = j
  <2>1. Live(T, order[i]) /\ Live(T, order[j])
    BY <1>3
  <2>2. order[i].iSlot = order[j].iSlot
    BY <1>2, <1>5, <2>1 DEF SubscriptionsKept, Live, Get
  <2>3. QED
    BY <1>3, <2>2
<1>6. SnapshotKept(subscriptions, nSubscribed)'
  <2>1. ASSUME NEW i \in 1 .. Len(order)
        PROVE  Get(T, order[i]).eventId = id <=> Get(T, order[i]).id \in atStart'
    <3>1. ASSUME Get(T, order[i]).id \in atStart' PROVE Get(T, order[i]).eventId = id
      <4>1. PICK j \in 1 .. Len(order) : /\ Get(T, order[j]).eventId = id
                                         /\ Get(T, order[i]).id = Get(T, order[j]).id
        BY <1>4, <3>1
      <4>2. QED
        BY <1>5, <4>1
    <3>2. ASSUME Get(T, order[i]).eventId = id PROVE Get(T, order[i]).id \in atStart'
      BY <1>4, <3>2
    <3>3. QED
      BY <3>1, <3>2
  <2>2. atStart' \subseteq 1 .. n
    <3>1. \A i \in 1 .. Len(order) : Get(T, order[i]).id \in 1 .. n
      BY <1>2, <1>3, SlotPriorities
    <3>2. QED
      BY <1>4, <3>1
  <2>3. \A k \in 1 .. Len(T.slots) :
          T.slots[k].bOccupied => \E i \in 1 .. Len(order) : order[i] = HandleOf(T, k)
    BY <1>2, ListedBySlot
  <2>4. \A i \in 1 .. Len(order) : order[i].iSlot \in 1 .. Len(T.slots)
    BY <1>3 DEF Live
  <2>5. QED
    BY <1>1, <1>3, <2>1, <2>2, <2>3, <2>4 DEF SnapshotKept
<1>7. CallsKept(subscriptions)'
  <2>1. << >> \in Seq(BusRecords) /\ Len(<< >>) = 0
    BY EmptySeq
  <2>2. Made' = {}
    BY <1>1, <2>1 DEF Made
  <2>3. \A i \in 1 .. Len(order) : ~(i < 1)
    OBVIOUS
  <2>4. QED
    BY <1>1, <1>2, <2>1, <2>2, <2>3 DEF CallsKept
<1>8. Emission'
  <2>1. bEmitting' \in BOOLEAN /\ bEmitting' /\ iDispatch' \in Nat \ {0} /\ iDispatch' <= Len(order) + 1
    BY <1>1, <1>3
  <2>2. QED
    BY <1>1, <1>2, <2>1 DEF Emission
<1>9. QED
  BY <1>1, <1>2, <1>6, <1>7, <1>8 DEF BusKept

\* The end of an emission keeps BusKept.
LEMMA EmitEndsKeeps == ASSUME BusKept, EmitEnds PROVE BusKept'
<1>1. /\ calling = NotCalling /\ bEmitting' = FALSE /\ dispatchSnapshot' = << >>
      /\ UNCHANGED <<subscriptions, order, nNextSequence, iDispatch, eventId, calling, nSubscribed,
                     atStart, calls>>
  BY DEF EmitEnds, busTable
<1>2. << >> \in Seq(BusHandles) /\ Len(<< >>) = 0
  BY EmptySeq
<1>3. /\ SnapshotKept(subscriptions, nSubscribed) /\ CallsKept(subscriptions) /\ Emission
      /\ SubscriptionsKept(subscriptions, nSubscribed)' /\ OrderKept(subscriptions, order)'
      /\ SequencesKept(subscriptions, nNextSequence)'
  BY <1>1 DEF BusKept
<1>4. SnapshotKept(subscriptions, nSubscribed)'
  BY <1>1, <1>2, <1>3 DEF SnapshotKept
<1>5. CallsKept(subscriptions)'
  BY <1>1, <1>2, <1>3 DEF CallsKept
<1>6. Emission'
  <2>1. bEmitting' \in BOOLEAN /\ ~bEmitting'
    BY <1>1
  <2>2. QED
    BY <1>1, <1>3, <2>1 DEF Emission
<1>7. QED
  BY <1>3, <1>4, <1>5, <1>6 DEF BusKept

\* What the snapshot says does not depend on how far the emission is.
LEMMA SnapshotUnmoved ==
  ASSUME SnapshotKept(subscriptions', nSubscribed),
         UNCHANGED <<dispatchSnapshot, eventId, atStart, bEmitting, nSubscribed>>
  PROVE  SnapshotKept(subscriptions, nSubscribed)'
  BY DEF SnapshotKept

\* Two live handles of the snapshot stand for different subscriptions.
LEMMA SnapshotApart ==
  ASSUME SubscriptionsKept(subscriptions, nSubscribed), SnapshotKept(subscriptions, nSubscribed),
         NEW i \in 1 .. Len(dispatchSnapshot), NEW j \in 1 .. Len(dispatchSnapshot),
         Live(subscriptions, dispatchSnapshot[i]), Live(subscriptions, dispatchSnapshot[j]),
         Get(subscriptions, dispatchSnapshot[i]).id = Get(subscriptions, dispatchSnapshot[j]).id
  PROVE  i = j
<1>1. dispatchSnapshot[i].iSlot = dispatchSnapshot[j].iSlot
  BY DEF SubscriptionsKept, Live, Get
<1>2. QED
  BY <1>1 DEF SnapshotKept

\* A call keeps BusKept: the subscription is one of those at the start, and it was
\* not called before.
LEMMA DispatchCallsKeeps ==
  ASSUME BusKept, bEmitting, calling = NotCalling, iDispatch <= Len(dispatchSnapshot),
         Live(subscriptions, dispatchSnapshot[iDispatch]),
         Get(subscriptions, dispatchSnapshot[iDispatch]).eventId = eventId,
         calling' = [handle |-> dispatchSnapshot[iDispatch],
                     once |-> Get(subscriptions, dispatchSnapshot[iDispatch]).once],
         calls' = Append(calls, Get(subscriptions, dispatchSnapshot[iDispatch])),
         UNCHANGED <<subscriptions, order, nNextSequence, bEmitting, dispatchSnapshot, iDispatch,
                     eventId, nSubscribed, atStart>>
  PROVE  BusKept'
<1> DEFINE T == subscriptions
           d == iDispatch
           h == dispatchSnapshot[d]
           record == Get(T, h)
           c == Len(calls)
<1>1. /\ SubscriptionsKept(T, nSubscribed) /\ SnapshotKept(T, nSubscribed) /\ CallsKept(T) /\ Emission
      /\ Threaded(T, BusValues)
  BY DEF BusKept, SubscriptionsKept
<1>2. /\ d \in 1 .. Len(dispatchSnapshot) /\ Len(dispatchSnapshot) \in Nat
  <2>1. d \in Nat \ {0} /\ dispatchSnapshot \in Seq(BusHandles)
    BY <1>1 DEF Emission, SnapshotKept
  <2>2. QED
    BY <2>1
<1>3. h \in BusHandles /\ record \in BusRecords /\ record.id \in atStart
  <2>1. h \in BusHandles
    BY <1>1, <1>2, SnapshotHandles
  <2>2. record \in BusRecords
    BY <1>1, SlotPriorities
  <2>3. record.id \in atStart
    BY <1>1, <1>2 DEF SnapshotKept
  <2>4. QED
    BY <2>1, <2>2, <2>3
<1>4. record.id \notin Made
  BY <1>1, <1>2 DEF CallsKept
<1> HIDE DEF record
<1>5. /\ calls \in Seq(BusRecords) /\ c \in Nat
      /\ calls' \in Seq(BusRecords) /\ Len(calls') = c + 1 /\ calls'[c + 1] = record
      /\ \A i \in 1 .. c : calls'[i] = calls[i]
  <2>1. calls \in Seq(BusRecords)
    BY <1>1 DEF CallsKept
  <2>2. calls' = Append(calls, record)
    BY DEF record
  <2>3. QED
    BY <1>3, <2>1, <2>2, AppendProperties
<1>6. Made' = Made \cup {record.id}
  <2>1. Made' = {calls'[i].id : i \in 1 .. c + 1}
    BY <1>5 DEF Made
  <2>2. {calls'[i].id : i \in 1 .. c + 1} = {calls[i].id : i \in 1 .. c} \cup {record.id}
    <3>1. ASSUME NEW i \in 1 .. c + 1
          PROVE  calls'[i].id \in {calls[j].id : j \in 1 .. c} \cup {record.id}
      <4>1. i \in 1 .. c \/ i = c + 1
        BY <1>5
      <4>2. QED
        BY <1>5, <4>1
    <3>2. ASSUME NEW i \in 1 .. c
          PROVE  calls[i].id \in {calls'[j].id : j \in 1 .. c + 1}
      <4>1. i \in 1 .. c + 1
        BY <1>5
      <4>2. QED
        BY <1>5, <4>1
    <3>3. record.id \in {calls'[j].id : j \in 1 .. c + 1}
      <4>1. c + 1 \in 1 .. c + 1
        BY <1>5
      <4>2. QED
        BY <1>5, <4>1
    <3>4. QED
      BY <3>1, <3>2, <3>3
  <2>3. QED
    BY <2>1, <2>2 DEF Made
<1>7. calling' # NotCalling
  <2>1. calling'.handle = h /\ h.iSlot # 0
    BY <1>3 DEF BusHandles
  <2>2. NotCalling.handle.iSlot = 0
    BY DEF NotCalling, InvalidHandle
  <2>3. QED
    BY <2>1, <2>2
<1>8. SnapshotKept(subscriptions, nSubscribed)'
  BY <1>1, SnapshotUnmoved
<1>9. ASSUME NEW i \in 1 .. c + 1, NEW j \in 1 .. c + 1, calls'[i].id = calls'[j].id
      PROVE  i = j
  <2>1. (i \in 1 .. c \/ i = c + 1) /\ (j \in 1 .. c \/ j = c + 1)
    BY <1>5
  <2>2. \A k \in 1 .. c : calls[k].id # record.id
    BY <1>4 DEF Made
  <2>3. \A k, l \in 1 .. c : calls[k].id = calls[l].id => k = l
    BY <1>1 DEF CallsKept
  <2>4. QED
    BY <1>5, <1>9, <2>1, <2>2, <2>3
<1>10. ASSUME NEW i \in 1 .. c + 1 PROVE calls'[i].id \in atStart
  <2>1. i \in 1 .. c \/ i = c + 1
    BY <1>5
  <2>2. \A k \in 1 .. c : calls[k].id \in atStart
    BY <1>1 DEF CallsKept
  <2>3. QED
    BY <1>3, <1>5, <2>1, <2>2
<1>11. ASSUME NEW i \in 1 .. Len(dispatchSnapshot), Live(T, dispatchSnapshot[i])
       PROVE  LET id == Get(T, dispatchSnapshot[i]).id
              IN  /\ i < d /\ id \in atStart => id \in Made'
                  /\ i > d => id \notin Made'
                  /\ i = d => id = calls'[Len(calls')].id
  <2> DEFINE id == Get(T, dispatchSnapshot[i]).id
  <2>1. /\ i < d /\ id \in atStart => id \in Made
        /\ i > d => id \notin Made
    BY <1>1, <1>11 DEF CallsKept
  <2>2. i # d => id # record.id
    BY <1>1, <1>2, <1>11, SnapshotApart DEF record
  <2>3. i = d => id = record.id
    BY DEF record
  <2>4. calls'[Len(calls')].id = record.id
    BY <1>5
  <2>5. i > d => i # d
    BY <1>2
  <2>6. QED
    BY <1>6, <2>1, <2>2, <2>3, <2>4, <2>5
<1>12. ASSUME NEW i \in 1 .. c + 1, NEW k \in 1 .. Len(T.slots),
              calls'[i].once, T.slots[k].bOccupied, T.slots[k].value.id = calls'[i].id
       PROVE  i = c + 1 /\ calling'.handle = HandleOf(T, k)
  <2>1. CASE i \in 1 .. c
    <3>1. calls[i].once /\ T.slots[k].value.id = calls[i].id
      BY <1>5, <1>12, <2>1
    <3>2. QED
      BY <1>1, <1>12, <2>1, <3>1 DEF CallsKept
  <2>2. CASE i = c + 1
    <3>1. T.slots[k].value.id = record.id
      BY <1>5, <1>12, <2>2
    <3>2. h.iSlot \in 1 .. Len(T.slots) /\ T.slots[h.iSlot].bOccupied
          /\ T.slots[h.iSlot].nGeneration = h.nGeneration /\ T.slots[h.iSlot].value.id = record.id
      BY DEF Live, record, Get
    <3>3. k = h.iSlot
      BY <1>1, <1>12, <3>1, <3>2 DEF SubscriptionsKept
    <3>4. HandleOf(T, k) = h
      BY <1>3, <3>2, <3>3 DEF HandleOf, BusHandles
    <3>5. QED
      BY <2>2, <3>4
  <2>3. QED
    BY <1>5, <2>1, <2>2
<1>13. CallsKept(subscriptions)'
  BY <1>5, <1>7, <1>9, <1>10, <1>11, <1>12 DEF CallsKept
<1>14. Emission'
  <2>1. calling' \in [handle : BusHandles, once : BOOLEAN]
    BY <1>3 DEF record, BusRecords
  <2>2. /\ calls' # << >> /\ calls'[Len(calls')].once = calling'.once
    <3>1. calls'[Len(calls')] = record
      BY <1>5
    <3>2. calls' # << >>
      BY <1>5
    <3>3. QED
      BY <3>1, <3>2 DEF record
  <2>3. bEmitting' \in BOOLEAN /\ bEmitting'
    BY <1>1 DEF Emission
  <2>4. QED
    BY <1>1, <1>2, <2>1, <2>2, <2>3 DEF Emission
<1>15. QED
  BY <1>1, <1>8, <1>13, <1>14 DEF BusKept

\* A step of the dispatch keeps BusKept, whether it calls or skips.
LEMMA DispatchKeeps == ASSUME BusKept, Dispatch PROVE BusKept'
<1> DEFINE T == subscriptions
           d == iDispatch
           h == dispatchSnapshot[d]
<1>1. /\ bEmitting /\ calling = NotCalling /\ d <= Len(dispatchSnapshot)
      /\ UNCHANGED <<subscriptions, order, nNextSequence, bEmitting, dispatchSnapshot, eventId,
                     nSubscribed, atStart>>
  BY DEF Dispatch, Walked, busTable
<1>2. /\ SubscriptionsKept(T, nSubscribed) /\ SnapshotKept(T, nSubscribed) /\ CallsKept(T) /\ Emission
      /\ Threaded(T, BusValues)
  BY DEF BusKept, SubscriptionsKept
<1>3. Resolves(T, h) <=> Live(T, h)
  BY <1>2, LiveResolves
<1>4. d \in 1 .. Len(dispatchSnapshot) /\ Len(dispatchSnapshot) \in Nat
  <2>1. d \in Nat \ {0} /\ dispatchSnapshot \in Seq(BusHandles)
    BY <1>2 DEF Emission, SnapshotKept
  <2>2. QED
    BY <1>1, <2>1
<1>5. CASE Resolves(T, h) /\ Get(T, h).eventId = eventId
  <2>1. /\ calling' = [handle |-> h, once |-> Get(T, h).once]
        /\ calls' = Append(calls, Get(T, h)) /\ iDispatch' = iDispatch
    BY <1>5 DEF Dispatch, Walked, Record
  <2>2. QED
    BY <1>1, <1>3, <1>5, <2>1, DispatchCallsKeeps
<1>6. CASE ~(Resolves(T, h) /\ Get(T, h).eventId = eventId)
  <2>1. iDispatch' = d + 1 /\ calling' = NotCalling /\ calls' = calls
    BY <1>1, <1>6 DEF Dispatch, Walked, Record
  <2>2. SnapshotKept(subscriptions, nSubscribed)'
    BY <1>1, <1>2, SnapshotUnmoved
  <2>3. Live(T, h) => Get(T, h).id \notin atStart
    BY <1>2, <1>3, <1>4, <1>6 DEF SnapshotKept
  <2>4. ASSUME NEW i \in 1 .. Len(dispatchSnapshot), Live(T, dispatchSnapshot[i])
        PROVE  LET id == Get(T, dispatchSnapshot[i]).id
               IN  /\ i < d + 1 /\ id \in atStart => id \in Made
                   /\ i > d + 1 => id \notin Made
                   /\ i = d + 1 => id \notin Made
    <3> DEFINE id == Get(T, dispatchSnapshot[i]).id
    <3>1. /\ i < d /\ id \in atStart => id \in Made
          /\ i > d => id \notin Made
      BY <1>2, <2>4 DEF CallsKept
    <3>2. i = d => id \notin atStart
      BY <2>3, <2>4
    <3> HIDE DEF id
    <3>3. (i < d + 1 => i < d \/ i = d) /\ (i > d + 1 => i > d) /\ (i = d + 1 => i > d)
      BY <1>4
    <3>4. QED
      BY <3>1, <3>2, <3>3 DEF id
  <2>5. Made' = Made
    BY <2>1 DEF Made
  <2>6. ASSUME NEW i \in 1 .. Len(calls), NEW k \in 1 .. Len(T.slots),
               calls[i].once, T.slots[k].bOccupied, T.slots[k].value.id = calls[i].id
        PROVE  FALSE
    BY <1>1, <1>2, <2>6 DEF CallsKept
  <2>7. CallsKept(subscriptions)'
    <3>1. /\ calls \in Seq(BusRecords)
          /\ \A i \in 1 .. Len(calls) : calls[i].id \in atStart
          /\ \A i, j \in 1 .. Len(calls) : calls[i].id = calls[j].id => i = j
      BY <1>2 DEF CallsKept
    <3>2. QED
      BY <1>1, <2>1, <2>4, <2>5, <2>6, <3>1 DEF CallsKept
  <2>8. Emission'
    <3>1. iDispatch' \in Nat \ {0} /\ iDispatch' <= Len(dispatchSnapshot) + 1
      BY <1>4, <2>1
    <3>2. bEmitting' \in BOOLEAN /\ bEmitting' /\ eventId' \in EventIds
      BY <1>1, <1>2 DEF Emission
    <3>3. QED
      BY <1>1, <2>1, <3>1, <3>2 DEF Emission
  <2>9. QED
    BY <1>1, <2>2, <2>7, <2>8 DEF BusKept
<1>7. QED
  BY <1>5, <1>6

\* The return of a callback keeps BusKept: a subscription for one event that is
\* still there is taken away.
LEMMA CallbackReturnsKeeps == ASSUME BusKept, CallbackReturns PROVE BusKept'
<1> DEFINE T == subscriptions
           U == subscriptions'
           d == iDispatch
           c == Len(calls)
<1>1. /\ calling # NotCalling /\ OnceRemoved /\ calling' = NotCalling /\ iDispatch' = d + 1
      /\ UNCHANGED <<bEmitting, dispatchSnapshot, eventId, nSubscribed, atStart, calls>>
  BY DEF CallbackReturns
<1>2. /\ SubscriptionsKept(T, nSubscribed) /\ TableKept(T, nSubscribed) /\ OrderKept(T, order)
      /\ SequencesKept(T, nNextSequence) /\ Emission /\ Threaded(T, BusValues)
  BY DEF BusKept, TableKept, SubscriptionsKept
<1>3. /\ calling.handle \in BusHandles /\ d \in Nat \ {0} /\ d <= Len(dispatchSnapshot)
      /\ calls # << >> /\ calls[c].once = calling.once /\ bEmitting
  BY <1>1, <1>2 DEF Emission
<1>4. /\ TableKept(U, nSubscribed) /\ OrderKept(U, order') /\ SequencesKept(U, nNextSequence')
      /\ calling.once /\ Live(T, calling.handle) => ~U.slots[calling.handle.iSlot].bOccupied
      /\ ~(calling.once /\ Live(T, calling.handle)) => U = T
  <2>1. Resolves(T, calling.handle) <=> Live(T, calling.handle)
    BY <1>2, LiveResolves
  <2>2. CASE calling.once /\ Resolves(T, calling.handle)
    <3>1. Unsubscribed(calling.handle)
      BY <1>1, <2>2 DEF OnceRemoved
    <3>2. QED
      BY <1>3, <2>1, <2>2, <3>1, UnsubscribedKeeps
  <2>3. CASE ~(calling.once /\ Resolves(T, calling.handle))
    <3>1. U = T /\ order' = order /\ nNextSequence' = nNextSequence
      BY <1>1, <2>3 DEF OnceRemoved, busTable
    <3>2. QED
      BY <1>2, <2>1, <2>3, <3>1
  <2>4. QED
    BY <2>2, <2>3
<1>5. SubscriptionsKept(U, nSubscribed) /\ SnapshotKept(U, nSubscribed) /\ CallsKept(U)
  BY <1>4 DEF TableKept
<1>6. SnapshotKept(subscriptions, nSubscribed)'
  BY <1>1, <1>5, SnapshotUnmoved
<1>7. Made' = Made /\ calls[c].id \in Made
  <2>1. calls \in Seq(BusRecords)
    BY <1>5 DEF CallsKept
  <2>2. c \in 1 .. Len(calls)
    BY <1>3, <2>1
  <2>3. QED
    BY <1>1, <2>2 DEF Made
<1>8. ASSUME NEW i \in 1 .. Len(dispatchSnapshot), Live(U, dispatchSnapshot[i])
      PROVE  LET id == Get(U, dispatchSnapshot[i]).id
             IN  /\ i < d + 1 /\ id \in atStart => id \in Made
                 /\ i > d + 1 => id \notin Made
                 /\ i = d + 1 => id \notin Made
  <2> DEFINE id == Get(U, dispatchSnapshot[i]).id
  <2>1. /\ i < d /\ id \in atStart => id \in Made
        /\ i > d => id \notin Made
        /\ i = d => id = calls[c].id
    BY <1>1, <1>5, <1>8 DEF CallsKept
  <2> HIDE DEF id
  <2>2. (i < d + 1 => i < d \/ i = d) /\ (i > d + 1 => i > d) /\ (i = d + 1 => i > d)
    BY <1>3
  <2>3. QED
    BY <1>7, <2>1, <2>2 DEF id
<1>9. ASSUME NEW i \in 1 .. Len(calls), NEW k \in 1 .. Len(U.slots),
             calls[i].once, U.slots[k].bOccupied, U.slots[k].value.id = calls[i].id
      PROVE  FALSE
  <2>1. i = c /\ calling.handle = HandleOf(U, k)
    BY <1>5, <1>9 DEF CallsKept
  <2>2. calling.once
    BY <1>3, <1>9, <2>1
  <2>3. calling.handle.iSlot = k
    BY <2>1 DEF HandleOf
  <2>4. Live(U, calling.handle)
    BY <1>9, <2>1, <2>3 DEF HandleOf, Live
  <2>5. QED
    BY <1>4, <1>9, <2>2, <2>3, <2>4
<1>10. CallsKept(subscriptions)'
  <2>1. /\ calls \in Seq(BusRecords)
        /\ \A i \in 1 .. Len(calls) : calls[i].id \in atStart
        /\ \A i, j \in 1 .. Len(calls) : calls[i].id = calls[j].id => i = j
    BY <1>5 DEF CallsKept
  <2>2. QED
    BY <1>1, <1>7, <1>8, <1>9, <2>1 DEF CallsKept
<1>11. Emission'
  <2>1. Len(dispatchSnapshot) \in Nat
    BY <1>5 DEF SnapshotKept
  <2>2. iDispatch' \in Nat \ {0} /\ iDispatch' <= Len(dispatchSnapshot) + 1
    BY <1>1, <1>3, <2>1
  <2>3. bEmitting' \in BOOLEAN /\ bEmitting' /\ eventId' \in EventIds
    BY <1>1, <1>2, <1>3 DEF Emission
  <2>4. QED
    BY <1>1, <2>2, <2>3 DEF Emission
<1>12. QED
  BY <1>1, <1>4, <1>5, <1>6, <1>10, <1>11 DEF BusKept

\* Every step keeps BusKept.
LEMMA BusKeptStep == BusKept /\ [ENext]_evars => BusKept'
<1> SUFFICES ASSUME BusKept, [ENext]_evars PROVE BusKept'
  OBVIOUS
<1>1. CASE UNCHANGED evars
  <2>1. /\ UNCHANGED <<subscriptions, order, nNextSequence>> /\ nSubscribed' = nSubscribed
        /\ UNCHANGED <<emission, atStart, calls>>
    BY <1>1 DEF evars, busTable
  <2>2. TableKept(subscriptions, nSubscribed) /\ Emission
    BY DEF BusKept, TableKept
  <2>3. QED
    BY <2>1, <2>2, EmissionUnmoved DEF BusKept
<1>2. CASE \E id \in EventIds, p \in Priorities, o \in BOOLEAN : Subscribe(id, p, o)
  BY <1>2, SubscribeKeeps
<1>3. CASE Unsubscribe
  BY <1>3, UnsubscribeKeeps
<1>4. CASE Clear
  BY <1>4, ClearKeeps
<1>5. CASE Replace
  BY <1>5, ReplaceKeeps
<1>6. CASE \E id \in EventIds : EmitBegins(id)
  BY <1>6, EmitBeginsKeeps
<1>7. CASE Dispatch
  BY <1>7, DispatchKeeps
<1>8. CASE CallbackReturns
  BY <1>8, CallbackReturnsKeeps
<1>9. CASE EmitEnds
  BY <1>9, EmitEndsKeeps
<1>10. QED
  BY <1>1, <1>2, <1>3, <1>4, <1>5, <1>6, <1>7, <1>8, <1>9 DEF ENext
-----------------------------------------------------------------------------
\* The handles of the order, by index: each is live and is the one of its slot.
LEMMA ListedHandles ==
  ASSUME BusKept
  PROVE  /\ DOMAIN order = 1 .. Len(order) /\ ToSet(order) = {order[i] : i \in 1 .. Len(order)}
         /\ \A h \in ToSet(order) :
              /\ h \in BusHandles /\ Live(subscriptions, h) /\ h.iSlot \in Occupied(subscriptions)
              /\ HandleOf(subscriptions, h.iSlot) = h
<1>1. /\ OrderKept(subscriptions, order) /\ Threaded(subscriptions, BusValues)
  BY DEF BusKept, SubscriptionsKept
<1>2. /\ DOMAIN order = 1 .. Len(order)
      /\ \A i \in 1 .. Len(order) : order[i] \in BusHandles /\ Live(subscriptions, order[i])
  BY <1>1 DEF OrderKept
<1>3. ToSet(order) = {order[i] : i \in 1 .. Len(order)}
  BY <1>2 DEF ToSet
<1>4. ASSUME NEW h \in BusHandles, Live(subscriptions, h)
      PROVE  /\ h.iSlot \in Occupied(subscriptions)
             /\ HandleOf(subscriptions, h.iSlot) = h
  <2>1. Occupied(subscriptions) =
          {i \in 1 .. Len(subscriptions.slots) : subscriptions.slots[i].bOccupied}
    BY <1>1, OccupiedSlots DEF Threaded
  <2>2. QED
    BY <1>4, <2>1 DEF Live, HandleOf, BusHandles
<1>5. QED
  BY <1>2, <1>3, <1>4

\* What ETypeOK says follows from BusKept.
LEMMA BusTypes == BusKept => ETypeOK
<1> SUFFICES ASSUME BusKept PROVE ETypeOK
  OBVIOUS
<1> DEFINE T == subscriptions
<1>1. /\ SubscriptionsKept(T, nSubscribed) /\ OrderKept(T, order) /\ SequencesKept(T, nNextSequence)
      /\ Emission /\ Threaded(T, BusValues)
  BY DEF BusKept, SubscriptionsKept
<1>2. TableSound(T)
  BY <1>1, ThreadedIsSound
<1>3. Len(order) = Count(T)
  BY <1>1, OrderCounted
<1>4. {HandleOf(T, i) : i \in Occupied(T)} = ToSet(order)
  <2>1. ASSUME NEW k \in Occupied(T) PROVE HandleOf(T, k) \in ToSet(order)
    <3>1. k \in 1 .. Len(T.slots) /\ T.slots[k].bOccupied
      BY <1>1, OccupiedSlots DEF Threaded
    <3>2. \E i \in 1 .. Len(order) : order[i] = HandleOf(T, k)
      BY <1>1, <3>1, ListedBySlot
    <3>3. QED
      BY <3>2, ListedHandles
  <2>2. ASSUME NEW h \in ToSet(order) PROVE h \in {HandleOf(T, i) : i \in Occupied(T)}
    BY ListedHandles
  <2>3. QED
    BY <2>1, <2>2
<1>5. nNextSequence \in 0 .. SequenceMax
  BY <1>1 DEF SequencesKept
<1>6. bEmitting \in BOOLEAN /\ eventId \in EventIds
  BY <1>1 DEF Emission
<1>7. QED
  BY <1>2, <1>3, <1>4, <1>5, <1>6 DEF ETypeOK

\* As many subscriptions were called as there were calls.
LEMMA CallsCounted == BusKept => CalledIds = Made /\ Cardinality(CalledIds) = Len(calls)
<1> SUFFICES ASSUME BusKept PROVE CalledIds = Made /\ Cardinality(CalledIds) = Len(calls)
  OBVIOUS
<1> DEFINE f == [i \in 1 .. Len(calls) |-> calls[i].id]
<1>1. /\ calls \in Seq(BusRecords)
      /\ \A i, j \in 1 .. Len(calls) : calls[i].id = calls[j].id => i = j
  BY DEF BusKept, CallsKept
<1>2. DOMAIN calls = 1 .. Len(calls) /\ Len(calls) \in Nat
  BY <1>1
<1>3. CalledIds = Made
  BY <1>2 DEF CalledIds, Made
<1>4. f \in Bijection(1 .. Len(calls), Made)
  <2>1. \A i \in 1 .. Len(calls) : f[i] \in Made
    BY DEF Made
  <2>2. \A i, j \in 1 .. Len(calls) : f[i] = f[j] => i = j
    BY <1>1
  <2>3. \A id \in Made : \E i \in 1 .. Len(calls) : f[i] = id
    BY DEF Made
  <2> HIDE DEF f
  <2>4. f \in [1 .. Len(calls) -> Made]
    BY <2>1 DEF f
  <2>5. QED
    BY <2>2, <2>3, <2>4 DEF Bijection, Injection, Surjection, IsInjective
<1>5. Cardinality(Made) = Len(calls)
  BY <1>2, <1>4, FS_CountingElements DEF ExistsBijection
<1>6. QED
  BY <1>3, <1>5

\* What EmissionsKeepTheirWord says follows from BusKept.
LEMMA CallsAreRight == BusKept => EmissionsKeepTheirWord
<1> SUFFICES ASSUME BusKept PROVE EmissionsKeepTheirWord
  OBVIOUS
<1> DEFINE T == subscriptions
<1>1. /\ SubscriptionsKept(T, nSubscribed) /\ OrderKept(T, order) /\ SnapshotKept(T, nSubscribed)
      /\ CallsKept(T) /\ Emission
  BY DEF BusKept
<1>2. CalledIds \subseteq atStart
  BY <1>1, CallsCounted DEF CallsKept, Made
<1>3. ASSUME bEmitting, calling = NotCalling, iDispatch > Len(dispatchSnapshot),
             NEW h \in ToSet(order), Record(h).id \in atStart
      PROVE  Record(h).id \in CalledIds
  <2>1. /\ h \in BusHandles /\ Live(T, h) /\ HandleOf(T, h.iSlot) = h
    BY ListedHandles
  <2>2. h.iSlot \in 1 .. Len(T.slots) /\ T.slots[h.iSlot].bOccupied /\ T.slots[h.iSlot].value.id \in atStart
    BY <1>3, <2>1 DEF Live, Record, Get
  <2>3. PICK i \in 1 .. Len(dispatchSnapshot) : dispatchSnapshot[i] = h
    BY <1>1, <1>3, <2>1, <2>2 DEF SnapshotKept
  <2>4. i < iDispatch
    <3>1. iDispatch \in Nat /\ Len(dispatchSnapshot) \in Nat
      BY <1>1 DEF Emission, SnapshotKept
    <3>2. QED
      BY <1>3, <3>1
  <2>5. Get(T, h).id \in Made
    BY <1>1, <1>3, <2>1, <2>3, <2>4 DEF CallsKept, Record
  <2>6. QED
    BY <2>5, CallsCounted DEF Record
<1>4. PriorityThenArrival
  <2>1. SUFFICES ASSUME NEW i \in 1 .. Len(order), NEW j \in 1 .. Len(order), i < j
                 PROVE  InOrder(T, order[i], order[j])
    BY ListedHandles DEF PriorityThenArrival, InOrder, Record
  <2>2. QED
    BY <1>1, <2>1 DEF OrderKept
<1>5. OnceIsOnce
  <2>1. DOMAIN calls = 1 .. Len(calls)
    BY <1>1 DEF CallsKept
  <2>2. SUFFICES ASSUME calling = NotCalling, NEW i \in 1 .. Len(calls), NEW h \in ToSet(order),
                        calls[i].once, Record(h).id = calls[i].id
                 PROVE  FALSE
    BY <2>1 DEF OnceIsOnce
  <2>3. h.iSlot \in 1 .. Len(T.slots) /\ T.slots[h.iSlot].bOccupied
        /\ T.slots[h.iSlot].value.id = calls[i].id
    BY <2>2, ListedHandles DEF Live, Record, Get
  <2>4. QED
    BY <1>1, <2>2, <2>3 DEF CallsKept
<1>6. EmissionCallsSubscribers
  BY <1>2, <1>3, CallsCounted DEF EmissionCallsSubscribers
<1>7. QED
  BY <1>4, <1>5, <1>6 DEF EmissionsKeepTheirWord

\* BusKept is an invariant.
LEMMA BusKeeps == ESpec => []BusKept
  BY BusStarts, BusKeptStep, PTL DEF ESpec

\* The type invariant of the bus: the table and its order have the same handles,
\* after any failed subscription and any clear inside a callback, for any number of
\* subscriptions and any capacity.
THEOREM BusTyped == ESpec => []ETypeOK
  BY BusKeeps, BusTypes, PTL

\* EventBus_TryEmit: whatever the callbacks do to the bus, an emission calls only
\* subscriptions made before it began, each once at most and every one that is still
\* there, in the order of priority and age; one for one event is gone once it returned.
THEOREM EmissionsAlwaysKeepTheirWord == ESpec => []EmissionsKeepTheirWord
  BY BusKeeps, CallsAreRight, PTL

-----------------------------------------------------------------------------
(* The world and its submissions. *)

\* An object with the number of its incarnation, which no two objects of a world share.
Records == [object : Objects, incarnation : Nat]
Values == Records \cup {NoValue}

\* The table of objects is threaded, and no two occupied slots hold one incarnation.
WorldKept ==
  /\ gLastWorldSerial \in 0 .. WorldSerialMax
  /\ serial \in {0, gLastWorldSerial} /\ lastIncarnation \in 0 .. IncarnationMax
  /\ Threaded(objects, Values)
  /\ serial # 0 => Len(objects.slots) = WorldCapacity
  /\ \A k \in 1 .. Len(objects.slots) : objects.slots[k].bOccupied =>
       objects.slots[k].value \in Records /\ objects.slots[k].value.incarnation \in 1 .. lastIncarnation
  /\ \A k, m \in 1 .. Len(objects.slots) :
       /\ objects.slots[k].bOccupied /\ objects.slots[m].bOccupied
       /\ objects.slots[k].value.incarnation = objects.slots[m].value.incarnation
       => k = m

Ids == [id : [slot : [iSlot : Nat, nGeneration : Nat], worldSerial : Nat, incarnation : Nat],
        present : BOOLEAN]

\* What is known of every id given out: it is from a world that was, names one
\* incarnation alone, and resolves as long as its object is present and only then.
IdsKept ==
  /\ ids \subseteq Ids
  /\ \A i \in ids : i.id.worldSerial \in 1 .. gLastWorldSerial
  /\ \A i \in ids : i.id.worldSerial = serial => i.id.incarnation <= lastIncarnation
  /\ \A i, j \in ids :
       i.id.worldSerial = j.id.worldSerial /\ i.id.incarnation = j.id.incarnation => i = j
  /\ \A i \in ids : i.present =>
       /\ i.id.worldSerial = serial
       /\ i.id.slot.iSlot \in 1 .. Len(objects.slots) /\ objects.slots[i.id.slot.iSlot].bOccupied
       /\ objects.slots[i.id.slot.iSlot].nGeneration = i.id.slot.nGeneration
       /\ objects.slots[i.id.slot.iSlot].value.incarnation = i.id.incarnation
  /\ \A i \in ids : ~i.present /\ i.id.worldSerial = serial =>
       \A k \in 1 .. Len(objects.slots) : objects.slots[k].bOccupied =>
         objects.slots[k].value.incarnation # i.id.incarnation

\* A token with what could be read through it when it was made.
Tokens == [token : [storageSerial : Nat, generation : Nat], seen : Seq(Records), ended : BOOLEAN]

\* What is known of the submission and of every token: a token that is current reads
\* what was built for it and was not ended.
SubmissionKept ==
  /\ gLastSubmissionSerial \in 0 .. SubmissionSerialMax
  /\ submission \in [serial : {0, gLastSubmissionSerial}, generation : Nat, active : BOOLEAN,
                     count : 0 .. SubmissionCapacity, pRecords : Seq(Records)]
  /\ submission.count <= Len(submission.pRecords)
  /\ tokens \subseteq Tokens
  /\ \A t \in tokens : t.token.storageSerial \in 1 .. gLastSubmissionSerial
  /\ \A t \in tokens : t.token.storageSerial = submission.serial =>
       t.token.generation <= submission.generation
  /\ \A t \in tokens : IsCurrentToken(t.token) =>
       ~t.ended /\ SubSeq(submission.pRecords, 1, submission.count) = t.seen

\* The inductive invariant of World.
WorldInv == WorldKept /\ IdsKept /\ SubmissionKept

\* The invariant of the world holds initially.
LEMMA WorldStarts == WInit => WorldInv
<1> SUFFICES ASSUME WInit PROVE WorldInv
  OBVIOUS
<1>1. WorldKept
  <2>1. Threaded(EmptyTable, Values) /\ Len(EmptyTable.slots) = 0
    BY EmptyThreads DEF EmptyTable
  <2>2. QED
    BY <2>1, WorldAssumption DEF WInit, WorldKept
<1>2. IdsKept
  BY DEF WInit, IdsKept
<1>3. SubmissionKept
  <2>1. << >> \in Seq(Records) /\ Len(<< >>) = 0
    OBVIOUS
  <2>2. QED
    BY <2>1, WorldAssumption DEF WInit, SubmissionKept, NoSubmission
<1>4. QED
  BY <1>1, <1>2, <1>3 DEF WorldInv

\* The table of a world is threaded.
LEMMA WorldTable ==
  ASSUME WorldKept
  PROVE  /\ Threaded(objects, Values) /\ objects.slots \in Seq(Slot(Values)) /\ NoValue \in Values
         /\ Len(objects.slots) \in Nat
         /\ Occupied(objects) = {k \in 1 .. Len(objects.slots) : objects.slots[k].bOccupied}
<1>1. Threaded(objects, Values) /\ objects.slots \in Seq(Slot(Values)) /\ NoValue \in Values
  BY DEF WorldKept, Threaded, Values
<1>2. QED
  BY <1>1, OccupiedSlots

\* An id that resolves does so to an occupied slot of the world it was made in.
LEMMA LiveIds ==
  ASSUME WorldKept, NEW id, IsLiveId(id)
  PROVE  /\ id.worldSerial = serial /\ id.slot.iSlot \in 1 .. Len(objects.slots)
         /\ objects.slots[id.slot.iSlot].bOccupied
         /\ objects.slots[id.slot.iSlot].nGeneration = id.slot.nGeneration
         /\ objects.slots[id.slot.iSlot].value.incarnation = id.incarnation
  BY WorldTable DEF IsLiveId, Resolves, Get

\* An id names the object it was made for, or nothing.
LEMMA IdsNamed == WorldKept /\ IdsKept => IdsNameTheirObject
<1> SUFFICES ASSUME WorldKept, IdsKept, NEW i \in ids PROVE IsLiveId(i.id) <=> i.present
  BY DEF IdsNameTheirObject
<1>1. i.present \in BOOLEAN
  BY DEF IdsKept, Ids
<1>2. ASSUME i.present PROVE IsLiveId(i.id)
  <2>1. /\ i.id.worldSerial = serial
        /\ i.id.slot.iSlot \in 1 .. Len(objects.slots) /\ objects.slots[i.id.slot.iSlot].bOccupied
        /\ objects.slots[i.id.slot.iSlot].nGeneration = i.id.slot.nGeneration
        /\ objects.slots[i.id.slot.iSlot].value.incarnation = i.id.incarnation
    BY <1>2 DEF IdsKept
  <2>2. QED
    BY <2>1, WorldTable DEF IsLiveId, Resolves, Get
<1>3. ASSUME IsLiveId(i.id), ~i.present PROVE FALSE
  BY <1>3, LiveIds DEF IdsKept
<1>4. QED
  BY <1>1, <1>2, <1>3

\* An id whose object was removed is still the same id.
LEMMA IdGivenUp ==
  ASSUME NEW i \in Ids
  PROVE  /\ [i EXCEPT !.present = FALSE] \in Ids /\ [i EXCEPT !.present = FALSE].id = i.id
         /\ ~[i EXCEPT !.present = FALSE].present
  BY DEF Ids

\* World_Init makes a world with a serial of its own, which no id has.
LEMMA WorldInitKeeps ==
  ASSUME WorldKept, IdsKept, World_Init
  PROVE  WorldKept' /\ IdsKept'
<1>1. /\ serial' = gLastWorldSerial + 1 /\ gLastWorldSerial' = serial' /\ serial = 0
      /\ gLastWorldSerial \in Nat /\ serial' \in 1 .. WorldSerialMax
      /\ lastIncarnation' = 0 /\ ids' = ids
  BY WorldAssumption DEF WorldKept, World_Init
<1>2. /\ Threaded(objects', Values) /\ Len(objects'.slots) = WorldCapacity
      /\ \A k \in 1 .. Len(objects'.slots) : ~objects'.slots[k].bOccupied
  <2>1. NoValue \in Values /\ WorldCapacity \in Nat /\ objects' = Reserved(EmptyTable, WorldCapacity)
    BY <1>1, WorldAssumption DEF World_Init, Values
  <2>2. /\ Threaded(objects', Values) /\ Len(objects'.slots) = WorldCapacity
        /\ \A k \in 1 .. WorldCapacity : ~objects'.slots[k].bOccupied
    BY <2>1, FreshThreads
  <2>3. QED
    BY <2>2
<1>3. WorldKept'
  BY <1>1, <1>2, WorldAssumption DEF WorldKept
<1>4. \A i \in ids : i.id.worldSerial \in 1 .. gLastWorldSerial /\ i.id.worldSerial # serial' /\ i.id.worldSerial # serial
  BY <1>1 DEF IdsKept
<1>5. IdsKept'
  BY <1>1, <1>4 DEF IdsKept
<1>6. QED
  BY <1>3, <1>5

\* World_Shutdown gives every id up.
LEMMA WorldShutdownKeeps ==
  ASSUME WorldKept, IdsKept, World_Shutdown
  PROVE  WorldKept' /\ IdsKept'
<1>1. serial' = 0 /\ lastIncarnation' = 0 /\ objects' = EmptyTable /\ gLastWorldSerial' = gLastWorldSerial
      /\ ids' = {[i EXCEPT !.present = FALSE] : i \in ids}
  BY DEF World_Shutdown
<1>2. Threaded(objects', Values) /\ Len(objects'.slots) = 0
  BY <1>1, EmptyThreads DEF EmptyTable
<1>3. WorldKept'
  BY <1>1, <1>2, WorldAssumption DEF WorldKept
<1>4. ASSUME NEW j \in ids'
      PROVE  j \in Ids /\ ~j.present /\ \E i \in ids : j = [i EXCEPT !.present = FALSE] /\ j.id = i.id
  <2>1. PICK i \in ids : j = [i EXCEPT !.present = FALSE]
    BY <1>1
  <2>2. i \in Ids
    BY DEF IdsKept
  <2>3. QED
    BY <2>1, <2>2, IdGivenUp
<1>5. \A j \in ids' : j.id.worldSerial \in 1 .. gLastWorldSerial /\ j.id.worldSerial # serial'
  BY <1>1, <1>4 DEF IdsKept, WorldKept
<1>6. ASSUME NEW j \in ids', NEW k \in ids', j.id.worldSerial = k.id.worldSerial,
             j.id.incarnation = k.id.incarnation
      PROVE  j = k
  <2>1. PICK i \in ids : j = [i EXCEPT !.present = FALSE] /\ j.id = i.id
    BY <1>4
  <2>2. PICK h \in ids : k = [h EXCEPT !.present = FALSE] /\ k.id = h.id
    BY <1>4
  <2>3. i = h
    BY <1>6, <2>1, <2>2 DEF IdsKept
  <2>4. QED
    BY <2>1, <2>2, <2>3
<1>7. IdsKept'
  BY <1>1, <1>4, <1>5, <1>6 DEF IdsKept
<1>8. QED
  BY <1>3, <1>7

\* World_AddObject occupies a free slot for a new incarnation.
LEMMA AddObjectKeeps ==
  ASSUME WorldKept, IdsKept, World_AddObject
  PROVE  WorldKept' /\ IdsKept'
<1> DEFINE h == Head(objects.free)
           L == Len(objects.slots)
           n == lastIncarnation + 1
           new == [id |-> [slot |-> HandleOf(objects, h), worldSerial |-> serial, incarnation |-> n],
                   present |-> TRUE]
<1>1. /\ serial # 0 /\ lastIncarnation' = n /\ n \in 1 .. IncarnationMax /\ lastIncarnation \in Nat
      /\ ids' = ids \cup {new} /\ UNCHANGED <<gLastWorldSerial, serial>>
  BY WorldAssumption DEF World_AddObject, WorldKept
<1>2. PICK o \in Objects : objects' = Emplace(objects, [object |-> o, incarnation |-> n])
  BY <1>1 DEF World_AddObject
<1>3. [object |-> o, incarnation |-> n] \in Records /\ [object |-> o, incarnation |-> n] \in Values
  BY <1>1 DEF Records, Values
<1>4. objects.free # << >>
  <2>1. Threaded(objects, Values) /\ Count(objects) < L
    BY <1>1, WorldTable DEF World_AddObject, WorldKept
  <2>2. QED
    BY <2>1, RoomLeft
<1>5. /\ Threaded(objects', Values) /\ h \in 1 .. L /\ ~objects.slots[h].bOccupied
      /\ Len(objects'.slots) = L
      /\ \A k \in 1 .. L : objects'.slots[k] =
           IF k = h THEN Taken(objects.slots[k], [object |-> o, incarnation |-> n]) ELSE objects.slots[k]
  BY <1>2, <1>3, <1>4, WorldTable, EmplaceThreads
<1>6. /\ objects'.slots[h].bOccupied
      /\ objects'.slots[h].nGeneration = objects.slots[h].nGeneration
      /\ objects'.slots[h].value \in Records /\ objects'.slots[h].value.incarnation = n
      /\ \A k \in 1 .. L : k # h => objects'.slots[k] = objects.slots[k]
  <2> DEFINE v == [object |-> o, incarnation |-> n]
  <2>1. objects'.slots[h] = Taken(objects.slots[h], v) /\ v \in Records /\ v.incarnation = n
    BY <1>3, <1>5
  <2> HIDE DEF v
  <2>2. objects'.slots[h].value = v /\ objects'.slots[h].bOccupied
        /\ objects'.slots[h].nGeneration = objects.slots[h].nGeneration
    BY <2>1 DEF Taken
  <2>3. QED
    BY <1>5, <2>1, <2>2
<1>7. /\ new.id.worldSerial = serial /\ new.id.incarnation = n /\ new.present
      /\ new.id.slot.iSlot = h /\ new.id.slot.nGeneration = objects.slots[h].nGeneration
  BY DEF HandleOf
<1>8. new \in Ids
  <2>1. h \in Nat /\ objects.slots[h].nGeneration \in Nat /\ serial \in Nat /\ n \in Nat
    BY <1>1, <1>5, WorldTable, SlotsShape, WorldAssumption DEF WorldKept
  <2>2. QED
    BY <2>1 DEF Ids, HandleOf
<1> HIDE DEF h, L, n, new
<1>9. \A k \in 1 .. L : objects.slots[k].bOccupied =>
        objects.slots[k].value \in Records /\ objects.slots[k].value.incarnation \in 1 .. lastIncarnation
  BY DEF WorldKept, L
<1>n. \A m \in 1 .. lastIncarnation : m \in 1 .. n /\ m # n
  BY <1>1 DEF n
<1>10. WorldKept'
  <2>1. \A k \in 1 .. L : objects'.slots[k].bOccupied =>
          objects'.slots[k].value \in Records /\ objects'.slots[k].value.incarnation \in 1 .. n
    BY <1>1, <1>6, <1>9, <1>n
  <2>2. ASSUME NEW k \in 1 .. L, NEW m \in 1 .. L, objects'.slots[k].bOccupied, objects'.slots[m].bOccupied,
               objects'.slots[k].value.incarnation = objects'.slots[m].value.incarnation
        PROVE  k = m
    <3>1. CASE k # h /\ m # h
      BY <1>6, <2>2, <3>1 DEF WorldKept, L
    <3>2. CASE k = h \/ m = h
      BY <1>6, <1>9, <1>n, <2>2, <3>2
    <3>3. QED
      BY <3>1, <3>2
  <2>3. serial # 0 => L = WorldCapacity
    BY DEF WorldKept, L
  <2>4. /\ gLastWorldSerial \in 0 .. WorldSerialMax /\ serial \in {0, gLastWorldSerial}
        /\ n \in 0 .. IncarnationMax
    BY <1>1 DEF WorldKept
  <2>5. QED
    BY <1>1, <1>5, <2>1, <2>2, <2>3, <2>4 DEF WorldKept
<1>11. IdsKept'
  <2>1. \A i \in ids : i.id.worldSerial = serial => i.id.incarnation <= lastIncarnation /\ i.id.incarnation \in Nat
    BY DEF IdsKept, Ids
  <2>2. \A i \in ids : i.id.worldSerial = serial => i.id.incarnation <= n /\ i.id.incarnation # n
    BY <1>1, <2>1 DEF n
  <2>3. ids' \subseteq Ids /\ \A i \in ids' : i.id.worldSerial \in 1 .. gLastWorldSerial
    BY <1>1, <1>7, <1>8 DEF IdsKept, WorldKept
  <2>4. \A i \in ids' : i.id.worldSerial = serial => i.id.incarnation <= n
    BY <1>1, <1>7, <2>2
  <2>5. \A i, j \in ids' :
          i.id.worldSerial = j.id.worldSerial /\ i.id.incarnation = j.id.incarnation => i = j
    BY <1>1, <1>7, <2>2 DEF IdsKept
  <2>6. ASSUME NEW i \in ids', i.present
        PROVE  /\ i.id.worldSerial = serial
               /\ i.id.slot.iSlot \in 1 .. L /\ objects'.slots[i.id.slot.iSlot].bOccupied
               /\ objects'.slots[i.id.slot.iSlot].nGeneration = i.id.slot.nGeneration
               /\ objects'.slots[i.id.slot.iSlot].value.incarnation = i.id.incarnation
    <3>1. CASE i = new
      BY <1>5, <1>6, <1>7, <3>1
    <3>2. CASE i \in ids
      <4>1. /\ i.id.worldSerial = serial
            /\ i.id.slot.iSlot \in 1 .. L /\ objects.slots[i.id.slot.iSlot].bOccupied
            /\ objects.slots[i.id.slot.iSlot].nGeneration = i.id.slot.nGeneration
            /\ objects.slots[i.id.slot.iSlot].value.incarnation = i.id.incarnation
        BY <2>6, <3>2 DEF IdsKept, L
      <4>2. i.id.slot.iSlot # h
        BY <1>5, <4>1
      <4>3. QED
        BY <1>6, <4>1, <4>2
    <3>3. QED
      BY <1>1, <3>1, <3>2
  <2>7. ASSUME NEW i \in ids', ~i.present, i.id.worldSerial = serial,
               NEW k \in 1 .. L, objects'.slots[k].bOccupied
        PROVE  objects'.slots[k].value.incarnation # i.id.incarnation
    <3>1. i \in ids
      BY <1>1, <1>7, <2>7
    <3>2. CASE k = h
      BY <1>6, <2>2, <2>7, <3>1, <3>2
    <3>3. CASE k # h
      BY <1>6, <2>7, <3>1, <3>3 DEF IdsKept, L
    <3>4. QED
      BY <3>2, <3>3
  <2>8. QED
    BY <1>1, <1>5, <2>3, <2>4, <2>5, <2>6, <2>7 DEF IdsKept
<1>12. QED
  BY <1>10, <1>11

\* World_RemoveObject gives the id up and moves the slot on by a generation.
LEMMA RemoveObjectKeeps ==
  ASSUME WorldKept, IdsKept, World_RemoveObject
  PROVE  WorldKept' /\ IdsKept'
<1>1. PICK g \in ids :
        /\ IsLiveId(g.id) /\ objects' = Removed(objects, g.id.slot)
        /\ ids' = (ids \ {g}) \cup {[g EXCEPT !.present = FALSE]}
  BY DEF World_RemoveObject
<1> DEFINE h == g.id.slot.iSlot
           L == Len(objects.slots)
           new == [g EXCEPT !.present = FALSE]
<1>2. UNCHANGED <<gLastWorldSerial, serial, lastIncarnation>>
  BY DEF World_RemoveObject
<1>3. /\ g.id.worldSerial = serial /\ h \in 1 .. L /\ objects.slots[h].bOccupied
      /\ objects.slots[h].value.incarnation = g.id.incarnation
  BY <1>1, LiveIds
<1>4. /\ Threaded(objects', Values) /\ Len(objects'.slots) = L
      /\ \A k \in 1 .. L : objects'.slots[k] = IF k = h THEN Vacated(objects.slots[k]) ELSE objects.slots[k]
  BY <1>1, <1>3, WorldTable, RemovedThreads
<1>5. ~objects'.slots[h].bOccupied /\ \A k \in 1 .. L : k # h => objects'.slots[k] = objects.slots[k]
  <2>1. objects'.slots[h] = Vacated(objects.slots[h])
    BY <1>3, <1>4
  <2>2. ~objects'.slots[h].bOccupied
    BY <2>1 DEF Vacated
  <2>3. QED
    BY <1>4, <2>2
<1>6. new \in Ids /\ new.id = g.id /\ ~new.present
  BY IdGivenUp DEF IdsKept
<1> HIDE DEF h, L, new
<1>7. ids' = (ids \ {g}) \cup {new}
  BY <1>1 DEF new
<1>8. WorldKept'
  <2>1. \A k \in 1 .. L : objects'.slots[k].bOccupied => k # h /\ objects'.slots[k] = objects.slots[k]
    BY <1>5
  <2>2. /\ \A k \in 1 .. L : objects'.slots[k].bOccupied =>
             objects'.slots[k].value \in Records /\ objects'.slots[k].value.incarnation \in 1 .. lastIncarnation
        /\ \A k, m \in 1 .. L :
             /\ objects'.slots[k].bOccupied /\ objects'.slots[m].bOccupied
             /\ objects'.slots[k].value.incarnation = objects'.slots[m].value.incarnation
             => k = m
    BY <2>1 DEF WorldKept, L
  <2>3. serial # 0 => L = WorldCapacity
    BY DEF WorldKept, L
  <2>4. /\ gLastWorldSerial \in 0 .. WorldSerialMax /\ serial \in {0, gLastWorldSerial}
        /\ lastIncarnation \in 0 .. IncarnationMax
    BY DEF WorldKept
  <2>5. QED
    BY <1>2, <1>4, <2>2, <2>3, <2>4 DEF WorldKept
<1>9. IdsKept'
  <2>1. ids' \subseteq Ids /\ \A i \in ids' : i.id.worldSerial \in 1 .. gLastWorldSerial
    BY <1>6, <1>7 DEF IdsKept
  <2>2. \A i \in ids' : i.id.worldSerial = serial => i.id.incarnation <= lastIncarnation
    BY <1>6, <1>7 DEF IdsKept
  <2>3. \A i, j \in ids' :
          i.id.worldSerial = j.id.worldSerial /\ i.id.incarnation = j.id.incarnation => i = j
    <3> SUFFICES ASSUME NEW i \in ids', NEW j \in ids', i.id.worldSerial = j.id.worldSerial,
                        i.id.incarnation = j.id.incarnation
                 PROVE  i = j
      OBVIOUS
    <3>1. \A k \in ids' : k = new \/ (k \in ids /\ k # g)
      BY <1>7
    <3>2. \A k \in ids : k.id.worldSerial = g.id.worldSerial /\ k.id.incarnation = g.id.incarnation => k = g
      BY DEF IdsKept
    <3>3. CASE i = new \/ j = new
      BY <1>6, <3>1, <3>2, <3>3
    <3>4. CASE i \in ids /\ j \in ids
      BY <3>4 DEF IdsKept
    <3>5. QED
      BY <3>1, <3>3, <3>4
  <2>4. ASSUME NEW i \in ids', i.present
        PROVE  /\ i.id.worldSerial = serial
               /\ i.id.slot.iSlot \in 1 .. L /\ objects'.slots[i.id.slot.iSlot].bOccupied
               /\ objects'.slots[i.id.slot.iSlot].nGeneration = i.id.slot.nGeneration
               /\ objects'.slots[i.id.slot.iSlot].value.incarnation = i.id.incarnation
    <3>1. i \in ids /\ i # g
      BY <1>6, <1>7, <2>4
    <3>2. /\ i.id.worldSerial = serial
          /\ i.id.slot.iSlot \in 1 .. L /\ objects.slots[i.id.slot.iSlot].bOccupied
          /\ objects.slots[i.id.slot.iSlot].nGeneration = i.id.slot.nGeneration
          /\ objects.slots[i.id.slot.iSlot].value.incarnation = i.id.incarnation
      BY <2>4, <3>1 DEF IdsKept, L
    <3>3. i.id.slot.iSlot # h
      <4>1. SUFFICES ASSUME i.id.slot.iSlot = h PROVE FALSE
        OBVIOUS
      <4>2. i.id.incarnation = g.id.incarnation /\ i.id.worldSerial = g.id.worldSerial
        BY <1>3, <3>2, <4>1
      <4>3. i = g
        BY <3>1, <4>2 DEF IdsKept
      <4>4. QED
        BY <3>1, <4>3
    <3>4. QED
      BY <1>5, <3>2, <3>3
  <2>5. ASSUME NEW i \in ids', ~i.present, i.id.worldSerial = serial,
               NEW k \in 1 .. L, objects'.slots[k].bOccupied
        PROVE  objects'.slots[k].value.incarnation # i.id.incarnation
    <3>1. k # h /\ objects'.slots[k] = objects.slots[k] /\ objects.slots[k].bOccupied
      BY <1>5, <2>5
    <3>2. CASE i = new
      BY <1>3, <1>6, <3>1, <3>2 DEF WorldKept, L
    <3>3. CASE i \in ids
      BY <2>5, <3>1, <3>3 DEF IdsKept, L
    <3>4. QED
      BY <1>7, <3>2, <3>3
  <2>6. QED
    BY <1>2, <1>4, <2>1, <2>2, <2>3, <2>4, <2>5 DEF IdsKept
<1>10. QED
  BY <1>8, <1>9

\* World_UpdateObject replaces the value under the same id.
LEMMA UpdateObjectKeeps ==
  ASSUME WorldKept, IdsKept, World_UpdateObject
  PROVE  WorldKept' /\ IdsKept'
<1>1. PICK g \in ids, o \in Objects :
        /\ IsLiveId(g.id)
        /\ objects' = Assigned(objects, g.id.slot,
                               [object |-> o, incarnation |-> Get(objects, g.id.slot).incarnation])
  BY DEF World_UpdateObject
<1> DEFINE h == g.id.slot.iSlot
           L == Len(objects.slots)
           v == [object |-> o, incarnation |-> objects.slots[h].value.incarnation]
<1>2. UNCHANGED <<gLastWorldSerial, serial, lastIncarnation, ids>>
  BY DEF World_UpdateObject
<1>3. h \in 1 .. L /\ objects.slots[h].bOccupied
  BY <1>1, LiveIds
<1>4. v \in Records /\ v.incarnation = objects.slots[h].value.incarnation
  BY <1>3 DEF WorldKept, Records
<1>5. objects' = Assigned(objects, g.id.slot, v)
  BY <1>1 DEF Get
<1> HIDE DEF v
<1>6. /\ Threaded(objects', Values) /\ Len(objects'.slots) = L
      /\ \A k \in 1 .. L : objects'.slots[k] = IF k = h THEN Taken(objects.slots[k], v) ELSE objects.slots[k]
  <2>1. v \in Values
    BY <1>4 DEF Values
  <2>2. QED
    BY <1>3, <1>5, <2>1, WorldTable, AssignedThreads
<1> HIDE DEF h, L
<1>7. \A k \in 1 .. L :
        /\ objects'.slots[k].bOccupied <=> objects.slots[k].bOccupied
        /\ objects'.slots[k].nGeneration = objects.slots[k].nGeneration
        /\ objects'.slots[k].value.incarnation = objects.slots[k].value.incarnation
        /\ objects'.slots[k].value = IF k = h THEN v ELSE objects.slots[k].value
  <2> SUFFICES ASSUME NEW k \in 1 .. L
               PROVE  /\ objects'.slots[k].bOccupied <=> objects.slots[k].bOccupied
                      /\ objects'.slots[k].nGeneration = objects.slots[k].nGeneration
                      /\ objects'.slots[k].value.incarnation = objects.slots[k].value.incarnation
                      /\ objects'.slots[k].value = IF k = h THEN v ELSE objects.slots[k].value
    OBVIOUS
  <2>1. CASE k = h
    <3>1. objects'.slots[k] = Taken(objects.slots[k], v)
      BY <1>6, <2>1
    <3>2. QED
      BY <1>3, <1>4, <2>1, <3>1 DEF Taken
  <2>2. CASE k # h
    BY <1>6, <2>2
  <2>3. QED
    BY <2>1, <2>2
<1>8. WorldKept'
  <2>1. /\ \A k \in 1 .. L : objects'.slots[k].bOccupied =>
             objects'.slots[k].value \in Records /\ objects'.slots[k].value.incarnation \in 1 .. lastIncarnation
        /\ \A k, m \in 1 .. L :
             /\ objects'.slots[k].bOccupied /\ objects'.slots[m].bOccupied
             /\ objects'.slots[k].value.incarnation = objects'.slots[m].value.incarnation
             => k = m
    BY <1>4, <1>7 DEF WorldKept, L
  <2>2. serial # 0 => L = WorldCapacity
    BY DEF WorldKept, L
  <2>3. /\ gLastWorldSerial \in 0 .. WorldSerialMax /\ serial \in {0, gLastWorldSerial}
        /\ lastIncarnation \in 0 .. IncarnationMax
    BY DEF WorldKept
  <2>4. QED
    BY <1>2, <1>6, <2>1, <2>2, <2>3 DEF WorldKept
<1>9. IdsKept'
  <2>1. \A i \in ids : i.present =>
          /\ i.id.worldSerial = serial
          /\ i.id.slot.iSlot \in 1 .. L /\ objects'.slots[i.id.slot.iSlot].bOccupied
          /\ objects'.slots[i.id.slot.iSlot].nGeneration = i.id.slot.nGeneration
          /\ objects'.slots[i.id.slot.iSlot].value.incarnation = i.id.incarnation
    BY <1>7 DEF IdsKept, L
  <2>2. \A i \in ids : ~i.present /\ i.id.worldSerial = serial =>
          \A k \in 1 .. L : objects'.slots[k].bOccupied =>
            objects'.slots[k].value.incarnation # i.id.incarnation
    BY <1>7 DEF IdsKept, L
  <2>3. /\ ids \subseteq Ids
        /\ \A i \in ids : i.id.worldSerial \in 1 .. gLastWorldSerial
        /\ \A i \in ids : i.id.worldSerial = serial => i.id.incarnation <= lastIncarnation
        /\ \A i, j \in ids :
             i.id.worldSerial = j.id.worldSerial /\ i.id.incarnation = j.id.incarnation => i = j
    BY DEF IdsKept
  <2>4. QED
    BY <1>2, <1>6, <2>1, <2>2, <2>3 DEF IdsKept
<1>10. QED
  BY <1>8, <1>9

\* Submissions leave the world as it is.
LEMMA WorldUnmoved ==
  ASSUME WorldKept, IdsKept, UNCHANGED world PROVE WorldKept' /\ IdsKept'
  BY DEF world, WorldKept, IdsKept

\* What a build changes of the storage.
LEMMA BuiltFields ==
  ASSUME NEW A, NEW C, NEW D,
         NEW s \in [serial : A, generation : Nat, active : BOOLEAN, count : C, pRecords : D],
         NEW g \in Nat, NEW c \in C, NEW p \in D
  PROVE  LET r == [s EXCEPT !.pRecords = p, !.count = c, !.generation = g, !.active = TRUE]
         IN  /\ r \in [serial : A, generation : Nat, active : BOOLEAN, count : C, pRecords : D]
             /\ r.serial = s.serial /\ r.generation = g /\ r.pRecords = p /\ r.count = c
  OBVIOUS

\* What the end of a submission changes of the storage.
LEMMA EndedFields ==
  ASSUME NEW A, NEW C, NEW D,
         NEW s \in [serial : A, generation : Nat, active : BOOLEAN, count : C, pRecords : D],
         0 \in C
  PROVE  LET r == [s EXCEPT !.active = FALSE, !.count = 0]
         IN  /\ r \in [serial : A, generation : Nat, active : BOOLEAN, count : C, pRecords : D]
             /\ r.serial = s.serial /\ r.generation = s.generation /\ r.pRecords = s.pRecords
             /\ ~r.active /\ r.count = 0
  OBVIOUS

\* The storage of a new submission.
LEMMA NewFields ==
  ASSUME NEW A, NEW C, NEW D, NEW n \in A, 0 \in C, << >> \in D
  PROVE  LET r == [NoSubmission EXCEPT !.serial = n]
         IN  /\ r \in [serial : A, generation : Nat, active : BOOLEAN, count : C, pRecords : D]
             /\ r.serial = n /\ ~r.active /\ r.count = 0 /\ r.pRecords = << >>
  BY DEF NoSubmission

\* Calls on the world leave the submission and its tokens as they are.
LEMMA SubmissionUnmoved ==
  ASSUME SubmissionKept, UNCHANGED submitted PROVE SubmissionKept'
  BY DEF submitted, SubmissionKept, IsCurrentToken

\* WorldSubmission_Init takes a serial that no token has.
LEMMA SubmissionInitKeeps ==
  ASSUME SubmissionKept, WorldSubmission_Init PROVE SubmissionKept'
<1>1. /\ gLastSubmissionSerial' = gLastSubmissionSerial + 1 /\ tokens' = tokens
      /\ submission' = [NoSubmission EXCEPT !.serial = gLastSubmissionSerial']
      /\ gLastSubmissionSerial' \in 1 .. SubmissionSerialMax /\ gLastSubmissionSerial \in Nat
  BY WorldAssumption DEF SubmissionKept, WorldSubmission_Init
<1>2. /\ submission'.serial = gLastSubmissionSerial' /\ ~submission'.active
      /\ submission'.count = 0 /\ submission'.pRecords = << >>
      /\ submission' \in [serial : {0, gLastSubmissionSerial'}, generation : Nat, active : BOOLEAN,
                         count : 0 .. SubmissionCapacity, pRecords : Seq(Records)]
  <2>1. 0 \in 0 .. SubmissionCapacity /\ << >> \in Seq(Records)
        /\ gLastSubmissionSerial' \in {0, gLastSubmissionSerial'}
    BY WorldAssumption, EmptySeq
  <2>2. QED
    BY <1>1, <2>1, NewFields
<1>3. \A t \in tokens :
        /\ t.token.storageSerial \in 1 .. gLastSubmissionSerial'
        /\ t.token.storageSerial # submission'.serial /\ ~IsCurrentToken(t.token)'
  BY <1>1, <1>2 DEF SubmissionKept, IsCurrentToken
<1>4. QED
  BY <1>1, <1>2, <1>3, EmptySeq DEF SubmissionKept

\* WorldSubmission_Shutdown leaves no token current.
LEMMA SubmissionShutdownKeeps ==
  ASSUME SubmissionKept, WorldSubmission_Shutdown PROVE SubmissionKept'
<1>1. submission' = NoSubmission /\ tokens' = tokens /\ gLastSubmissionSerial' = gLastSubmissionSerial
  BY DEF WorldSubmission_Shutdown
<1>2. /\ submission'.serial = 0 /\ ~submission'.active
      /\ submission'.count = 0 /\ submission'.pRecords = << >>
      /\ submission' \in [serial : {0, gLastSubmissionSerial}, generation : Nat, active : BOOLEAN,
                         count : 0 .. SubmissionCapacity, pRecords : Seq(Records)]
  BY <1>1, WorldAssumption, EmptySeq DEF NoSubmission
<1>3. \A t \in tokens : t.token.storageSerial # submission'.serial /\ ~IsCurrentToken(t.token)'
  BY <1>2, WorldAssumption DEF SubmissionKept, IsCurrentToken
<1>4. QED
  BY <1>1, <1>2, <1>3, EmptySeq DEF SubmissionKept

\* WorldSubmission_End ends the token that was current.
LEMMA SubmissionEndKeeps ==
  ASSUME SubmissionKept, WorldSubmission_End PROVE SubmissionKept'
<1>1. /\ submission' = [submission EXCEPT !.active = FALSE, !.count = 0]
      /\ tokens' = {[t EXCEPT !.ended = TRUE] : t \in tokens}
      /\ gLastSubmissionSerial' = gLastSubmissionSerial
  BY DEF WorldSubmission_End
<1>2. /\ submission' \in [serial : {0, gLastSubmissionSerial}, generation : Nat, active : BOOLEAN,
                         count : 0 .. SubmissionCapacity, pRecords : Seq(Records)]
      /\ submission'.serial = submission.serial /\ submission'.generation = submission.generation
      /\ submission'.pRecords = submission.pRecords /\ ~submission'.active /\ submission'.count = 0
  <2>1. submission \in [serial : {0, gLastSubmissionSerial}, generation : Nat, active : BOOLEAN,
                       count : 0 .. SubmissionCapacity, pRecords : Seq(Records)]
        /\ 0 \in 0 .. SubmissionCapacity
    BY WorldAssumption DEF SubmissionKept
  <2>2. QED
    BY <1>1, <2>1, EndedFields
<1>3. ASSUME NEW u \in tokens' PROVE u \in Tokens /\ \E t \in tokens : u.token = t.token
  <2>1. PICK t \in tokens : u = [t EXCEPT !.ended = TRUE]
    BY <1>1
  <2>2. t \in Tokens
    BY DEF SubmissionKept
  <2>3. QED
    BY <2>1, <2>2 DEF Tokens
<1>4. submission'.count <= Len(submission'.pRecords)
  <2>1. Len(submission.pRecords) \in Nat
    BY DEF SubmissionKept
  <2>2. QED
    BY <1>2, <2>1
<1>5. \A u \in tokens' : ~IsCurrentToken(u.token)'
  BY <1>2 DEF IsCurrentToken
<1>6. \A u \in tokens' :
        /\ u.token.storageSerial \in 1 .. gLastSubmissionSerial
        /\ u.token.storageSerial = submission.serial => u.token.generation <= submission.generation
  BY <1>3 DEF SubmissionKept
<1>7. gLastSubmissionSerial \in 0 .. SubmissionSerialMax
  BY DEF SubmissionKept
<1>8. QED
  BY <1>1, <1>2, <1>3, <1>4, <1>5, <1>6, <1>7 DEF SubmissionKept

\* A view is a sequence of the records of the world.
LEMMA ViewsAreLists ==
  ASSUME WorldKept, NEW accepted
  PROVE  QueryView(accepted) \in Seq(Records)
<1> DEFINE seen == {i \in Occupied(objects) : objects.slots[i].value.object \in accepted}
<1>1. seen \subseteq Nat /\ IsFiniteSet(seen) /\ seen \subseteq Occupied(objects)
  <2>1. IsFiniteSet(1 .. Len(objects.slots)) /\ seen \subseteq 1 .. Len(objects.slots)
    <3>1. Len(objects.slots) \in Nat /\ Occupied(objects) \subseteq 1 .. Len(objects.slots)
      BY WorldTable
    <3>2. QED
      BY <3>1, FS_Interval
  <2>2. QED
    BY <2>1, FS_Subset
<1>2. QueryView(accepted) = [n \in 1 .. Cardinality(seen) |-> objects.slots[Ascending(seen)[n]].value]
  BY DEF QueryView
<1>3. \A i \in seen : objects.slots[i].value \in Records
  BY <1>1, WorldTable DEF WorldKept
<1> HIDE DEF seen
<1>4. /\ Ascending(seen) \in Seq(seen) /\ Len(Ascending(seen)) = Cardinality(seen)
      /\ Cardinality(seen) \in Nat
  BY <1>1, AscendingLists, FS_CardinalityType
<1>5. \A n \in 1 .. Cardinality(seen) : Ascending(seen)[n] \in seen
  BY <1>4, ElementOfSeq
<1>6. \A n \in 1 .. Cardinality(seen) : objects.slots[Ascending(seen)[n]].value \in Records
  BY <1>3, <1>5
<1>7. QED
  BY <1>2, <1>4, <1>6

\* A build overwrites the beginning of the storage and keeps the rest.
LEMMA PrefixKept ==
  ASSUME NEW S, NEW s \in Seq(S), NEW t \in Seq(S)
  PROVE  /\ s \o SubSeq(t, Len(s) + 1, Len(t)) \in Seq(S)
         /\ Len(s) <= Len(s \o SubSeq(t, Len(s) + 1, Len(t)))
         /\ SubSeq(s \o SubSeq(t, Len(s) + 1, Len(t)), 1, Len(s)) = s
<1> DEFINE u == SubSeq(t, Len(s) + 1, Len(t))
<1>1. u \in Seq(S)
  BY SubSeqProperties, ElementOfSeq
<1> HIDE DEF u
<1>2. /\ s \o u \in Seq(S) /\ Len(s \o u) = Len(s) + Len(u) /\ Len(s) \in Nat /\ Len(u) \in Nat
      /\ \A i \in 1 .. Len(s) : (s \o u)[i] = s[i]
  BY <1>1
<1>3. /\ SubSeq(s \o u, 1, Len(s)) \in Seq(S) /\ Len(SubSeq(s \o u, 1, Len(s))) = Len(s)
      /\ \A i \in 1 .. Len(s) : SubSeq(s \o u, 1, Len(s))[i] = (s \o u)[i]
  BY <1>2
<1>4. SubSeq(s \o u, 1, Len(s)) = s
  BY <1>2, <1>3, SeqEqual
<1>5. QED
  BY <1>2, <1>4 DEF u

\* WorldSubmission_Build takes a generation that no token of this storage has.
LEMMA SubmissionBuildKeeps ==
  ASSUME WorldKept, SubmissionKept, WorldSubmission_Build PROVE SubmissionKept'
<1>1. PICK accepted \in SUBSET Objects :
        LET seen == QueryView(accepted)
            token == [storageSerial |-> submission.serial, generation |-> submission.generation + 1]
        IN  /\ Len(seen) <= SubmissionCapacity
            /\ submission' = [submission EXCEPT
                 !.pRecords = seen \o SubSeq(@, Len(seen) + 1, Len(@)),
                 !.count = Len(seen), !.generation = token.generation, !.active = TRUE]
            /\ tokens' = tokens \cup {[token |-> token, seen |-> seen, ended |-> FALSE]}
  BY DEF WorldSubmission_Build
<1> DEFINE seen == QueryView(accepted)
           recorded == seen \o SubSeq(submission.pRecords, Len(seen) + 1, Len(submission.pRecords))
           generation == submission.generation + 1
           token == [storageSerial |-> submission.serial, generation |-> generation]
           new == [token |-> token, seen |-> seen, ended |-> FALSE]
<1>2. /\ submission' = [submission EXCEPT !.pRecords = recorded, !.count = Len(seen),
                                         !.generation = generation, !.active = TRUE]
      /\ tokens' = tokens \cup {new} /\ Len(seen) <= SubmissionCapacity
  BY <1>1
<1>3. /\ submission.serial # 0 /\ gLastSubmissionSerial' = gLastSubmissionSerial
      /\ gLastSubmissionSerial \in 0 .. SubmissionSerialMax
      /\ submission.serial \in 1 .. gLastSubmissionSerial /\ submission.generation \in Nat
      /\ submission.pRecords \in Seq(Records)
  BY WorldAssumption DEF WorldSubmission_Build, SubmissionKept
<1>4. seen \in Seq(Records) /\ Len(seen) \in 0 .. SubmissionCapacity
  BY <1>2, ViewsAreLists, WorldAssumption
<1> HIDE DEF seen
<1>5. /\ recorded \in Seq(Records) /\ Len(seen) <= Len(recorded)
      /\ SubSeq(recorded, 1, Len(seen)) = seen
  BY <1>3, <1>4, PrefixKept
<1> HIDE DEF recorded
<1>6. /\ submission' \in [serial : {0, gLastSubmissionSerial}, generation : Nat, active : BOOLEAN,
                         count : 0 .. SubmissionCapacity, pRecords : Seq(Records)]
      /\ submission'.serial = submission.serial /\ submission'.generation = generation
      /\ submission'.pRecords = recorded /\ submission'.count = Len(seen)
  <2>1. submission \in [serial : {0, gLastSubmissionSerial}, generation : Nat, active : BOOLEAN,
                       count : 0 .. SubmissionCapacity, pRecords : Seq(Records)]
        /\ generation \in Nat
    BY <1>3 DEF SubmissionKept
  <2>2. QED
    BY <1>2, <1>4, <1>5, <2>1, BuiltFields
<1>7. /\ new \in Tokens /\ new.token.storageSerial = submission.serial /\ new.token.generation = generation
      /\ ~new.ended /\ new.seen = seen
  BY <1>3, <1>4 DEF Tokens
<1>8. \A t \in tokens :
        /\ t \in Tokens /\ t.token.storageSerial \in 1 .. gLastSubmissionSerial
        /\ t.token.storageSerial = submission.serial =>
             t.token.generation <= submission.generation /\ t.token.generation \in Nat
  BY DEF SubmissionKept, Tokens
<1> HIDE DEF new
<1>9. generation \in Nat /\ submission.generation < generation
  BY <1>3
<1> HIDE DEF generation
<1>10. \A t \in tokens' : t.token.storageSerial = submission.serial => t.token.generation <= generation
  <2>1. \A t \in tokens : t.token.storageSerial = submission.serial => t.token.generation <= generation
    BY <1>3, <1>8, <1>9
  <2>2. QED
    BY <1>2, <1>7, <1>9, <2>1
<1>11. ASSUME NEW t \in tokens', IsCurrentToken(t.token)'
       PROVE  ~t.ended /\ SubSeq(submission'.pRecords, 1, submission'.count) = t.seen
  <2>1. t.token.storageSerial = submission.serial /\ t.token.generation = generation
    BY <1>6, <1>11 DEF IsCurrentToken
  <2>2. t \notin tokens
    BY <1>3, <1>8, <1>9, <2>1
  <2>3. t = new
    BY <1>2, <2>2
  <2>4. QED
    BY <1>5, <1>6, <1>7, <2>3
<1>12. tokens' \subseteq Tokens /\ \A t \in tokens' : t.token.storageSerial \in 1 .. gLastSubmissionSerial
  BY <1>2, <1>3, <1>7, <1>8
<1>13. QED
  BY <1>3, <1>5, <1>6, <1>10, <1>11, <1>12 DEF SubmissionKept

\* Every step keeps the invariant.
LEMMA WorldInvKept == WorldInv /\ [WNext]_wvars => WorldInv'
<1> SUFFICES ASSUME WorldInv, [WNext]_wvars PROVE WorldInv'
  OBVIOUS
<1> USE DEF WorldInv
<1>1. CASE World_Init
  BY <1>1, WorldInitKeeps, SubmissionUnmoved DEF World_Init
<1>2. CASE World_Shutdown
  BY <1>2, WorldShutdownKeeps, SubmissionUnmoved DEF World_Shutdown, submitted
<1>3. CASE World_AddObject
  BY <1>3, AddObjectKeeps, SubmissionUnmoved DEF World_AddObject
<1>4. CASE World_RemoveObject
  BY <1>4, RemoveObjectKeeps, SubmissionUnmoved DEF World_RemoveObject
<1>5. CASE World_UpdateObject
  BY <1>5, UpdateObjectKeeps, SubmissionUnmoved DEF World_UpdateObject
<1>6. CASE WorldSubmission_Init
  BY <1>6, SubmissionInitKeeps, WorldUnmoved DEF WorldSubmission_Init
<1>7. CASE WorldSubmission_Shutdown
  BY <1>7, SubmissionShutdownKeeps, WorldUnmoved DEF WorldSubmission_Shutdown
<1>8. CASE WorldSubmission_Build
  BY <1>8, SubmissionBuildKeeps, WorldUnmoved DEF WorldSubmission_Build
<1>9. CASE WorldSubmission_End
  BY <1>9, SubmissionEndKeeps, WorldUnmoved DEF WorldSubmission_End
<1>10. CASE UNCHANGED wvars
  BY <1>10, WorldUnmoved, SubmissionUnmoved DEF wvars
<1>11. QED
  BY <1>1, <1>2, <1>3, <1>4, <1>5, <1>6, <1>7, <1>8, <1>9, <1>10 DEF WNext

\* The invariant includes the types.
LEMMA WorldTyped == WorldInv => WTypeOK
<1> SUFFICES ASSUME WorldKept, SubmissionKept PROVE WTypeOK
  BY DEF WorldInv
<1>1. TableSound(objects)
  BY WorldTable, ThreadedIsSound
<1>2. QED
  BY <1>1 DEF WorldKept, SubmissionKept, WTypeOK

\* For any number of objects, slots, ids and tokens the world and its submission keep
\* their shape.
THEOREM WorldTypesHold == WSpec => []WTypeOK
  BY WorldStarts, WorldInvKept, WorldTyped, PTL DEF WSpec

\* An id resolves to the object it was given out for, or to nothing once that was
\* removed, and a token reads what was built for it, or nothing: over slots used again,
\* generations that come round, worlds created anew and storage built again.
THEOREM NamesAlwaysTrue == WSpec => []NamesStayTrue
<1>1. WorldInv => NamesStayTrue
  BY IdsNamed DEF WorldInv, SubmissionKept, NamesStayTrue, TokensReadTheirBuild
<1>2. QED
  BY <1>1, WorldStarts, WorldInvKept, PTL DEF WSpec

-----------------------------------------------------------------------------
(* The host. *)

\* The first n services.
Lowest(n) == {Services[i] : i \in 1 .. n}

\* Where the host is before and in its frame loop.
Starting == {"start", "configure", "finish"}
Looping == {"loop", "update", "render", "submit", "end"}

\* How many services are up, at each point of main.
Level(n) ==
  /\ up = Lowest(n) /\ (rendererInitialized <=> n = 9)
  /\ hostPc = "main" => n = 0
  /\ hostPc = "start" => n < 9
  /\ hostPc = "configure" => n = 7
  /\ hostPc \in Looping \cup {"finish"} => n = 9
  /\ hostPc = "stop" => \E k \in n .. 9 : stopping = Unwinds(k)

\* What the control state says of the stage, the frame and the request to stop.
Controlled ==
  /\ hostPc \in {"main", "stop"} \cup Starting \cup Looping
  /\ stage \in {"UNINITIALIZED", "INITIALIZING", "RUNNING", "SHUTTINGDOWN", "SHUTDOWN"}
  /\ hostRunning => hostPc \in Looping
  /\ frame = IF hostPc = "submit" THEN "open" ELSE "none"
  /\ asked => ~hostRunning /\ hostPc \notin Starting \cup {"update"}

\* The flags of the host.
Flags == hostRunning \in BOOLEAN /\ rendererInitialized \in BOOLEAN /\ asked \in BOOLEAN

\* The inductive invariant of Host.
Hosting == Flags /\ Controlled /\ \E n \in 0 .. 9 : Level(n)

\* The names of the nine services.
ServiceNames == {Services[i] : i \in 1 .. 9}

\* The nine services are different.
LEMMA ServicesListed ==
  /\ Services \in Seq(ServiceNames) /\ Len(Services) = 9 /\ DOMAIN Services = 1 .. 9
  /\ \A i, j \in 1 .. 9 : Services[i] = Services[j] => i = j
  /\ \A i \in 1 .. 9 : Services[i] = "config" <=> i = 7
  /\ \A i \in 1 .. 9 : Services[i] = "renderer" <=> i = 9
  /\ Services[8] = "window"
<1>1. \A i \in 1 .. 9 : i = 1 \/ i = 2 \/ i = 3 \/ i = 4 \/ i = 5 \/ i = 6 \/ i = 7 \/ i = 8 \/ i = 9
  OBVIOUS
<1>2. /\ Services[1] = "system" /\ Services[2] = "log" /\ Services[3] = "memory"
      /\ Services[4] = "filesystem" /\ Services[5] = "command" /\ Services[6] = "cvar"
      /\ Services[7] = "config" /\ Services[8] = "window" /\ Services[9] = "renderer"
  BY DEF Services
<1>3. Len(Services) = 9 /\ DOMAIN Services = 1 .. 9 /\ Services = [i \in 1 .. 9 |-> Services[i]]
  BY DEF Services
<1>4. \A i, j \in 1 .. 9 : Services[i] = Services[j] => i = j
  BY <1>1, <1>2
<1>5. \A i \in 1 .. 9 : (Services[i] = "config" <=> i = 7) /\ (Services[i] = "renderer" <=> i = 9)
  BY <1>1, <1>2
<1>6. \A i \in 1 .. 9 : Services[i] \in ServiceNames
  BY DEF ServiceNames
<1>7. [i \in 1 .. 9 |-> Services[i]] \in [1 .. 9 -> ServiceNames]
  BY <1>6
<1>8. Services \in Seq(ServiceNames)
  BY <1>3, <1>7, 9 \in Nat, SeqDef
<1>9. QED
  BY <1>2, <1>3, <1>4, <1>5, <1>8

\* The first n services are n.
LEMMA LowestCounted ==
  ASSUME NEW n \in 0 .. 9
  PROVE  Cardinality(Lowest(n)) = n /\ IsFiniteSet(Lowest(n))
<1> DEFINE f == [i \in 1 .. n |-> Services[i]]
<1>1. f \in Bijection(1 .. n, Lowest(n))
  <2>1. \A i \in 1 .. n : i \in 1 .. 9
    OBVIOUS
  <2>2. \A i, j \in 1 .. n : f[i] = f[j] => i = j
    BY <2>1, ServicesListed
  <2>3. f \in [1 .. n -> Lowest(n)]
    BY DEF Lowest
  <2>4. \A s \in Lowest(n) : \E i \in 1 .. n : f[i] = s
    BY DEF Lowest
  <2> HIDE DEF f
  <2>5. IsInjective(f)
    BY <2>2, <2>3 DEF IsInjective
  <2> QED
    BY <2>3, <2>4, <2>5 DEF Bijection, Injection, Surjection
<1>2. ExistsBijection(1 .. n, Lowest(n))
  BY <1>1 DEF ExistsBijection
<1>3. QED
  BY <1>2, FS_CountingElements, FS_NatBijection

\* A prefix, reversed, member by member.
LEMMA ReverseOfPrefix ==
  ASSUME NEW S, NEW s \in Seq(S), NEW m \in 0 .. Len(s)
  PROVE  /\ Reverse(SubSeq(s, 1, m)) \in Seq(S) /\ Len(Reverse(SubSeq(s, 1, m))) = m
         /\ \A i \in 1 .. m : Reverse(SubSeq(s, 1, m))[i] = s[(m - i) + 1]
<1> DEFINE t == SubSeq(s, 1, m)
<1>1. t \in Seq(S) /\ Len(t) = m /\ \A i \in 1 .. m : t[i] = s[i]
  OBVIOUS
<1> HIDE DEF t
<1>2. Reverse(t) = [i \in 1 .. m |-> t[(m - i) + 1]]
  BY <1>1 DEF Reverse
<1>3. \A i \in 1 .. m : t[(m - i) + 1] = s[(m - i) + 1] /\ t[(m - i) + 1] \in S
  BY <1>1
<1>4. Reverse(t) \in Seq(S) /\ Len(Reverse(t)) = m
  <2>1. m \in Nat
    OBVIOUS
  <2>2. Reverse(t) \in [1 .. m -> S]
    BY <1>2, <1>3
  <2>3. QED
    BY <2>1, <2>2
<1>5. QED
  BY <1>2, <1>3, <1>4 DEF t

\* Its head is the last of the prefix, and its tail the shorter prefix reversed.
LEMMA Descending ==
  ASSUME NEW S, NEW s \in Seq(S), NEW k \in 1 .. Len(s)
  PROVE  /\ Head(Reverse(SubSeq(s, 1, k))) = s[k]
         /\ Tail(Reverse(SubSeq(s, 1, k))) = Reverse(SubSeq(s, 1, k - 1))
         /\ Reverse(SubSeq(s, 1, k)) # << >> /\ Reverse(SubSeq(s, 1, 0)) = << >>
<1> DEFINE U(m) == Reverse(SubSeq(s, 1, m))
<1>1. \A m \in 0 .. Len(s) :
        U(m) \in Seq(S) /\ Len(U(m)) = m /\ \A i \in 1 .. m : U(m)[i] = s[(m - i) + 1]
  BY ReverseOfPrefix
<1> HIDE DEF U
<1>2. k - 1 \in 0 .. Len(s) /\ k \in 0 .. Len(s) /\ 0 \in 0 .. Len(s)
  OBVIOUS
<1>3. U(k) # << >> /\ U(0) = << >>
  BY <1>1, <1>2
<1>4. Head(U(k)) = s[k]
  BY <1>1, <1>2, <1>3
<1>5. Tail(U(k)) = U(k - 1)
  <2>1. Tail(U(k)) \in Seq(S) /\ Len(Tail(U(k))) = k - 1 /\ \A i \in 1 .. k - 1 : Tail(U(k))[i] = U(k)[i + 1]
    BY <1>1, <1>2, <1>3
  <2>2. \A i \in 1 .. k - 1 : i + 1 \in 1 .. k /\ (k - (i + 1)) + 1 = ((k - 1) - i) + 1
    OBVIOUS
  <2>3. ASSUME NEW i \in 1 .. k - 1 PROVE Tail(U(k))[i] = U(k - 1)[i]
    <3>1. Tail(U(k))[i] = U(k)[i + 1] /\ i + 1 \in 1 .. k
      BY <2>1, <2>2
    <3>2. U(k)[i + 1] = s[(k - (i + 1)) + 1]
      BY <1>1, <1>2, <3>1
    <3>3. U(k - 1)[i] = s[((k - 1) - i) + 1]
      BY <1>1, <1>2
    <3>4. QED
      BY <2>2, <3>1, <3>2, <3>3
  <2>4. QED
    BY <1>1, <1>2, <2>1, <2>3, SeqEqual
<1>6. QED
  BY <1>3, <1>4, <1>5 DEF U

\* What is left to stop after one more service is down.
LEMMA Unwinding ==
  ASSUME NEW k \in 0 .. 9
  PROVE  /\ Unwinds(k) = << >> <=> k = 0
         /\ k > 0 => Head(Unwinds(k)) = Services[k] /\ Tail(Unwinds(k)) = Unwinds(k - 1)
<1>1. CASE k = 0
  <2>1. 9 \in 1 .. Len(Services)
    BY ServicesListed
  <2>2. Unwinds(0) = << >>
    BY ServicesListed, <2>1, Descending DEF Unwinds
  <2>3. QED
    BY <1>1, <2>2
<1>2. CASE k \in 1 .. 9
  <2>1. k \in 1 .. Len(Services)
    BY <1>2, ServicesListed
  <2>2. Head(Unwinds(k)) = Services[k] /\ Tail(Unwinds(k)) = Unwinds(k - 1) /\ Unwinds(k) # << >>
    BY ServicesListed, <2>1, Descending DEF Unwinds
  <2>3. QED
    BY <1>2, <2>2
<1>3. QED
  BY <1>1, <1>2

\* HostShutdown stops all nine.
LEMMA EveryServiceStops == StopOfAll = Unwinds(9)
  BY ServicesListed, SubSeqFull DEF StopOfAll, Unwinds

\* The flags are flags initially.
LEMMA FlagsStart == HInit => Flags
  BY Zenon DEF HInit, Flags

\* The flags stay flags.
LEMMA FlagsKept == Flags /\ [HNext]_hvars => Flags'
<1> SUFFICES ASSUME Flags, [HNext]_hvars PROVE Flags'
  OBVIOUS
<1>1. CASE Host_Init \/ ServiceStarts \/ ServiceFails \/ Configures \/ FinishInit
  BY Zenon, <1>1 DEF Flags, Host_Init, ServiceStarts, ServiceFails, Configures, FinishInit, Stops
<1>2. CASE StopsNext \/ Stopped \/ BeginFrame \/ LoopEnds \/ Update \/ UNCHANGED hvars
  BY Zenon, <1>2 DEF Flags, StopsNext, Stopped, BeginFrame, LoopEnds, Update, Stops, NoRequest,
     RequestShutdown, hvars
<1>3. CASE RenderBegins \/ RenderSubmits \/ EndFrame
  BY Zenon, <1>3 DEF Flags, RenderBegins, RenderSubmits, EndFrame, NoRequest, RequestShutdown
<1>4. QED
  BY <1>1, <1>2, <1>3 DEF HNext

\* The invariant of the host holds initially.
LEMMA HostingStarts == HInit => Hosting
<1> SUFFICES ASSUME HInit PROVE Hosting
  OBVIOUS
<1>1. Level(0)
  BY DEF HInit, Level, Lowest, Looping
<1>2. Controlled
  BY DEF HInit, Controlled, Looping, Starting
<1>3. QED
  BY <1>1, <1>2, FlagsStart DEF Hosting

\* Every step keeps it: a service started is the next, one stopped the last.
LEMMA HostingKept == SubmitClosesPass /\ Hosting /\ [HNext]_hvars => Hosting'
<1> SUFFICES ASSUME SubmitClosesPass, Hosting, [HNext]_hvars PROVE Hosting'
  OBVIOUS
<1>0. Flags /\ Flags'
  BY FlagsKept DEF Hosting
<1> USE DEF Looping, Starting
<1>1. PICK n \in 0 .. 9 : Level(n)
  BY DEF Hosting
<1>2. Controlled
  BY DEF Hosting
<1>3. CASE Host_Init
  <2>1. Level(n)'
    BY <1>1, <1>3 DEF Host_Init, Level, Lowest
  <2>2. Controlled'
    BY <1>2, <1>3 DEF Host_Init, Controlled
  <2>3. QED
    BY <1>0, <2>1, <2>2 DEF Hosting
<1>4. CASE ServiceStarts
  <2>1. NextService = Services[n + 1] /\ n < 9
    BY <1>1, <1>4, LowestCounted DEF NextService, Level, ServiceStarts
  <2>2. up' = Lowest(n + 1)
    BY <1>1, <1>4, <2>1 DEF ServiceStarts, Level, Lowest
  <2>3. hostPc' = IF n + 1 = 9 THEN "finish" ELSE IF n + 1 = 7 THEN "configure" ELSE "start"
    BY <1>4, <2>1, ServicesListed DEF ServiceStarts, AfterStart
  <2>4. rendererInitialized' <=> n + 1 = 9
    <3>1. rendererInitialized' <=> NextService = "renderer"
      BY <1>4, Zenon DEF ServiceStarts
    <3>2. QED
      BY <2>1, <3>1, ServicesListed
  <2>5. Controlled'
    BY <1>2, <1>4, <2>3, <2>4 DEF ServiceStarts, Controlled
  <2>6. Level(n + 1)'
    BY <2>1, <2>2, <2>3, <2>4 DEF Level, Lowest
  <2>7. QED
    BY <1>0, <2>1, <2>5, <2>6 DEF Hosting
<1>5. CASE ServiceFails
  <2>1. Cardinality(up) = n
    BY <1>1, LowestCounted DEF Level
  <2>2. StopOfAll = Unwinds(9)
    BY EveryServiceStops
  <2>3. stopping' = Unwinds(IF n < 7 THEN n ELSE 9)
    BY <1>5, <2>1, <2>2 DEF ServiceFails, Stops, CoreServices
  <2>4. Level(n)'
    BY <1>1, <1>5, <2>3 DEF ServiceFails, Stops, Level, Lowest
  <2>5. Controlled'
    BY <1>2, <1>5 DEF ServiceFails, Stops, Controlled
  <2>6. QED
    BY <1>0, <2>4, <2>5 DEF Hosting
<1>6. CASE Configures \/ LoopEnds
  <2>1. StopOfAll = Unwinds(9)
    BY EveryServiceStops
  <2>2. Level(n)'
    BY <1>1, <1>6, <2>1 DEF Configures, LoopEnds, Stops, Level, Lowest
  <2>3. CASE Configures
    <3>1. Controlled'
      BY <1>2, <2>3 DEF Configures, Stops, Controlled
    <3>2. QED
      BY <1>0, <2>2, <3>1 DEF Hosting
  <2>4. CASE LoopEnds
    <3>1. Controlled'
      BY <1>2, <2>4 DEF LoopEnds, Stops, Controlled
    <3>2. QED
      BY <1>0, <2>2, <3>1 DEF Hosting
  <2>5. QED
    BY <1>6, <2>3, <2>4
<1>7. CASE FinishInit
  <2>1. Controlled' /\ Level(n)'
    BY <1>1, <1>2, <1>7 DEF FinishInit, Controlled, Level, Lowest
  <2>2. QED
    BY <1>0, <2>1 DEF Hosting
<1>8. CASE StopsNext
  <2>1. PICK k \in n .. 9 : stopping = Unwinds(k)
    BY <1>1, <1>8 DEF StopsNext, Level
  <2>2. k \in 1 .. 9 /\ k - 1 \in 0 .. 9 /\ Head(stopping) = Services[k]
        /\ stopping' = Unwinds(k - 1)
    <3>1. k \in 0 .. 9 /\ stopping # << >> /\ stopping' = Tail(stopping)
      BY <1>8, <2>1 DEF StopsNext
    <3>2. k > 0
      BY <2>1, <3>1, Unwinding
    <3>3. Head(Unwinds(k)) = Services[k] /\ Tail(Unwinds(k)) = Unwinds(k - 1)
      BY <3>1, <3>2, Unwinding
    <3>4. QED
      BY <2>1, <3>1, <3>2, <3>3
  <2>3. (Head(stopping) = "renderer") <=> (k = 9)
    BY <2>2, ServicesListed
  <2>4. Controlled'
    BY <1>2, <1>8 DEF StopsNext, Controlled
  <2>5. CASE n < k
    <3>1. up \ {Services[k]} = up
      BY <1>1, <2>2, <2>5, ServicesListed DEF Level, Lowest
    <3>2. up' = Lowest(n)
      BY <1>1, <1>8, <2>2, <3>1 DEF StopsNext, Level
    <3>3. rendererInitialized' <=> n = 9
      <4>1. rendererInitialized' <=> rendererInitialized /\ Head(stopping) # "renderer"
        BY <1>8, Zenon DEF StopsNext
      <4>2. QED
        BY <1>1, <2>2, <2>3, <2>5, <4>1 DEF Level
    <3>4. hostPc' = "stop" /\ k - 1 \in n .. 9
      BY <1>8, <2>5 DEF StopsNext
    <3>5. Level(n)'
      BY <2>2, <3>2, <3>3, <3>4 DEF Level, Lowest
    <3>6. QED
      BY <1>0, <2>4, <3>5 DEF Hosting
  <2>6. CASE n = k
    <3>1. up \ {Services[k]} = Lowest(n - 1)
      BY <1>1, <2>2, <2>6, ServicesListed DEF Level, Lowest
    <3>2. frame = "none" /\ (k = 9 => rendererInitialized)
      BY <1>1, <1>2, <1>8, <2>6 DEF StopsNext, Level, Controlled
    <3>3. up' = Lowest(n - 1)
      BY <1>8, <2>2, <2>3, <3>1, <3>2 DEF StopsNext
    <3>4. ~rendererInitialized'
      BY <1>1, <1>8, <2>3, <2>2, <2>6 DEF StopsNext, Level
    <3>5. hostPc' = "stop" /\ k - 1 \in n - 1 .. 9
      BY <1>8, <2>2, <2>6 DEF StopsNext
    <3>6. Level(n - 1)'
      BY <2>2, <2>6, <3>3, <3>4, <3>5 DEF Level, Lowest
    <3>7. QED
      BY <1>0, <2>2, <2>4, <2>6, <3>6 DEF Hosting
  <2>7. QED
    BY <2>5, <2>6
<1>9. CASE Stopped
  <2>1. PICK k \in n .. 9 : stopping = Unwinds(k)
    BY <1>1, <1>9 DEF Stopped, Level
  <2>2. n = 0
    <3>1. k \in 0 .. 9 /\ stopping = << >>
      BY <1>9, <2>1 DEF Stopped
    <3>2. k = 0
      BY <2>1, <3>1, Unwinding
    <3>3. QED
      BY <2>1, <3>2
  <2>3. Controlled' /\ Level(n)'
    BY <1>1, <1>2, <1>9, <2>2 DEF Stopped, Controlled, Level, Lowest
  <2>4. QED
    BY <1>0, <2>3 DEF Hosting
<1>10. CASE BeginFrame \/ Update \/ RenderBegins \/ RenderSubmits \/ EndFrame
  <2>1. Controlled'
    <3>1. CASE BeginFrame \/ Update
      BY <1>2, <3>1 DEF BeginFrame, Update, Controlled, IsRunning, NoRequest, RequestShutdown
    <3>2. CASE RenderBegins
      BY <1>2, <3>2 DEF RenderBegins, Controlled, NoRequest, RequestShutdown
    <3>3. CASE RenderSubmits
      BY <1>2, <3>3 DEF RenderSubmits, Controlled, NoRequest, RequestShutdown
    <3>4. CASE EndFrame
      <4>1. hostRunning' => hostRunning
        BY <3>4, Zenon DEF EndFrame
      <4>2. QED
        BY <1>2, <3>4, <4>1 DEF EndFrame, Controlled
    <3>5. QED
      BY <1>10, <3>1, <3>2, <3>3, <3>4
  <2>2. Level(n)'
    BY <1>1, <1>10 DEF BeginFrame, Update, RenderBegins, RenderSubmits, EndFrame, Level, Lowest
  <2>3. QED
    BY <1>0, <2>1, <2>2 DEF Hosting
<1>11. CASE UNCHANGED hvars
  <2>1. Controlled' /\ Level(n)'
    BY <1>1, <1>2, <1>11 DEF hvars, Controlled, Level, Lowest
  <2>2. QED
    BY <1>0, <2>1 DEF Hosting
<1>12. QED
  BY <1>3, <1>4, <1>5, <1>6, <1>7, <1>8, <1>9, <1>10, <1>11 DEF HNext

\* At every moment the services that are up are the first n, and the place in the
\* start, the loop or the shutdown tells n: the client closing every pass it opens.
THEOREM HostingInvariant ==
  ASSUME SubmitClosesPass PROVE HSpec => []Hosting
<1>1. Hosting /\ [HNext]_hvars => Hosting'
  BY HostingKept
<1>2. QED
  BY <1>1, HostingStarts, PTL DEF HSpec

\* The invariant includes the types.
LEMMA HostingTyped == Hosting => HTypeOK
<1> SUFFICES ASSUME Hosting PROVE HTypeOK
  OBVIOUS
<1>1. PICK n \in 0 .. 9 : Level(n)
  BY DEF Hosting
<1>2. Controlled /\ Flags
  BY DEF Hosting
<1>3. ToSet(Services) = Lowest(9)
  BY ServicesListed DEF ToSet, Lowest
<1>4. up \subseteq ToSet(Services)
  BY <1>1, <1>3 DEF Level, Lowest
<1>5. hostRunning => hostPc \in Looping /\ n = 9
  BY <1>1, <1>2 DEF Controlled, Level
<1>6. hostRunning => up = ToSet(Services)
  BY <1>1, <1>3, <1>5 DEF Level
<1>7. stage \in {"UNINITIALIZED", "INITIALIZING", "RUNNING", "SHUTTINGDOWN", "SHUTDOWN"}
      /\ frame \in {"none", "open", "pass"}
  BY <1>2 DEF Controlled
<1>8. {hostRunning, rendererInitialized, asked} \subseteq BOOLEAN
  BY <1>2, Zenon DEF Flags
<1>9. QED
  BY <1>4, <1>5, <1>6, <1>7, <1>8 DEF HTypeOK, Looping

\* It includes what HostUnwinds says.
LEMMA HostingUnwinds == SubmitClosesPass /\ Hosting => HostUnwinds
<1> SUFFICES ASSUME Hosting PROVE HostUnwinds
  OBVIOUS
<1>1. PICK n \in 0 .. 9 : Level(n)
  BY DEF Hosting
<1>2. Controlled
  BY DEF Hosting
<1>3. ASSUME NEW i \in 1 .. 9, Services[i] \in up, NEW j \in 1 .. i
      PROVE  Services[j] \in up
  <2>1. i \in 1 .. n
    BY <1>1, <1>3, ServicesListed DEF Level, Lowest
  <2>2. QED
    BY <1>1, <2>1 DEF Level, Lowest
<1>4. ServicesNest
  BY <1>3, ServicesListed DEF ServicesNest
<1>5. NothingLeftUp
  BY <1>1, <1>2 DEF NothingLeftUp, Level, Lowest, Controlled
<1>6. RequestsEndTheLoop
  BY <1>2 DEF RequestsEndTheLoop, Controlled
<1>7. QED
  BY <1>4, <1>5, <1>6 DEF HostUnwinds

\* The host keeps its shape, when the client closes every pass it opens.
THEOREM HostTyped ==
  ASSUME SubmitClosesPass PROVE HSpec => []HTypeOK
  BY HostingInvariant, HostingTyped, PTL

\* A request outlives the frame it was made in, whatever the client's submit leaves.
Ending ==
  /\ hostRunning => hostPc \in Looping
  /\ asked => ~hostRunning /\ hostPc \in {"main", "stop", "render", "submit", "end", "loop"}

\* Every step keeps it.
LEMMA EndingKept == Ending /\ [HNext]_hvars => Ending'
<1> SUFFICES ASSUME Ending, [HNext]_hvars PROVE Ending'
  OBVIOUS
<1> USE DEF Looping
<1>1. CASE Host_Init \/ ServiceStarts \/ ServiceFails \/ Configures \/ FinishInit
  BY <1>1 DEF Ending, Host_Init, ServiceStarts, ServiceFails, Configures, FinishInit, Stops
<1>2. CASE StopsNext \/ Stopped \/ BeginFrame \/ LoopEnds \/ UNCHANGED hvars
  BY <1>2 DEF Ending, StopsNext, Stopped, BeginFrame, LoopEnds, Stops, IsRunning, hvars
<1>3. CASE Update \/ RenderBegins \/ RenderSubmits
  BY <1>3 DEF Ending, Update, RenderBegins, RenderSubmits, NoRequest, RequestShutdown
<1>4. CASE EndFrame
  <2>1. hostRunning' => hostRunning
    BY <1>4, Zenon DEF EndFrame
  <2>2. QED
    BY <1>4, <2>1 DEF EndFrame, Ending
<1>5. QED
  BY <1>1, <1>2, <1>3, <1>4 DEF HNext

\* Services start and stop in the order of a stack, none is left up when main returns,
\* whichever start failed, and a request to stop ends the loop.
THEOREM HostUnwindsAlways == HSpec => []HostUnwinds
<1>1. HSpec => []Ending
  <2>1. HInit => Ending
    BY DEF HInit, Ending
  <2>2. QED
    BY <2>1, EndingKept, PTL DEF HSpec
<1>2. CASE SubmitClosesPass
  <2>1. Hosting => HostUnwinds
    BY <1>2, HostingUnwinds
  <2>2. HSpec => []Hosting
    BY <1>2, HostingInvariant
  <2>3. QED
    BY <2>1, <2>2, PTL
<1>3. CASE ~SubmitClosesPass
  <2>1. Ending => HostUnwinds
    BY <1>3 DEF Ending, HostUnwinds, ServicesNest, NothingLeftUp, RequestsEndTheLoop
  <2>2. QED
    BY <1>1, <2>1, PTL
<1>4. QED
  BY <1>2, <1>3

-----------------------------------------------------------------------------
(* The renderer. *)

SystemNames == {"buffer", "vertexInput", "shader", "pipeline", "texture", "sampler", "target"}

\* Records, their references and what each user holds, in the shape the systems give them.
RecordShape ==
  /\ present \subseteq Renderables /\ mapped \subseteq Buffers \cap present
  /\ references \in [Used -> 0 .. ReferenceMax]
  /\ uses \in [Users -> Seq(Used)]
  /\ \A u \in Users :
       /\ Len(uses[u]) <= BindingsMax + 1
       /\ u \notin present => uses[u] = <<>>
       /\ \A i \in DOMAIN uses[u] :
            /\ u \in VertexInputs => uses[u][i] \in Buffers
            /\ u \in Pipelines => uses[u][i] \in Shaders
            /\ u \in Targets => uses[u][i] \in Textures

\* No record belongs to two systems.
LEMMA SystemsApart ==
  /\ ToSet(StartOrder) = SystemNames
  /\ RecordsOf("buffer") = Buffers /\ RecordsOf("vertexInput") = VertexInputs
  /\ RecordsOf("shader") = Shaders /\ RecordsOf("pipeline") = Pipelines
  /\ RecordsOf("texture") = Textures /\ RecordsOf("sampler") = Samplers
  /\ RecordsOf("target") = Targets
  /\ \A s, r \in SystemNames : s # r => RecordsOf(s) \cap RecordsOf(r) = {}
<1>1. ToSet(StartOrder) = SystemNames
  BY DEF ToSet, StartOrder, SystemNames
<1>2. /\ RecordsOf("buffer") = Buffers /\ RecordsOf("vertexInput") = VertexInputs
      /\ RecordsOf("shader") = Shaders /\ RecordsOf("pipeline") = Pipelines
      /\ RecordsOf("texture") = Textures /\ RecordsOf("sampler") = Samplers
      /\ RecordsOf("target") = Targets
  BY DEF RecordsOf
<1>3. \A s, r \in SystemNames : s # r => RecordsOf(s) \cap RecordsOf(r) = {}
  BY <1>1, RendererAssumption
<1> QED
  BY <1>1, <1>2, <1>3

\* How often a user holds a record is a number.
LEMMA OccurrencesCounted ==
  ASSUME NEW inputs, IsFiniteSet(DOMAIN inputs), NEW o
  PROVE  /\ Occurrences(inputs, o) \in Nat
         /\ IsFiniteSet({i \in DOMAIN inputs : inputs[i] = o})
<1>1. {i \in DOMAIN inputs : inputs[i] = o} \subseteq DOMAIN inputs
  OBVIOUS
<1>2. IsFiniteSet({i \in DOMAIN inputs : inputs[i] = o})
  BY <1>1, FS_Subset
<1> QED
  BY <1>2, FS_CardinalityType DEF Occurrences

\* A sequence of inputs is finite.
LEMMA DomainsFinite ==
  ASSUME NEW S, NEW inputs \in Seq(S)
  PROVE  IsFiniteSet(DOMAIN inputs) /\ DOMAIN inputs = 1 .. Len(inputs) /\ Len(inputs) \in Nat
<1>1. DOMAIN inputs = 1 .. Len(inputs) /\ Len(inputs) \in Nat
  OBVIOUS
<1> QED
  BY <1>1, FS_Interval

\* So is what was acquired of it before a refusal.
LEMMA AcquiredInOrder ==
  ASSUME NEW S, NEW inputs \in Seq(S)
  PROVE  IsFiniteSet(DOMAIN AcquiredOf(inputs))
<1> DEFINE M == Refusals(inputs) \cup {Len(inputs) + 1}
<1>1. M \subseteq Nat /\ M # {}
  BY DEF Refusals
<1>2. \E m \in M : \A n \in M : m <= n
  BY <1>1, LeastNumber
<1>3. Min(M) \in M
  BY <1>2 DEF Min
<1>4. Min(M) - 1 \in Int
  BY <1>1, <1>3
<1>5. DOMAIN AcquiredOf(inputs) = 1 .. (Min(M) - 1)
  <2>1. AcquiredOf(inputs) = SubSeq(inputs, 1, Min(M) - 1)
    BY DEF AcquiredOf
  <2> HIDE DEF M
  <2> QED
    BY <1>4, <2>1
<1> HIDE DEF M
<1> QED
  BY <1>4, <1>5, FS_Interval

\* What is acquired in vain is given back.
LEMMA VainLeavesCounts ==
  ASSUME references \in [Used -> 0 .. ReferenceMax], NEW S, NEW inputs \in Seq(S),
         AcquiresInVain(inputs)
  PROVE  references' = references
<1> DEFINE a == AcquiredOf(inputs)
<1>1. \A o \in Used : Occurrences(a, o) \in Nat
  BY AcquiredInOrder, OccurrencesCounted
<1>2. references' = Dropped(Added(references, a), a)
  BY DEF AcquiresInVain, ReleasedOnFailure
<1> HIDE DEF a
<1>3. \A o \in Used : references[o] + Occurrences(a, o) - Occurrences(a, o) = references[o]
  BY <1>1, RendererAssumption
<1>4. \A o \in Used : Added(references, a)[o] = references[o] + Occurrences(a, o)
  BY DEF Added
<1>5. references' = [o \in Used |-> Added(references, a)[o] - Occurrences(a, o)]
  BY <1>2 DEF Dropped
<1>6. \A o \in Used : Added(references, a)[o] - Occurrences(a, o) = references[o]
  <2> TAKE o \in Used
  <2>1. Occurrences(a, o) \in Nat /\ references[o] \in Nat
    BY <1>1, RendererAssumption
  <2> QED
    BY <1>4, <2>1
<1>7. references = [o \in Used |-> references[o]]
  OBVIOUS
<1> QED
  BY <1>5, <1>6, <1>7

\* When nothing is refused, the references stay within their limit.
LEMMA InputsFit ==
  ASSUME references \in [Used -> 0 .. ReferenceMax], NEW inputs \in Seq(Used),
         Refusals(inputs) = {}, NEW o \in Used
  PROVE  references[o] + Occurrences(inputs, o) \in 0 .. ReferenceMax
<1> DEFINE places == {i \in DOMAIN inputs : inputs[i] = o}
<1>1. Occurrences(inputs, o) \in Nat /\ references[o] \in 0 .. ReferenceMax
      /\ IsFiniteSet(places) /\ Occurrences(inputs, o) = Cardinality(places)
      /\ ReferenceMax \in Nat
  <2>1. IsFiniteSet(DOMAIN inputs)
    BY DomainsFinite
  <2>2. Occurrences(inputs, o) \in Nat /\ IsFiniteSet(places)
    BY <2>1, OccurrencesCounted
  <2> QED
    BY <2>2, RendererAssumption DEF Occurrences
<1>2. CASE places = {}
  <2>1. Occurrences(inputs, o) = 0
    BY <1>1, <1>2, FS_EmptySet, Zenon
  <2> QED
    BY <1>1, <2>1
<1>3. CASE places # {}
  <2> DEFINE ends == {Len(inputs) - i : i \in places}
  <2>1. ends \subseteq Nat /\ ends # {}
    BY <1>3
  <2>2. PICK m \in ends : \A n \in ends : m <= n
    BY <2>1, LeastNumber
  <2>3. PICK last \in places : m = Len(inputs) - last
    BY <2>2
  <2>4. last \in 1 .. Len(inputs) /\ inputs[last] = o /\ \A i \in places : i <= last
    <3>1. places \subseteq 1 .. Len(inputs) /\ Len(inputs) \in Nat
      OBVIOUS
    <3>2. \A i \in places : Len(inputs) - last <= Len(inputs) - i
      BY <2>2, <2>3
    <3> QED
      BY <3>1, <3>2
  <2> DEFINE before == SubSeq(inputs, 1, last - 1)
  <2>5. DOMAIN before = 1 .. (last - 1) /\ \A i \in 1 .. (last - 1) : before[i] = inputs[i]
    BY <2>4
  <2>6. {i \in DOMAIN before : before[i] = o} = places \ {last}
    <3> HIDE DEF before
    <3>1. \A i \in places : i # last => i \in 1 .. (last - 1)
      BY <2>4
    <3>2. 1 .. (last - 1) \subseteq DOMAIN inputs /\ last \notin 1 .. (last - 1)
      BY <2>4
    <3> QED
      BY <2>5, <3>1, <3>2
  <2>7. Occurrences(before, o) = Cardinality(places) - 1
    <3> HIDE DEF before, places
    <3>1. Cardinality(places \ {last}) = Cardinality(places) - 1
      BY <1>1, <2>3, FS_RemoveElement
    <3> QED
      BY <2>6, <3>1 DEF Occurrences
  <2>8. ~AtLimit(inputs, last)
    BY <2>4 DEF Refusals
  <2>9. ~(references[o] + Occurrences(before, o) >= ReferenceMax)
    BY <2>4, <2>8 DEF AtLimit
  <2> HIDE DEF before, places
  <2> QED
    BY <1>1, <2>7, <2>9
<1> QED
  BY <1>2, <1>3

\* The references on a record are those of one user and those of the others.
BoundsSplit ==
  RecordShape =>
    \A o \in Used :
      /\ Cardinality(Bound(Users, o)) \in Nat /\ IsFiniteSet(Bound(Users, o))
      /\ \A u \in Users :
           /\ Cardinality(Bound(Users, o)) = Cardinality(Bound(Users \ {u}, o)) + Occurrences(uses[u], o)
           /\ Occurrences(uses[u], o) \in Nat
           /\ Cardinality(Bound(Users \ {u}, o)) \in Nat

\* The references that users hold on a record are finitely many.
LEMMA BoundFinite ==
  ASSUME NEW holders \in SUBSET Users, NEW o
  PROVE  IsFiniteSet(Bound(holders, o)) /\ Cardinality(Bound(holders, o)) \in Nat
<1>1. IsFiniteSet(1 .. (BindingsMax + 1))
  BY RendererAssumption, FS_Interval
<1>2. IsFiniteSet(holders)
  BY RendererAssumption, FS_Subset
<1>3. IsFiniteSet(holders \X (1 .. (BindingsMax + 1)))
  BY <1>1, <1>2, FS_Product
<1>4. Bound(holders, o) \subseteq holders \X (1 .. (BindingsMax + 1))
  BY DEF Bound
<1>5. IsFiniteSet(Bound(holders, o))
  BY <1>3, <1>4, FS_Subset
<1> QED
  BY <1>5, FS_CardinalityType

\* They always split.
LEMMA BoundsAlwaysSplit == BoundsSplit
<1> SUFFICES ASSUME RecordShape, NEW o \in Used, NEW u \in Users
             PROVE  /\ Cardinality(Bound(Users, o)) =
                         Cardinality(Bound(Users \ {u}, o)) + Occurrences(uses[u], o)
                    /\ Occurrences(uses[u], o) \in Nat
                    /\ Cardinality(Bound(Users \ {u}, o)) \in Nat
  BY BoundFinite DEF BoundsSplit
<1> DEFINE places == {i \in DOMAIN uses[u] : uses[u][i] = o}
           own == {u} \X places
           others == Bound(Users \ {u}, o)
<1>1. uses[u] \in Seq(Used) /\ Len(uses[u]) <= BindingsMax + 1
  BY DEF RecordShape
<1>2. DOMAIN uses[u] = 1 .. Len(uses[u]) /\ Len(uses[u]) \in Nat /\ IsFiniteSet(DOMAIN uses[u])
  BY <1>1, DomainsFinite
<1>3. IsFiniteSet(places) /\ Occurrences(uses[u], o) = Cardinality(places)
      /\ Occurrences(uses[u], o) \in Nat
  BY <1>2, OccurrencesCounted DEF Occurrences
<1>4. IsFiniteSet(own) /\ Cardinality(own) = Cardinality(places)
  <2>1. IsFiniteSet({u}) /\ Cardinality({u}) = 1
    BY FS_Singleton
  <2> HIDE DEF places
  <2>2. IsFiniteSet(own) /\ Cardinality(own) = 1 * Cardinality(places)
    BY <1>3, <2>1, FS_Product
  <2> QED
    BY <1>3, <2>2
<1>5. IsFiniteSet(others) /\ Cardinality(others) \in Nat
  BY BoundFinite
<1>6. \A i \in DOMAIN uses[u] : i \in 1 .. (BindingsMax + 1)
  BY <1>1, <1>2, RendererAssumption
<1>7. Bound(Users, o) = others \cup own /\ others \cap own = {}
  BY <1>6 DEF Bound
<1> HIDE DEF own, others, places
<1>8. Cardinality(others \cup own) = Cardinality(others) + Cardinality(own) - Cardinality(others \cap own)
  BY <1>4, <1>5, FS_Union
<1>9. Cardinality(others \cap own) = 0
  BY <1>7, FS_EmptySet, Zenon
<1>10. Cardinality(Bound(Users, o)) = Cardinality(others \cup own)
  BY <1>7, Zenon
<1> QED
  BY <1>3, <1>4, <1>5, <1>8, <1>9, <1>10 DEF others

\* They do after a step as well.
LEMMA BoundsSplitNext == BoundsSplit'
BY BoundsAlwaysSplit, PTL

\* One user begins or ceases to use something.
LEMMA OneUserChanges ==
  ASSUME RecordShape, RecordShape', NEW u \in Users, NEW inputs,
         uses' = [uses EXCEPT ![u] = inputs], NEW o \in Used
  PROVE  Cardinality(Bound(Users, o)') =
           Cardinality(Bound(Users, o)) - Occurrences(uses[u], o) + Occurrences(inputs, o)
<1>1. uses'[u] = inputs /\ \A v \in Users \ {u} : uses'[v] = uses[v]
  BY DEF RecordShape
<1>2. Bound(Users \ {u}, o)' = Bound(Users \ {u}, o)
  BY <1>1 DEF Bound
<1>3. /\ Cardinality(Bound(Users, o)) = Cardinality(Bound(Users \ {u}, o)) + Occurrences(uses[u], o)
      /\ Occurrences(uses[u], o) \in Nat
      /\ Cardinality(Bound(Users \ {u}, o)) \in Nat
  BY BoundsAlwaysSplit DEF BoundsSplit
<1>4. /\ Cardinality(Bound(Users, o)') = Cardinality(Bound(Users \ {u}, o)') + Occurrences(uses'[u], o)
      /\ Occurrences(uses'[u], o) \in Nat
  BY BoundsSplitNext DEF BoundsSplit
<1>5. Cardinality(Bound(Users \ {u}, o)') = Cardinality(Bound(Users \ {u}, o))
  BY <1>2, Zenon
<1>6. Occurrences(uses'[u], o) = Occurrences(inputs, o)
  BY <1>1, Zenon
<1> QED
  BY <1>3, <1>4, <1>5, <1>6

\* The systems that were started first.
Firsts(k) == {StartOrder[i] : i \in 1 .. k}

\* Whose records a system uses.
Feeding == {<<"buffer", "vertexInput">>, <<"shader", "pipeline">>, <<"texture", "target">>}

\* An order that stops the users of records before the records.
UsersFirst(stops) ==
  \A i, j \in DOMAIN stops : <<stops[i], stops[j]>> \in Feeding => j < i

\* What is left to stop includes all that is ready, and the backend last.
Stopping ==
  /\ toStop \in Seq(SystemNames \cup {"backend"})
  /\ \A i \in DOMAIN toStop : toStop[i] = "backend" <=> i = Len(toStop)
  /\ toStop # <<>> => ready \subseteq ToSet(toStop) /\ toStart = <<>> /\ ~frameActive

\* How far a start or a stop has come.
Phases ==
  /\ backendUp \in BOOLEAN /\ initialized \in BOOLEAN /\ frameActive \in BOOLEAN
  /\ activeTarget \in Targets \cup {NoTarget}
  /\ ready \subseteq SystemNames
  /\ Stopping
  /\ toStart # <<>> =>
       /\ toStop = <<>> /\ ~initialized
       /\ \E k \in 0 .. 6 :
            /\ toStart \in Seq(SystemNames) /\ Len(toStart) = 7 - k
            /\ \A i \in 1 .. 7 - k : toStart[i] = StartOrder[k + i]
            /\ ready \subseteq Firsts(k)
  /\ toStop # <<>> /\ initialized =>
       /\ UsersFirst(toStop)
       /\ \A s \in SystemNames \ ToSet(toStop) : RecordsOf(s) \cap present = {}
  /\ ~initialized => present = {} /\ ~frameActive /\ activeTarget = NoTarget
  /\ Idle /\ ~initialized => ~backendUp /\ ready = {}

\* The inductive invariant.
Rendering == RecordShape /\ Phases /\ ReferencesProtect

\* R_Shutdown stops users first and leaves nothing out.
LEMMA OrdersWell ==
  LET s == Append(StopOrder, "backend") IN
  /\ s \in Seq(SystemNames \cup {"backend"}) /\ s # <<>> /\ Len(s) = 8
  /\ \A i \in DOMAIN s : s[i] = "backend" <=> i = Len(s)
  /\ SystemNames \subseteq ToSet(s)
  /\ UsersFirst(s)
<1> DEFINE s == Append(StopOrder, "backend")
<1>1. /\ s \in Seq(SystemNames \cup {"backend"}) /\ Len(s) = 8 /\ DOMAIN s = 1 .. 8
      /\ s[1] = "target" /\ s[2] = "pipeline" /\ s[3] = "sampler" /\ s[4] = "texture"
      /\ s[5] = "shader" /\ s[6] = "vertexInput" /\ s[7] = "buffer" /\ s[8] = "backend"
  BY DEF StopOrder, SystemNames
<1> HIDE DEF s
<1>2. \A i \in DOMAIN s : s[i] = "backend" <=> i = Len(s)
  BY <1>1
<1>3. \A n \in SystemNames : \E i \in DOMAIN s : s[i] = n
  BY <1>1 DEF SystemNames
<1>4. UsersFirst(s)
  <2> SUFFICES ASSUME NEW i \in 1 .. 8, NEW j \in 1 .. 8, <<s[i], s[j]>> \in Feeding
               PROVE  j < i
    BY <1>1 DEF UsersFirst
  <2>1. \/ s[i] = "buffer" /\ s[j] = "vertexInput"
        \/ s[i] = "shader" /\ s[j] = "pipeline"
        \/ s[i] = "texture" /\ s[j] = "target"
    BY DEF Feeding
  <2>2. /\ s[i] = "buffer" => i = 7
        /\ s[i] = "shader" => i = 5
        /\ s[i] = "texture" => i = 4
    BY <1>1
  <2>3. /\ s[j] = "vertexInput" => j = 6
        /\ s[j] = "pipeline" => j = 2
        /\ s[j] = "target" => j = 1
    BY <1>1
  <2> QED
    BY <2>1, <2>2, <2>3
<1>5. SystemNames \subseteq ToSet(s)
  BY <1>3 DEF ToSet
<1>6. s # <<>>
  BY <1>1
<1> QED
  BY <1>1, <1>2, <1>4, <1>5, <1>6 DEF s

\* A failed start stops all systems that were started before it.
LEMMA RollsBackAll ==
  ASSUME NEW k \in 0 .. 6
  PROVE  LET s == Append(RolledBack(k), "backend") IN
         /\ s \in Seq(SystemNames \cup {"backend"}) /\ s # <<>>
         /\ \A i \in DOMAIN s : s[i] = "backend" <=> i = Len(s)
         /\ Firsts(k) \subseteq ToSet(s)
<1> DEFINE r == RolledBack(k)
           s == Append(r, "backend")
<1>1. Len(StartOrder) = 7 /\ \A i \in 1 .. 7 : StartOrder[i] \in SystemNames
  BY DEF StartOrder, SystemNames
<1>2. StartOrder \in Seq(SystemNames)
  BY DEF StartOrder, SystemNames
<1>3. SubSeq(StartOrder, 1, k) \in Seq(SystemNames) /\ Len(SubSeq(StartOrder, 1, k)) = k
      /\ \A i \in 1 .. k : SubSeq(StartOrder, 1, k)[i] = StartOrder[i]
  BY <1>1, <1>2, SubSeqProperties
<1>4. r = [i \in 1 .. k |-> SubSeq(StartOrder, 1, k)[(k - i) + 1]]
  BY <1>3 DEF RolledBack, Reverse
<1>5. \A i \in 1 .. k : r[i] = StartOrder[k - i + 1] /\ r[i] \in SystemNames
  <2> HIDE DEF r
  <2> TAKE i \in 1 .. k
  <2>1. (k - i) + 1 \in 1 .. k /\ (k - i) + 1 \in 1 .. 7
    OBVIOUS
  <2> QED
    BY <1>1, <1>3, <1>4, <2>1
<1>6. r \in Seq(SystemNames) /\ Len(r) = k
  <2> HIDE DEF r
  <2>1. r \in [1 .. k -> SystemNames]
    BY <1>4, <1>5
  <2> QED
    BY <2>1
<1> HIDE DEF r
<1>7. /\ s \in Seq(SystemNames \cup {"backend"}) /\ Len(s) = k + 1 /\ DOMAIN s = 1 .. k + 1
      /\ s[k + 1] = "backend" /\ \A i \in 1 .. k : s[i] = r[i]
  BY <1>6, AppendProperties
<1> HIDE DEF s
<1>8. \A i \in DOMAIN s : s[i] = "backend" <=> i = Len(s)
  <2>1. "backend" \notin SystemNames
    BY DEF SystemNames
  <2>2. \A i \in 1 .. k + 1 : i = k + 1 \/ i \in 1 .. k
    OBVIOUS
  <2>3. k + 1 \notin 1 .. k
    OBVIOUS
  <2> QED
    BY <1>5, <1>7, <2>1, <2>2, <2>3
<1>9. \A i \in 1 .. k : StartOrder[i] \in ToSet(s)
  <2> TAKE i \in 1 .. k
  <2>1. k - i + 1 \in 1 .. k /\ k - (k - i + 1) + 1 = i /\ k - i + 1 \in 1 .. k + 1
    OBVIOUS
  <2>2. s[k - i + 1] = StartOrder[i]
    BY <1>5, <1>7, <2>1
  <2> QED
    BY <1>7, <2>1, <2>2 DEF ToSet
<1>10. s # <<>>
  BY <1>7
<1> QED
  BY <1>7, <1>8, <1>9, <1>10 DEF Firsts, s, r

\* The invariant holds initially.
LEMMA RenderingStarts == RInit => Rendering
<1> SUFFICES ASSUME RInit PROVE Rendering
  OBVIOUS
<1>1. \A u \in Users : uses[u] = <<>>
  BY DEF RInit
<1>2. uses \in [Users -> Seq(Used)] /\ references \in [Used -> 0 .. ReferenceMax]
  BY RendererAssumption DEF RInit
<1>3. RecordShape
  BY <1>1, <1>2, RendererAssumption DEF RecordShape, RInit
<1>4. Stopping
  BY DEF Stopping, RInit
<1>5. Phases
  BY <1>4 DEF Phases, RInit, Idle
<1>6. UsesCounted
  <2> SUFFICES ASSUME NEW o \in Used PROVE references[o] = Cardinality(Bound(Users, o))
    BY DEF UsesCounted
  <2>1. Bound(Users, o) = {}
    BY <1>1 DEF Bound
  <2>2. Cardinality(Bound(Users, o)) = 0
    BY <2>1, FS_EmptySet, Zenon
  <2> QED
    BY <2>2 DEF RInit
<1> QED
  BY <1>3, <1>5, <1>6 DEF Rendering, ReferencesProtect, InputsOutliveUsers, OpenPassHasTarget, RInit

\* The records and what they hold are left alone.
LEMMA RecordsKept ==
  ASSUME Rendering, UNCHANGED records
  PROVE  RecordShape' /\ UsesCounted' /\ InputsOutliveUsers'
<1>1. present' = present /\ references' = references /\ uses' = uses /\ mapped' = mapped
  BY DEF records
<1>2. \A o \in Used : Bound(Users, o)' = Bound(Users, o)
  BY <1>1 DEF Bound
<1>3. UsesCounted'
  BY <1>1, <1>2 DEF Rendering, ReferencesProtect, UsesCounted
<1> QED
  BY <1>1, <1>3 DEF Rendering, RecordShape, ReferencesProtect, InputsOutliveUsers

\* In use, a renderer has nothing to start or to stop.
LEMMA PhasesInUse ==
  ASSUME Phases, Usable, UNCHANGED <<backendUp, initialized, systems>>,
         frameActive' \in BOOLEAN, activeTarget' \in Targets \cup {NoTarget}
  PROVE  Phases'
<1>1. toStart = <<>> /\ toStop = <<>> /\ initialized
  BY DEF Usable, Idle
<1>2. toStart' = <<>> /\ toStop' = <<>> /\ ready' = ready /\ initialized' /\ backendUp' \in BOOLEAN
      /\ initialized' \in BOOLEAN
  BY <1>1 DEF systems, Phases
<1>3. Stopping'
  BY <1>2 DEF Stopping
<1> QED
  BY <1>2, <1>3 DEF Phases, Idle

\* R_Init brings the backend up.
LEMMA RenderingInit ==
  ASSUME Rendering, R_Init
  PROVE  Rendering'
<1>1. RecordShape' /\ UsesCounted' /\ InputsOutliveUsers'
  BY RecordsKept DEF R_Init
<1>2. /\ toStart = <<>> /\ toStop = <<>> /\ ~initialized /\ ready = {}
      /\ present = {} /\ ~frameActive /\ activeTarget = NoTarget
  BY DEF R_Init, Rendering, Phases, Idle
<1>3. /\ toStop' = <<>> /\ ready' = {} /\ present' = {} /\ activeTarget' = NoTarget
      /\ toStart' = StartOrder
  BY <1>2 DEF R_Init, records
<1>4. /\ ~initialized' /\ initialized' \in BOOLEAN /\ ~frameActive' /\ frameActive' \in BOOLEAN
      /\ backendUp' \in BOOLEAN
  BY <1>2 DEF R_Init, Rendering, Phases
<1>5. Stopping'
  BY <1>3 DEF Stopping
<1>6. /\ toStart' \in Seq(SystemNames) /\ Len(toStart') = 7 - 0 /\ toStart' # <<>>
      /\ \A i \in 1 .. 7 - 0 : toStart'[i] = StartOrder[0 + i]
  BY <1>3 DEF StartOrder, SystemNames
<1>7. Phases'
  <2>1. \E k \in 0 .. 6 :
            /\ toStart' \in Seq(SystemNames) /\ Len(toStart') = 7 - k
            /\ \A i \in 1 .. 7 - k : toStart'[i] = StartOrder[k + i]
            /\ ready' \subseteq Firsts(k)
    BY <1>3, <1>6
  <2> QED
    BY <1>3, <1>4, <1>5, <1>6, <2>1 DEF Phases, Idle
<1>8. OpenPassHasTarget'
  BY <1>3 DEF OpenPassHasTarget
<1> QED
  BY <1>1, <1>7, <1>8 DEF Rendering, ReferencesProtect

\* The next system starts.
LEMMA RenderingStartsSystem ==
  ASSUME Rendering, SystemStarts
  PROVE  Rendering'
<1>1. RecordShape' /\ UsesCounted' /\ InputsOutliveUsers'
  BY RecordsKept DEF SystemStarts
<1>2. /\ toStart # <<>> /\ toStop = <<>> /\ ~initialized
      /\ present = {} /\ ~frameActive /\ activeTarget = NoTarget
  BY DEF SystemStarts, Rendering, Phases, Idle
<1>3. PICK k \in 0 .. 6 :
            /\ toStart \in Seq(SystemNames) /\ Len(toStart) = 7 - k
            /\ \A i \in 1 .. 7 - k : toStart[i] = StartOrder[k + i]
            /\ ready \subseteq Firsts(k)
  BY <1>2 DEF Rendering, Phases
<1>4. /\ Head(toStart) = StartOrder[k + 1] /\ Head(toStart) \in SystemNames
      /\ Tail(toStart) \in Seq(SystemNames) /\ Len(Tail(toStart)) = 7 - (k + 1)
      /\ \A i \in 1 .. 7 - (k + 1) : Tail(toStart)[i] = StartOrder[(k + 1) + i]
      /\ Tail(toStart) = <<>> <=> k = 6
  <2>1. Len(toStart) >= 1
    BY <1>3
  <2>2. Head(toStart) = toStart[1] /\ Head(toStart) = StartOrder[k + 1] /\ Head(toStart) \in SystemNames
    BY <1>2, <1>3, <2>1
  <2>3. /\ Tail(toStart) \in Seq(SystemNames) /\ Len(Tail(toStart)) = Len(toStart) - 1
        /\ \A i \in 1 .. Len(toStart) - 1 : Tail(toStart)[i] = toStart[i + 1]
    BY <1>2, <1>3, <2>1, HeadTailProperties
  <2>4. \A i \in 1 .. 7 - (k + 1) : Tail(toStart)[i] = StartOrder[(k + 1) + i]
    <3> TAKE i \in 1 .. 7 - (k + 1)
    <3>1. i + 1 \in 1 .. 7 - k /\ i \in 1 .. Len(toStart) - 1 /\ k + (i + 1) = (k + 1) + i
      BY <1>3
    <3> QED
      BY <1>3, <2>3, <3>1
  <2>5. Tail(toStart) = <<>> <=> Len(Tail(toStart)) = 0
    BY <2>3
  <2> QED
    BY <1>3, <2>2, <2>3, <2>4, <2>5
<1>5. ready' \subseteq Firsts(k + 1) /\ ready' \subseteq SystemNames
  <2>1. ready' = ready \cup {Head(toStart)} /\ ready \subseteq SystemNames
    BY DEF SystemStarts, Rendering, Phases
  <2>2. Firsts(k) \subseteq Firsts(k + 1) /\ StartOrder[k + 1] \in Firsts(k + 1)
    BY DEF Firsts
  <2> QED
    BY <1>3, <1>4, <2>1, <2>2
<1>6. toStart' = Tail(toStart) /\ toStop' = <<>> /\ present' = {}
  BY <1>2 DEF SystemStarts, records
<1>7. activeTarget' = NoTarget
  BY <1>2 DEF SystemStarts, tr
<1>8. ~frameActive' /\ frameActive' \in BOOLEAN
  BY <1>2 DEF SystemStarts, tr, Rendering, Phases
<1>9. backendUp' \in BOOLEAN
  BY DEF SystemStarts, tr, Rendering, Phases
<1>10. initialized' \in BOOLEAN /\ (initialized' <=> Tail(toStart) = <<>>)
  BY <1>2 DEF SystemStarts, tr, Rendering, Phases
<1>11. Stopping'
  BY <1>6 DEF Stopping
<1>12. toStart' # <<>> =>
         \E j \in 0 .. 6 :
            /\ toStart' \in Seq(SystemNames) /\ Len(toStart') = 7 - j
            /\ \A i \in 1 .. 7 - j : toStart'[i] = StartOrder[j + i]
            /\ ready' \subseteq Firsts(j)
  <2> SUFFICES ASSUME toStart' # <<>>
               PROVE  \E j \in 0 .. 6 :
            /\ toStart' \in Seq(SystemNames) /\ Len(toStart') = 7 - j
            /\ \A i \in 1 .. 7 - j : toStart'[i] = StartOrder[j + i]
            /\ ready' \subseteq Firsts(j)
    OBVIOUS
  <2>1. k + 1 \in 0 .. 6
    BY <1>4, <1>6
  <2> WITNESS k + 1 \in 0 .. 6
  <2> QED
    BY <1>4, <1>5, <1>6
<1>13. Phases'
  BY <1>5, <1>6, <1>7, <1>8, <1>9, <1>10, <1>11, <1>12 DEF Phases, Idle
<1>14. OpenPassHasTarget'
  BY <1>7 DEF OpenPassHasTarget
<1> QED
  BY <1>1, <1>13, <1>14 DEF Rendering, ReferencesProtect

\* A system or the backend fails to start: what was started will be stopped.
LEMMA RenderingFails ==
  ASSUME Rendering, SystemFails
  PROVE  Rendering'
<1>1. RecordShape' /\ UsesCounted' /\ InputsOutliveUsers'
  BY RecordsKept DEF SystemFails
<1>2. /\ toStart # <<>> /\ toStop = <<>> /\ ~initialized
      /\ present = {} /\ ~frameActive /\ activeTarget = NoTarget
  BY DEF SystemFails, Rendering, Phases, Idle
<1>3. PICK k \in 0 .. 6 : Len(toStart) = 7 - k /\ ready \subseteq Firsts(k)
  BY <1>2 DEF Rendering, Phases
<1>4. Len(StartOrder) - Len(toStart) = k
  BY <1>3 DEF StartOrder
<1>5. /\ toStop' = Append(RolledBack(k), "backend") /\ toStart' = <<>>
      /\ ready' = ready /\ present' = {} /\ activeTarget' = NoTarget
  BY <1>2, <1>4 DEF SystemFails, tr, records
<1>6. /\ ~initialized' /\ initialized' \in BOOLEAN /\ ~frameActive' /\ frameActive' \in BOOLEAN
      /\ backendUp' \in BOOLEAN
  BY <1>2 DEF SystemFails, tr, Rendering, Phases
<1>7. /\ toStop' \in Seq(SystemNames \cup {"backend"}) /\ toStop' # <<>>
      /\ \A i \in DOMAIN toStop' : toStop'[i] = "backend" <=> i = Len(toStop')
      /\ Firsts(k) \subseteq ToSet(toStop')
  BY <1>5, RollsBackAll
<1>8. Stopping'
  BY <1>3, <1>5, <1>6, <1>7 DEF Stopping
<1>9. Phases'
  BY <1>5, <1>6, <1>7, <1>8 DEF Phases, Idle, Rendering
<1>10. OpenPassHasTarget'
  BY <1>5 DEF OpenPassHasTarget
<1> QED
  BY <1>1, <1>9, <1>10 DEF Rendering, ReferencesProtect

\* R_Shutdown begins to stop the systems, users first.
LEMMA RenderingShutdown ==
  ASSUME Rendering, R_Shutdown
  PROVE  Rendering'
<1>1. RecordShape' /\ UsesCounted' /\ InputsOutliveUsers'
  BY RecordsKept DEF R_Shutdown
<1>2. initialized /\ toStart = <<>> /\ ~frameActive /\ ready \subseteq SystemNames
  BY DEF R_Shutdown, Usable, Idle, Rendering, Phases
<1>3. /\ toStop' = Append(StopOrder, "backend") /\ toStart' = <<>> /\ ready' = ready
      /\ activeTarget' = activeTarget /\ present' = present
  BY <1>2 DEF R_Shutdown, tr, records
<1>4. /\ toStop' \in Seq(SystemNames \cup {"backend"}) /\ toStop' # <<>>
      /\ \A i \in DOMAIN toStop' : toStop'[i] = "backend" <=> i = Len(toStop')
      /\ SystemNames \subseteq ToSet(toStop') /\ UsersFirst(toStop')
  BY <1>3, OrdersWell
<1>5. /\ initialized' /\ initialized' \in BOOLEAN /\ ~frameActive' /\ frameActive' \in BOOLEAN
      /\ backendUp' \in BOOLEAN /\ activeTarget' \in Targets \cup {NoTarget}
  BY <1>2 DEF R_Shutdown, tr, Rendering, Phases
<1>6. Stopping'
  BY <1>2, <1>3, <1>4, <1>5 DEF Stopping
<1>7. Phases'
  BY <1>2, <1>3, <1>4, <1>5, <1>6 DEF Phases, Idle
<1>8. OpenPassHasTarget'
  BY <1>2, <1>3 DEF OpenPassHasTarget, Rendering, ReferencesProtect
<1> QED
  BY <1>1, <1>7, <1>8 DEF Rendering, ReferencesProtect

\* The backend goes down last.
LEMMA RenderingBackendStops ==
  ASSUME Rendering, BackendStops
  PROVE  Rendering'
<1>1. RecordShape' /\ UsesCounted' /\ InputsOutliveUsers'
  BY RecordsKept DEF BackendStops
<1>2. toStop # <<>> /\ Head(toStop) = "backend" /\ toStop \in Seq(SystemNames \cup {"backend"})
      /\ toStart = <<>>
  BY DEF BackendStops, Rendering, Phases, Stopping
<1>3. Len(toStop) = 1 /\ toStop[1] = "backend" /\ DOMAIN toStop = 1 .. 1
  <2>1. 1 \in DOMAIN toStop /\ toStop[1] = "backend" /\ DOMAIN toStop = 1 .. Len(toStop)
    BY <1>2
  <2>2. \A i \in DOMAIN toStop : toStop[i] = "backend" <=> i = Len(toStop)
    BY DEF Rendering, Phases, Stopping
  <2>3. Len(toStop) = 1
    BY <2>1, <2>2
  <2> QED
    BY <2>1, <2>3
<1>4. ToSet(toStop) = {"backend"} /\ "backend" \notin SystemNames
  BY <1>3 DEF ToSet, SystemNames
<1>5. ready = {}
  BY <1>2, <1>4 DEF Rendering, Phases, Stopping
<1>6. present = {}
  <2>1. CASE ~initialized
    BY <2>1 DEF Rendering, Phases
  <2>2. CASE initialized
    <3>1. \A s \in SystemNames : RecordsOf(s) \cap present = {}
      BY <1>2, <1>4, <2>2 DEF Rendering, Phases
    <3>2. present \subseteq Renderables
      BY DEF Rendering, RecordShape
    <3>3. \A o \in Renderables : \E s \in SystemNames : o \in RecordsOf(s)
      BY SystemsApart DEF SystemNames, Renderables, Used, Users
    <3> QED
      BY <3>1, <3>2, <3>3
  <2> QED
    BY <2>1, <2>2
<1>7. /\ toStop' = <<>> /\ toStart' = <<>> /\ ready' = {} /\ present' = {} /\ activeTarget' = NoTarget
  BY <1>2, <1>5, <1>6 DEF BackendStops, records
<1>8. /\ ~initialized' /\ initialized' \in BOOLEAN /\ ~frameActive' /\ frameActive' \in BOOLEAN
      /\ backendUp' \in BOOLEAN /\ ~backendUp'
  BY DEF BackendStops
<1>9. Stopping'
  BY <1>7 DEF Stopping
<1>10. Phases'
  BY <1>7, <1>8, <1>9 DEF Phases, Idle
<1>11. OpenPassHasTarget'
  BY <1>7 DEF OpenPassHasTarget
<1> QED
  BY <1>1, <1>10, <1>11 DEF Rendering, ReferencesProtect

\* The system whose turn it is has no users left.
LEMMA NobodyUsesStopped ==
  ASSUME Rendering, toStop # <<>>, Head(toStop) # "backend",
         NEW u \in Users, NEW i \in DOMAIN uses[u],
         uses[u][i] \in RecordsOf(Head(toStop)) \cap present
  PROVE  FALSE
<1> DEFINE h == Head(toStop)
<1>1. u \in present
  BY DEF Rendering, RecordShape
<1>2. initialized
  BY <1>1 DEF Rendering, Phases
<1>3. /\ UsersFirst(toStop) /\ toStop \in Seq(SystemNames \cup {"backend"})
      /\ \A s \in SystemNames \ ToSet(toStop) : RecordsOf(s) \cap present = {}
  BY <1>2 DEF Rendering, Phases, Stopping
<1>4. h = toStop[1] /\ 1 \in DOMAIN toStop /\ h \in SystemNames
  BY <1>3
<1> HIDE DEF h
<1>5. \A n \in SystemNames : <<h, n>> \in Feeding => n \notin ToSet(toStop)
  <2> SUFFICES ASSUME NEW j \in DOMAIN toStop, <<h, toStop[j]>> \in Feeding PROVE FALSE
    BY DEF ToSet
  <2>1. j < 1
    BY <1>3, <1>4 DEF UsersFirst
  <2>2. j \in 1 .. Len(toStop)
    BY <1>3
  <2> QED
    BY <2>1, <2>2
<1>6. \A n \in SystemNames : <<h, n>> \in Feeding => RecordsOf(n) \cap present = {}
  BY <1>3, <1>5
<1>7. uses[u][i] \in RecordsOf(h)
  BY DEF h
<1>8. ASSUME NEW n \in SystemNames, uses[u][i] \in RecordsOf(n) PROVE h = n
  BY <1>4, <1>7, <1>8, SystemsApart
<1>9. CASE u \in VertexInputs
  <2>1. uses[u][i] \in Buffers
    BY <1>9 DEF Rendering, RecordShape
  <2>2. h = "buffer"
    BY <1>8, <2>1, SystemsApart DEF SystemNames
  <2>3. RecordsOf("vertexInput") \cap present = {}
    BY <1>6, <2>2 DEF Feeding, SystemNames
  <2> QED
    BY <1>1, <1>9, <2>3, SystemsApart
<1>10. CASE u \in Pipelines
  <2>1. uses[u][i] \in Shaders
    BY <1>10 DEF Rendering, RecordShape
  <2>2. h = "shader"
    BY <1>8, <2>1, SystemsApart DEF SystemNames
  <2>3. RecordsOf("pipeline") \cap present = {}
    BY <1>6, <2>2 DEF Feeding, SystemNames
  <2> QED
    BY <1>1, <1>10, <2>3, SystemsApart
<1>11. CASE u \in Targets
  <2>1. uses[u][i] \in Textures
    BY <1>11 DEF Rendering, RecordShape
  <2>2. h = "texture"
    BY <1>8, <2>1, SystemsApart DEF SystemNames
  <2>3. RecordsOf("target") \cap present = {}
    BY <1>6, <2>2 DEF Feeding, SystemNames
  <2> QED
    BY <1>1, <1>11, <2>3, SystemsApart
<1> QED
  BY <1>9, <1>10, <1>11 DEF Users

\* A system stops and destroys its records, which nobody uses any more.
LEMMA RenderingStopsSystem ==
  ASSUME Rendering, SystemStops
  PROVE  Rendering'
<1> DEFINE h == Head(toStop)
           leaving == RecordsOf(h) \cap present
<1>1. toStop # <<>> /\ h # "backend" /\ toStop \in Seq(SystemNames \cup {"backend"}) /\ toStart = <<>>
      /\ ~frameActive
  BY DEF SystemStops, Rendering, Phases, Stopping
<1>2. /\ present' = present \ leaving
      /\ references' = [o \in Used |-> IF o \in leaving THEN 0
                                       ELSE references[o] - Cardinality(Bound(leaving \cap Users, o))]
      /\ uses' = [u \in Users |-> IF u \in leaving THEN <<>> ELSE uses[u]]
      /\ mapped' = mapped \ leaving
      /\ ready' = ready \ {h} /\ toStop' = Tail(toStop) /\ toStart' = toStart
      /\ UNCHANGED tr
  BY DEF SystemStops
<1>3. \A u \in Users : \A i \in DOMAIN uses[u] : uses[u][i] \notin leaving
  BY <1>1, NobodyUsesStopped
<1> HIDE DEF leaving
<1>4. \A o \in leaving : Bound(Users, o)' = {} /\ Bound(Users, o) = {}
  BY <1>2, <1>3 DEF Bound
<1>5. \A o \in Used : Bound(Users, o)' = Bound(Users, o) \ Bound(leaving \cap Users, o)
  BY <1>2 DEF Bound
<1>6. \A o \in Used : Cardinality(Bound(Users, o)') =
                        Cardinality(Bound(Users, o)) - Cardinality(Bound(leaving \cap Users, o))
  <2> TAKE o \in Used
  <2>1. Bound(Users, o) \cap Bound(leaving \cap Users, o) = Bound(leaving \cap Users, o)
    BY DEF Bound
  <2>2. IsFiniteSet(Bound(Users, o))
    BY BoundFinite
  <2>3. Cardinality(Bound(Users, o) \ Bound(leaving \cap Users, o)) =
          Cardinality(Bound(Users, o)) - Cardinality(Bound(Users, o) \cap Bound(leaving \cap Users, o))
    BY <2>2, FS_Difference
  <2> QED
    BY <1>5, <2>1, <2>3
<1>7. UsesCounted'
  <2> SUFFICES ASSUME NEW o \in Used PROVE references'[o] = Cardinality(Bound(Users, o)')
    BY DEF UsesCounted
  <2>1. CASE o \in leaving
    <3>1. Cardinality(Bound(Users, o)') = 0
      BY <1>4, <2>1, FS_EmptySet, Zenon
    <3> QED
      BY <1>2, <2>1, <3>1
  <2>2. CASE o \notin leaving
    BY <1>2, <1>6, <2>2 DEF Rendering, ReferencesProtect, UsesCounted
  <2> QED
    BY <2>1, <2>2
<1>8. references' \in [Used -> 0 .. ReferenceMax]
  <2>1. \A o \in Used : references'[o] \in 0 .. ReferenceMax
    <3> TAKE o \in Used
    <3>1. references[o] \in 0 .. ReferenceMax /\ references[o] = Cardinality(Bound(Users, o))
      BY DEF Rendering, RecordShape, ReferencesProtect, UsesCounted
    <3>2. Bound(Users, o)' \subseteq Bound(Users, o) /\ IsFiniteSet(Bound(Users, o))
      BY <1>5, BoundFinite
    <3>3. Cardinality(Bound(Users, o)') \in Nat
          /\ Cardinality(Bound(Users, o)') <= Cardinality(Bound(Users, o))
      BY <3>2, FS_Subset, FS_CardinalityType
    <3>4. references'[o] = Cardinality(Bound(Users, o)')
      BY <1>7 DEF UsesCounted
    <3> QED
      BY <3>1, <3>3, <3>4, RendererAssumption
  <2> QED
    BY <1>2, <2>1
<1>9. uses' \in [Users -> Seq(Used)]
  BY <1>2 DEF Rendering, RecordShape
<1>10. RecordShape'
  <2>1. \A u \in Users :
       /\ Len(uses'[u]) <= BindingsMax + 1
       /\ u \notin present' => uses'[u] = <<>>
       /\ \A i \in DOMAIN uses'[u] :
            /\ u \in VertexInputs => uses'[u][i] \in Buffers
            /\ u \in Pipelines => uses'[u][i] \in Shaders
            /\ u \in Targets => uses'[u][i] \in Textures
    <3> TAKE u \in Users
    <3>1. CASE u \in leaving
      <4>1. uses'[u] = <<>> /\ Len(uses'[u]) = 0 /\ DOMAIN uses'[u] = {}
        BY <1>2, <3>1
      <4> QED
        BY <4>1, RendererAssumption
    <3>2. CASE u \notin leaving
      BY <1>2, <3>2 DEF Rendering, RecordShape
    <3> QED
      BY <3>1, <3>2
  <2>2. present' \subseteq Renderables /\ mapped' \subseteq Buffers \cap present'
    BY <1>2 DEF Rendering, RecordShape
  <2> QED
    BY <1>8, <1>9, <2>1, <2>2 DEF RecordShape
<1>11. InputsOutliveUsers'
  <2> SUFFICES ASSUME NEW u \in present' \cap Users, NEW i \in DOMAIN uses'[u]
               PROVE  uses'[u][i] \in present'
    BY DEF InputsOutliveUsers, ToSet
  <2>1. u \in present /\ u \notin leaving /\ uses'[u] = uses[u]
    BY <1>2
  <2>2. uses[u][i] \in present /\ uses[u][i] \notin leaving
    BY <1>3, <2>1 DEF Rendering, ReferencesProtect, InputsOutliveUsers, ToSet
  <2> QED
    BY <1>2, <2>1, <2>2
<1>12. OpenPassHasTarget'
  BY <1>1, <1>2 DEF tr, OpenPassHasTarget, Rendering, ReferencesProtect
<1>13. /\ h = toStop[1] /\ Len(toStop) > 1 /\ h \in SystemNames
       /\ Tail(toStop) \in Seq(SystemNames \cup {"backend"}) /\ Tail(toStop) # <<>>
       /\ Len(Tail(toStop)) = Len(toStop) - 1
       /\ DOMAIN Tail(toStop) = 1 .. Len(toStop) - 1
       /\ \A i \in 1 .. Len(toStop) - 1 : Tail(toStop)[i] = toStop[i + 1] /\ i + 1 \in DOMAIN toStop
  <2>1. h = toStop[1] /\ 1 \in DOMAIN toStop /\ DOMAIN toStop = 1 .. Len(toStop) /\ Len(toStop) \in Nat
    BY <1>1
  <2>2. Len(toStop) # 1
    BY <1>1, <2>1 DEF Rendering, Phases, Stopping
  <2>3. h \in SystemNames
    BY <1>1, <2>1
  <2>4. /\ Tail(toStop) \in Seq(SystemNames \cup {"backend"}) /\ Len(Tail(toStop)) = Len(toStop) - 1
        /\ \A i \in 1 .. Len(toStop) - 1 : Tail(toStop)[i] = toStop[i + 1]
    BY <1>1, HeadTailProperties
  <2>5. Len(toStop) > 1
    BY <2>1, <2>2
  <2>6. DOMAIN Tail(toStop) = 1 .. Len(toStop) - 1 /\ Tail(toStop) # <<>>
    <3>1. DOMAIN Tail(toStop) = 1 .. Len(Tail(toStop))
      BY <2>4
    <3>2. Len(Tail(toStop)) > 0
      BY <2>1, <2>4, <2>5
    <3>3. Tail(toStop) # <<>>
      BY <3>2
    <3>4. 1 .. Len(Tail(toStop)) = 1 .. Len(toStop) - 1
      BY <2>4
    <3> QED
      BY <3>1, <3>3, <3>4
  <2>7. \A i \in 1 .. Len(toStop) - 1 : i + 1 \in DOMAIN toStop
    BY <2>1
  <2> QED
    BY <2>1, <2>3, <2>4, <2>5, <2>6, <2>7
<1>14. \A s : s \in ToSet(toStop) => s = h \/ s \in ToSet(Tail(toStop))
  <2> SUFFICES ASSUME NEW i \in DOMAIN toStop, toStop[i] # h
               PROVE  toStop[i] \in ToSet(Tail(toStop))
    BY DEF ToSet
  <2>1. i \in 1 .. Len(toStop) /\ i # 1 /\ Len(toStop) \in Nat
    BY <1>1, <1>13
  <2>2. i - 1 \in 1 .. Len(toStop) - 1 /\ (i - 1) + 1 = i
    BY <2>1
  <2>3. Tail(toStop)[i - 1] = toStop[i]
    BY <1>13, <2>2
  <2> QED
    BY <1>13, <2>2, <2>3 DEF ToSet
<1>15. Stopping'
  <2>1. \A i \in DOMAIN toStop' : toStop'[i] = "backend" <=> i = Len(toStop')
    <3> SUFFICES ASSUME NEW i \in 1 .. Len(toStop) - 1
                 PROVE  toStop[i + 1] = "backend" <=> i = Len(toStop) - 1
      BY <1>2, <1>13
    <3>1. toStop[i + 1] = "backend" <=> i + 1 = Len(toStop)
      BY <1>13 DEF Rendering, Phases, Stopping
    <3>2. i + 1 = Len(toStop) <=> i = Len(toStop) - 1
      BY <1>1
    <3> QED
      BY <3>1, <3>2
  <2>2. ready' \subseteq ToSet(toStop')
    BY <1>1, <1>2, <1>14 DEF Rendering, Phases, Stopping
  <2>3. ~frameActive'
    BY <1>1, <1>2 DEF tr
  <2> QED
    BY <1>1, <1>2, <1>13, <2>1, <2>2, <2>3 DEF Stopping
<1>16. initialized =>
         /\ UsersFirst(toStop')
         /\ \A s \in SystemNames \ ToSet(toStop') : RecordsOf(s) \cap present' = {}
  <2> SUFFICES ASSUME initialized
               PROVE  /\ UsersFirst(toStop')
                      /\ \A s \in SystemNames \ ToSet(toStop') : RecordsOf(s) \cap present' = {}
    OBVIOUS
  <2>1. /\ UsersFirst(toStop)
        /\ \A s \in SystemNames \ ToSet(toStop) : RecordsOf(s) \cap present = {}
    BY <1>1 DEF Rendering, Phases
  <2>2. UsersFirst(toStop')
    <3> SUFFICES ASSUME NEW i \in 1 .. Len(toStop) - 1, NEW j \in 1 .. Len(toStop) - 1,
                        <<toStop[i + 1], toStop[j + 1]>> \in Feeding
                 PROVE  j < i
      BY <1>2, <1>13 DEF UsersFirst
    <3>1. j + 1 < i + 1
      BY <1>13, <2>1 DEF UsersFirst
    <3> QED
      BY <3>1
  <2>3. ASSUME NEW s \in SystemNames \ ToSet(toStop') PROVE RecordsOf(s) \cap present' = {}
    <3>1. s = h \/ s \in SystemNames \ ToSet(toStop)
      BY <1>2, <1>14
    <3> QED
      BY <1>2, <2>1, <3>1 DEF leaving
  <2> QED
    BY <2>2, <2>3
<1>17. /\ backendUp' \in BOOLEAN /\ initialized' \in BOOLEAN /\ frameActive' \in BOOLEAN
       /\ activeTarget' \in Targets \cup {NoTarget} /\ (initialized' <=> initialized)
  BY <1>2 DEF tr, Rendering, Phases
<1>18. ~initialized' => present' = {} /\ ~frameActive' /\ activeTarget' = NoTarget
  BY <1>2 DEF tr, Rendering, Phases
<1>19. ready' \subseteq SystemNames /\ toStart' = <<>> /\ toStop' # <<>>
  BY <1>1, <1>2, <1>13 DEF Rendering, Phases
<1>20. Phases'
  BY <1>15, <1>16, <1>17, <1>18, <1>19 DEF Phases, Idle
<1> QED
  BY <1>7, <1>10, <1>11, <1>12, <1>20 DEF Rendering, ReferencesProtect

\* The state of the frame has its types.
LEMMA FlagsTyped ==
  ASSUME Rendering
  PROVE  /\ frameActive \in BOOLEAN /\ activeTarget \in Targets \cup {NoTarget}
         /\ present \subseteq Renderables /\ mapped \subseteq Buffers \cap present
BY DEF Rendering, Phases, RecordShape

\* A record that uses no other is created.
LEMMA RenderingCreate ==
  ASSUME Rendering, NEW o \in Used \cup Samplers, Create(o)
  PROVE  Rendering'
<1>1. /\ Usable /\ o \notin present /\ present' = present \cup {o}
      /\ references' = references /\ uses' = uses /\ mapped' = mapped
      /\ UNCHANGED systems /\ activeTarget' = activeTarget /\ frameActive' = frameActive
      /\ backendUp' = backendUp /\ initialized' = initialized
  BY DEF Create, tr
<1>2. o \in Renderables
  BY DEF Renderables
<1>3. RecordShape'
  BY <1>1, <1>2 DEF Rendering, RecordShape
<1>4. UsesCounted'
  <2>1. \A x \in Used : Bound(Users, x)' = Bound(Users, x)
    BY <1>1 DEF Bound
  <2> QED
    BY <1>1, <2>1 DEF Rendering, ReferencesProtect, UsesCounted
<1>5. InputsOutliveUsers'
  <2> SUFFICES ASSUME NEW u \in present' \cap Users PROVE ToSet(uses[u]) \subseteq present'
    BY <1>1 DEF InputsOutliveUsers
  <2>1. CASE u \in present
    BY <1>1, <2>1 DEF Rendering, ReferencesProtect, InputsOutliveUsers
  <2>2. CASE u \notin present
    <3>1. uses[u] = <<>>
      BY <2>2 DEF Rendering, RecordShape
    <3> QED
      BY <3>1 DEF ToSet
  <2> QED
    BY <2>1, <2>2
<1>6. OpenPassHasTarget'
  BY <1>1 DEF Rendering, ReferencesProtect, OpenPassHasTarget
<1>7. Phases'
  BY <1>1, FlagsTyped, PhasesInUse DEF Rendering
<1> QED
  BY <1>3, <1>4, <1>5, <1>6, <1>7 DEF Rendering, ReferencesProtect

\* A record is destroyed only when nothing refers to it.
LEMMA RenderingDestroy ==
  ASSUME Rendering, NEW o \in Used \cup Samplers, Destroy(o)
  PROVE  Rendering'
<1>1. /\ Usable /\ o \in present /\ ~Busy(o) /\ present' = present \ {o}
      /\ references' = references /\ uses' = uses /\ mapped' = mapped
      /\ UNCHANGED systems /\ activeTarget' = activeTarget /\ frameActive' = frameActive
      /\ backendUp' = backendUp /\ initialized' = initialized
  BY DEF Destroy, tr
<1>2. o \notin Users /\ (o \in Used => o \notin Samplers) /\ o \notin Targets
  BY SystemsApart DEF Used, Users, SystemNames
<1>3. o \notin mapped
  <2>1. CASE o \in Used
    BY <1>1, <2>1 DEF Busy
  <2>2. CASE o \notin Used
    BY <2>2 DEF Rendering, RecordShape, Used
  <2> QED
    BY <2>1, <2>2
<1>4. RecordShape'
  BY <1>1, <1>2, <1>3 DEF Rendering, RecordShape
<1>5. UsesCounted'
  <2>1. \A x \in Used : Bound(Users, x)' = Bound(Users, x)
    BY <1>1 DEF Bound
  <2> QED
    BY <1>1, <2>1 DEF Rendering, ReferencesProtect, UsesCounted
<1>6. InputsOutliveUsers'
  <2> SUFFICES ASSUME NEW u \in present \cap Users, NEW i \in DOMAIN uses[u] PROVE uses[u][i] # o
    BY <1>1 DEF InputsOutliveUsers, ToSet, Rendering, ReferencesProtect
  <2>1. uses[u] \in Seq(Used) /\ Len(uses[u]) <= BindingsMax + 1 /\ uses[u][i] \in Used
    BY DEF Rendering, RecordShape
  <2>2. CASE o \notin Used
    BY <2>1, <2>2
  <2>3. CASE o \in Used
    <3>1. references[o] = 0
      BY <1>1, <2>3 DEF Busy
    <3>2. Cardinality(Bound(Users, o)) = 0
      BY <2>3, <3>1 DEF Rendering, ReferencesProtect, UsesCounted
    <3>3. Bound(Users, o) = {}
      BY <3>2, BoundFinite, FS_EmptySet
    <3>4. i \in 1 .. BindingsMax + 1
      BY <2>1, RendererAssumption
    <3>5. <<u, i>> \notin Bound(Users, o)
      BY <3>3
    <3> QED
      BY <3>4, <3>5 DEF Bound
  <2> QED
    BY <2>2, <2>3
<1>7. OpenPassHasTarget'
  BY <1>1, <1>2, FlagsTyped DEF Rendering, ReferencesProtect, OpenPassHasTarget
<1>8. Phases'
  BY <1>1, FlagsTyped, PhasesInUse DEF Rendering
<1> QED
  BY <1>4, <1>5, <1>6, <1>7, <1>8 DEF Rendering, ReferencesProtect

\* A buffer is mapped or unmapped.
LEMMA RenderingMaps ==
  ASSUME Rendering, NEW b \in Buffers, R_MapBuffer(b) \/ R_UnmapBuffer(b)
  PROVE  Rendering'
<1>1. /\ Usable /\ present' = present
      /\ references' = references /\ uses' = uses
      /\ UNCHANGED systems /\ activeTarget' = activeTarget /\ frameActive' = frameActive
      /\ backendUp' = backendUp /\ initialized' = initialized
      /\ mapped' \subseteq Buffers \cap present
  BY FlagsTyped DEF R_MapBuffer, R_UnmapBuffer, tr
<1>2. RecordShape'
  BY <1>1 DEF Rendering, RecordShape
<1>3. UsesCounted'
  <2>1. \A x \in Used : Bound(Users, x)' = Bound(Users, x)
    BY <1>1 DEF Bound
  <2> QED
    BY <1>1, <2>1 DEF Rendering, ReferencesProtect, UsesCounted
<1>4. InputsOutliveUsers' /\ OpenPassHasTarget'
  BY <1>1 DEF Rendering, ReferencesProtect, InputsOutliveUsers, OpenPassHasTarget
<1>5. Phases'
  BY <1>1, FlagsTyped, PhasesInUse DEF Rendering
<1> QED
  BY <1>2, <1>3, <1>4, <1>5 DEF Rendering, ReferencesProtect

\* The buffers that a vertex input can bind.
LEMMA BindingsTyped ==
  ASSUME present \subseteq Renderables, NEW inputs \in Bindings(BindingsMax)
  PROVE  inputs \in Seq(Buffers \cap present) /\ Len(inputs) <= BindingsMax
<1>1. PICK k \in 1 .. BindingsMax : inputs \in [1 .. k -> Buffers \cap present]
  BY DEF Bindings
<1>2. k \in Nat
  BY RendererAssumption
<1> QED
  BY <1>1, <1>2, RendererAssumption

\* What a user can be created with.
LEMMA InputsTyped ==
  ASSUME Rendering, NEW u \in Users, NEW inputs \in InputsOf(u)
  PROVE  /\ inputs \in Seq(Used) /\ Len(inputs) <= BindingsMax + 1
         /\ ToSet(inputs) \subseteq present
         /\ \A i \in DOMAIN inputs :
              /\ u \in VertexInputs => inputs[i] \in Buffers
              /\ u \in Pipelines => inputs[i] \in Shaders
              /\ u \in Targets => inputs[i] \in Textures
<1>1. /\ u \in VertexInputs => u \notin Pipelines /\ u \notin Targets
      /\ u \in Pipelines => u \notin Targets
  BY SystemsApart DEF SystemNames
<1>2. BindingsMax \in Nat \ {0} /\ present \subseteq Renderables
  BY RendererAssumption, FlagsTyped
<1>3. CASE u \in VertexInputs
  <2>1. inputs \in Bindings(BindingsMax)
    BY <1>3 DEF InputsOf
  <2>2. inputs \in Seq(Buffers \cap present) /\ Len(inputs) <= BindingsMax
    BY <1>2, <2>1, BindingsTyped
  <2> QED
    BY <1>1, <1>2, <1>3, <2>2 DEF Used, ToSet
<1>4. CASE u \in Pipelines
  <2>1. inputs \in [{1} -> Shaders \cap present]
    BY <1>1, <1>4 DEF InputsOf
  <2>2. inputs \in [1 .. 1 -> Shaders \cap present]
    BY <2>1
  <2>3. inputs \in Seq(Shaders \cap present) /\ Len(inputs) <= 2
    BY <2>2
  <2> QED
    BY <1>1, <1>2, <1>4, <2>3 DEF Used, ToSet
<1>5. CASE u \in Targets
  <2>1. \/ inputs \in [{1} -> Textures \cap present]
        \/ \E p \in (Textures \cap present) \X (Textures \cap present) : inputs = <<p[1], p[2]>>
    BY <1>1, <1>5 DEF InputsOf
  <2>2. inputs \in Seq(Textures \cap present) /\ Len(inputs) <= 2
    <3>1. CASE inputs \in [{1} -> Textures \cap present]
      <4>1. inputs \in [1 .. 1 -> Textures \cap present]
        BY <3>1
      <4> QED
        BY <4>1
    <3>2. CASE \E p \in (Textures \cap present) \X (Textures \cap present) : inputs = <<p[1], p[2]>>
      BY <3>2
    <3> QED
      BY <2>1, <3>1, <3>2
  <2> QED
    BY <1>1, <1>2, <1>5, <2>2 DEF Used, ToSet
<1> QED
  BY <1>3, <1>4, <1>5 DEF Users

\* A vertex input, pipeline or target is created, or refused with its references
\* given back.
LEMMA RenderingCreateUser ==
  ASSUME Rendering, NEW u \in Users, CreateUser(u)
  PROVE  Rendering'
<1>1. /\ Usable /\ u \notin present /\ mapped' = mapped
      /\ UNCHANGED systems /\ activeTarget' = activeTarget /\ frameActive' = frameActive
      /\ backendUp' = backendUp /\ initialized' = initialized
  BY DEF CreateUser, tr
<1>2. PICK inputs \in InputsOf(u) :
       \/ /\ Refusals(inputs) = {}
          /\ references' = Added(references, inputs)
          /\ uses' = [uses EXCEPT ![u] = inputs] /\ present' = present \cup {u}
       \/ AcquiresInVain(inputs) /\ UNCHANGED <<uses, present>>
  BY DEF CreateUser
<1>3. /\ inputs \in Seq(Used) /\ Len(inputs) <= BindingsMax + 1
      /\ ToSet(inputs) \subseteq present
      /\ \A i \in DOMAIN inputs :
           /\ u \in VertexInputs => inputs[i] \in Buffers
           /\ u \in Pipelines => inputs[i] \in Shaders
           /\ u \in Targets => inputs[i] \in Textures
  BY InputsTyped
<1>4. /\ references \in [Used -> 0 .. ReferenceMax] /\ uses \in [Users -> Seq(Used)]
      /\ uses[u] = <<>>
  BY <1>1 DEF Rendering, RecordShape
<1>5. CASE AcquiresInVain(inputs) /\ UNCHANGED <<uses, present>>
  <2>1. references' = references
    BY <1>3, <1>4, <1>5, VainLeavesCounts
  <2>2. UNCHANGED records
    BY <1>1, <1>5, <2>1 DEF records
  <2>3. OpenPassHasTarget'
    BY <1>1, <1>5 DEF Rendering, ReferencesProtect, OpenPassHasTarget
  <2>4. Phases'
    BY <1>1, FlagsTyped, PhasesInUse DEF Rendering
  <2> QED
    BY <2>2, <2>3, <2>4, RecordsKept DEF Rendering, ReferencesProtect
<1>6. CASE /\ Refusals(inputs) = {}
           /\ references' = Added(references, inputs)
           /\ uses' = [uses EXCEPT ![u] = inputs] /\ present' = present \cup {u}
  <2>1. \A o \in Used : references'[o] = references[o] + Occurrences(inputs, o)
    BY <1>6 DEF Added
  <2>2. references' \in [Used -> 0 .. ReferenceMax]
    <3>1. \A o \in Used : references[o] + Occurrences(inputs, o) \in 0 .. ReferenceMax
      BY <1>3, <1>4, <1>6, InputsFit
    <3> QED
      BY <1>6, <3>1 DEF Added
  <2>3. /\ uses' \in [Users -> Seq(Used)]
        /\ \A v \in Users : uses'[v] = IF v = u THEN inputs ELSE uses[v]
    BY <1>3, <1>4, <1>6
  <2>4. RecordShape'
    <3>1. \A v \in Users :
       /\ Len(uses'[v]) <= BindingsMax + 1
       /\ v \notin present' => uses'[v] = <<>>
       /\ \A i \in DOMAIN uses'[v] :
            /\ v \in VertexInputs => uses'[v][i] \in Buffers
            /\ v \in Pipelines => uses'[v][i] \in Shaders
            /\ v \in Targets => uses'[v][i] \in Textures
      <4> TAKE v \in Users
      <4>1. CASE v = u
        BY <1>3, <1>6, <2>3, <4>1
      <4>2. CASE v # u
        BY <1>6, <2>3, <4>2 DEF Rendering, RecordShape
      <4> QED
        BY <4>1, <4>2
    <3>2. present' \subseteq Renderables /\ mapped' \subseteq Buffers \cap present'
      BY <1>1, <1>6, FlagsTyped DEF Renderables
    <3> QED
      BY <2>2, <2>3, <3>1, <3>2 DEF RecordShape
  <2>5. UsesCounted'
    <3> SUFFICES ASSUME NEW o \in Used PROVE references'[o] = Cardinality(Bound(Users, o)')
      BY DEF UsesCounted
    <3>1. Cardinality(Bound(Users, o)') =
            Cardinality(Bound(Users, o)) - Occurrences(uses[u], o) + Occurrences(inputs, o)
      BY <1>6, <2>4, OneUserChanges DEF Rendering
    <3>2. Occurrences(uses[u], o) = 0
      <4>1. {i \in DOMAIN uses[u] : uses[u][i] = o} = {}
        BY <1>4
      <4> QED
        BY <4>1, FS_EmptySet, Zenon DEF Occurrences
    <3>3. references[o] = Cardinality(Bound(Users, o)) /\ Cardinality(Bound(Users, o)) \in Nat
      BY BoundFinite DEF Rendering, ReferencesProtect, UsesCounted
    <3>4. Occurrences(inputs, o) \in Nat
      BY <1>3, DomainsFinite, OccurrencesCounted
    <3> QED
      BY <2>1, <3>1, <3>2, <3>3, <3>4
  <2>6. InputsOutliveUsers'
    <3> SUFFICES ASSUME NEW v \in present' \cap Users PROVE ToSet(uses'[v]) \subseteq present'
      BY DEF InputsOutliveUsers
    <3>1. CASE v = u
      BY <1>3, <1>6, <2>3, <3>1
    <3>2. CASE v # u
      BY <1>6, <2>3, <3>2 DEF Rendering, ReferencesProtect, InputsOutliveUsers
    <3> QED
      BY <3>1, <3>2
  <2>7. OpenPassHasTarget'
    BY <1>1, <1>6 DEF Rendering, ReferencesProtect, OpenPassHasTarget
  <2>8. Phases'
    BY <1>1, FlagsTyped, PhasesInUse DEF Rendering
  <2> QED
    BY <2>4, <2>5, <2>6, <2>7, <2>8 DEF Rendering, ReferencesProtect
<1> QED
  BY <1>2, <1>5, <1>6

\* A user is destroyed and gives its references back.
LEMMA RenderingDestroyUser ==
  ASSUME Rendering, NEW u \in Users, DestroyUser(u)
  PROVE  Rendering'
<1>1. /\ Usable /\ u \in present /\ mapped' = mapped /\ BetweenFrames(u)
      /\ UNCHANGED systems /\ activeTarget' = activeTarget /\ frameActive' = frameActive
      /\ backendUp' = backendUp /\ initialized' = initialized
      /\ references' = Dropped(references, uses[u])
      /\ uses' = [uses EXCEPT ![u] = <<>>] /\ present' = present \ {u}
  BY DEF DestroyUser, tr
<1>2. /\ references \in [Used -> 0 .. ReferenceMax] /\ uses \in [Users -> Seq(Used)]
      /\ uses[u] \in Seq(Used)
  BY DEF Rendering, RecordShape
<1>3. \A o \in Used : references'[o] = references[o] - Occurrences(uses[u], o)
  BY <1>1 DEF Dropped
<1>4. \A o \in Used : /\ Occurrences(uses[u], o) \in Nat
                      /\ Occurrences(uses[u], o) <= references[o]
  <2> TAKE o \in Used
  <2>1. /\ Cardinality(Bound(Users, o)) =
             Cardinality(Bound(Users \ {u}, o)) + Occurrences(uses[u], o)
        /\ Occurrences(uses[u], o) \in Nat
        /\ Cardinality(Bound(Users \ {u}, o)) \in Nat
    BY BoundsAlwaysSplit DEF BoundsSplit, Rendering
  <2>2. references[o] = Cardinality(Bound(Users, o))
    BY DEF Rendering, ReferencesProtect, UsesCounted
  <2> QED
    BY <2>1, <2>2
<1>5. references' \in [Used -> 0 .. ReferenceMax]
  <2>1. \A o \in Used : references[o] - Occurrences(uses[u], o) \in 0 .. ReferenceMax
    BY <1>2, <1>4, RendererAssumption
  <2> QED
    BY <1>1, <2>1 DEF Dropped
<1>6. /\ uses' \in [Users -> Seq(Used)]
      /\ \A v \in Users : uses'[v] = IF v = u THEN <<>> ELSE uses[v]
  BY <1>1, <1>2
<1>7. u \notin Used
  BY SystemsApart DEF Used, Users, SystemNames
<1>8. RecordShape'
  <2>1. \A v \in Users :
       /\ Len(uses'[v]) <= BindingsMax + 1
       /\ v \notin present' => uses'[v] = <<>>
       /\ \A i \in DOMAIN uses'[v] :
            /\ v \in VertexInputs => uses'[v][i] \in Buffers
            /\ v \in Pipelines => uses'[v][i] \in Shaders
            /\ v \in Targets => uses'[v][i] \in Textures
    <3> TAKE v \in Users
    <3>1. CASE v = u
      BY <1>6, <3>1, RendererAssumption
    <3>2. CASE v # u
      BY <1>1, <1>6, <3>2 DEF Rendering, RecordShape
    <3> QED
      BY <3>1, <3>2
  <2>2. present' \subseteq Renderables /\ mapped' \subseteq Buffers \cap present'
    BY <1>1, <1>7, FlagsTyped DEF Used
  <2> QED
    BY <1>5, <1>6, <2>1, <2>2 DEF RecordShape
<1>9. UsesCounted'
  <2> SUFFICES ASSUME NEW o \in Used PROVE references'[o] = Cardinality(Bound(Users, o)')
    BY DEF UsesCounted
  <2>1. Cardinality(Bound(Users, o)') =
          Cardinality(Bound(Users, o)) - Occurrences(uses[u], o) + Occurrences(<<>>, o)
    BY <1>1, <1>8, OneUserChanges DEF Rendering
  <2>2. Occurrences(<<>>, o) = 0
    <3>1. {i \in DOMAIN <<>> : <<>>[i] = o} = {}
      OBVIOUS
    <3> QED
      BY <3>1, FS_EmptySet, Zenon DEF Occurrences
  <2>3. references[o] = Cardinality(Bound(Users, o)) /\ Cardinality(Bound(Users, o)) \in Nat
    BY BoundFinite DEF Rendering, ReferencesProtect, UsesCounted
  <2> QED
    BY <1>3, <1>4, <2>1, <2>2, <2>3
<1>10. InputsOutliveUsers'
  <2> SUFFICES ASSUME NEW v \in present' \cap Users, NEW i \in DOMAIN uses'[v]
               PROVE  uses'[v][i] \in present'
    BY DEF InputsOutliveUsers, ToSet
  <2>1. v \in present /\ v # u /\ uses'[v] = uses[v]
    BY <1>1, <1>6
  <2>2. uses[v][i] \in present
    BY <2>1 DEF Rendering, ReferencesProtect, InputsOutliveUsers, ToSet
  <2>3. uses[v][i] \in Used
    BY <2>1 DEF Rendering, RecordShape
  <2> QED
    BY <1>1, <1>7, <2>1, <2>2, <2>3
<1>11. OpenPassHasTarget'
  <2> SUFFICES ASSUME activeTarget # NoTarget PROVE frameActive /\ activeTarget \in present'
    BY <1>1 DEF OpenPassHasTarget
  <2>1. frameActive /\ activeTarget \in present /\ activeTarget \in Targets
    BY FlagsTyped DEF Rendering, ReferencesProtect, OpenPassHasTarget
  <2>2. u \notin Targets
    BY <1>1, <2>1 DEF BetweenFrames
  <2> QED
    BY <1>1, <2>1, <2>2
<1>12. Phases'
  BY <1>1, FlagsTyped, PhasesInUse DEF Rendering
<1> QED
  BY <1>8, <1>9, <1>10, <1>11, <1>12 DEF Rendering, ReferencesProtect

\* Frames, passes and draws leave the records as they are.
LEMMA RenderingFrames ==
  ASSUME Rendering,
         \/ R_BeginFrame \/ R_EndFrame \/ R_EndTargetPass
         \/ \E t \in Targets : R_BeginTargetPass(t)
         \/ \E p \in Pipelines, v \in VertexInputs : R_DrawIndexed(p, v)
  PROVE  Rendering'
<1>1. Usable /\ UNCHANGED <<backendUp, initialized, systems>> /\ UNCHANGED <<present, uses, mapped>>
  BY DEF R_BeginFrame, R_EndFrame, R_EndTargetPass, R_BeginTargetPass, R_DrawIndexed, tr, records
<1>2. references' = references
  <2>1. CASE \E p \in Pipelines, v \in VertexInputs : R_DrawIndexed(p, v)
    <3>1. PICK uniforms \in Bindings(BindingsMax) : AcquiresInVain(uniforms)
      BY <2>1 DEF R_DrawIndexed
    <3>2. uniforms \in Seq(Buffers \cap present)
      BY FlagsTyped, BindingsTyped
    <3>3. references \in [Used -> 0 .. ReferenceMax]
      BY DEF Rendering, RecordShape
    <3> QED
      BY <3>1, <3>2, <3>3, VainLeavesCounts
  <2>2. CASE \/ R_BeginFrame \/ R_EndFrame \/ R_EndTargetPass
             \/ \E t \in Targets : R_BeginTargetPass(t)
    BY <2>2 DEF R_BeginFrame, R_EndFrame, R_EndTargetPass, R_BeginTargetPass, records
  <2> QED
    BY <2>1, <2>2
<1>3. RecordShape' /\ UsesCounted' /\ InputsOutliveUsers'
  BY <1>1, <1>2, RecordsKept DEF records
<1>4. /\ frameActive' \in BOOLEAN /\ activeTarget' \in Targets \cup {NoTarget}
      /\ OpenPassHasTarget'
  <2>1. CASE R_BeginFrame
    BY <1>1, <2>1, FlagsTyped DEF R_BeginFrame, Rendering, ReferencesProtect, OpenPassHasTarget
  <2>2. CASE R_EndFrame
    BY <1>1, <2>2, FlagsTyped DEF R_EndFrame, Rendering, ReferencesProtect, OpenPassHasTarget
  <2>3. CASE R_EndTargetPass
    BY <1>1, <2>3, FlagsTyped DEF R_EndTargetPass, Rendering, ReferencesProtect, OpenPassHasTarget
  <2>4. CASE \E t \in Targets : R_BeginTargetPass(t)
    BY <1>1, <2>4, FlagsTyped DEF R_BeginTargetPass, Rendering, ReferencesProtect, OpenPassHasTarget
  <2>5. CASE \E p \in Pipelines, v \in VertexInputs : R_DrawIndexed(p, v)
    BY <1>1, <2>5, FlagsTyped DEF R_DrawIndexed, tr, Rendering, ReferencesProtect, OpenPassHasTarget
  <2> QED
    BY <2>1, <2>2, <2>3, <2>4, <2>5
<1>5. Phases'
  BY <1>1, <1>4, PhasesInUse DEF Rendering
<1> QED
  BY <1>3, <1>4, <1>5 DEF Rendering, ReferencesProtect

\* Every step keeps the invariant.
LEMMA RenderingSteps == Rendering /\ [RNext]_rvars => Rendering'
<1> SUFFICES ASSUME Rendering, [RNext]_rvars PROVE Rendering'
  OBVIOUS
<1>1. CASE UNCHANGED rvars
  <2>1. UNCHANGED records /\ UNCHANGED tr /\ UNCHANGED systems
    BY <1>1 DEF rvars
  <2>2. RecordShape' /\ UsesCounted' /\ InputsOutliveUsers'
    BY <2>1, RecordsKept
  <2>3. Phases' /\ OpenPassHasTarget'
    BY <2>1 DEF Rendering, Phases, Stopping, Idle, ReferencesProtect, OpenPassHasTarget, tr, systems, records
  <2> QED
    BY <2>2, <2>3 DEF Rendering, ReferencesProtect
<1>2. CASE RNext
  <2>1. CASE \/ R_BeginFrame \/ R_EndFrame \/ R_EndTargetPass
             \/ \E t \in Targets : R_BeginTargetPass(t)
             \/ \E p \in Pipelines, v \in VertexInputs : R_DrawIndexed(p, v)
    BY <2>1, RenderingFrames
  <2>2. CASE \/ R_Init \/ SystemStarts \/ SystemFails \/ R_Shutdown \/ SystemStops \/ BackendStops
    BY <2>2, RenderingInit, RenderingStartsSystem, RenderingFails, RenderingShutdown,
       RenderingStopsSystem, RenderingBackendStops
  <2>3. CASE \/ \E o \in Used \cup Samplers : Create(o) \/ Destroy(o)
             \/ \E b \in Buffers : R_MapBuffer(b) \/ R_UnmapBuffer(b)
             \/ \E u \in Users : CreateUser(u) \/ DestroyUser(u)
    BY <2>3, RenderingCreate, RenderingDestroy, RenderingMaps, RenderingCreateUser,
       RenderingDestroyUser
  <2> QED
    BY <1>2, <2>1, <2>2, <2>3 DEF RNext
<1> QED
  BY <1>1, <1>2

\* For any number of records and any limit of references: the count on a record is the
\* number of references that users hold on it, no record is destroyed under a user, in a
\* shutdown or after a failed start either, an open pass has its target, and a renderer
\* that is down has left nothing behind.
THEOREM RendererAlwaysSound == RSpec => []RendererSound
<1>1. Rendering => RendererSound
  BY DEF Rendering, RendererSound, Phases, CleanWhenDown
<1> QED
  BY <1>1, RenderingStarts, RenderingSteps, PTL DEF RSpec

\* For any number of records the renderer keeps its shape.
THEOREM RendererTyped == RSpec => []RTypeOK
<1>1. Rendering => RTypeOK
  <2> SUFFICES ASSUME Rendering PROVE RTypeOK
    OBVIOUS
  <2>1. ready \subseteq ToSet(StartOrder)
    BY SystemsApart DEF Rendering, Phases
  <2>2. DOMAIN uses = Users /\ \A u \in Users : ToSet(uses[u]) \subseteq Used
    BY DEF Rendering, RecordShape, ToSet
  <2> QED
    BY <2>1, <2>2 DEF RTypeOK, Rendering, RecordShape, Phases
<1> QED
  BY <1>1, RenderingStarts, RenderingSteps, PTL DEF RSpec

-----------------------------------------------------------------------------
(* The parts side by side. *)

\* A behaviour of the parts side by side is one of each part, so that what is proved of a
\* part, here or in the modules extended, holds in the run that checks them together.
THEOREM PartsRun ==
  EngineSpec => /\ GSpec /\ ESpec /\ WSpec /\ QSpec
                /\ XSpec /\ BSpec /\ LSpec /\ RSpec /\ HSpec
<1>1. EngineInit => GInit /\ EInit /\ WInit /\ QInit /\ XInit /\ BInit /\ LInit /\ RInit /\ HInit
  BY DEF EngineInit
<1>2. [EngineNext]_engineVars => /\ [GNext]_gvars /\ [ENext]_evars /\ [WNext]_wvars /\ [QNext]_qvars
                                 /\ [XNext]_xvars /\ [BNext]_bvars /\ [LNext]_lvars /\ [RNext]_rvars
                                 /\ [HNext]_hvars
  BY DEF EngineNext, engineVars
<1>3. EngineSpec => GSpec /\ ESpec /\ WSpec
  BY <1>1, <1>2, PTL DEF EngineSpec, GSpec, ESpec, WSpec
<1>4. EngineSpec => QSpec /\ XSpec /\ BSpec
  BY <1>1, <1>2, PTL DEF EngineSpec, QSpec, XSpec, BSpec
<1>5. EngineSpec => LSpec /\ RSpec /\ HSpec
  BY <1>1, <1>2, PTL DEF EngineSpec, LSpec, RSpec, HSpec
<1> QED
  BY <1>3, <1>4, <1>5, Zenon

\* EngineTypeOK (GenerationPool_IsValid, HandleTable_IsValid, EventBus_IsValid, Queue_IsValid
\* and the counts of the other parts): every part keeps its shape in any behaviour of them,
\* with a client that closes the passes it opens.
THEOREM EngineTyped ==
  ASSUME SubmitClosesPass PROVE EngineSpec => []EngineTypeOK
<1>1. /\ GTypeOK /\ ETypeOK /\ WTypeOK /\ QTypeOK
      /\ XTypeOK /\ BTypeOK /\ LTypeOK /\ RTypeOK /\ HTypeOK
      => EngineTypeOK
  BY DEF EngineTypeOK
<1>2. HSpec => []HTypeOK
  BY HostTyped
<1> QED
  BY <1>1, <1>2, PartsRun, PoolTypeCorrect, BusTyped, WorldTypesHold, QueueTyped,
     MutexTypeCorrect, WaitObjectTyped, ListsTyped, RendererTyped, PTL
=============================================================================

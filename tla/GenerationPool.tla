---------------------------- MODULE GenerationPool ----------------------------
(***************************************************************************)
(* The pool behind the editor's geometry                                   *)
(* (src/CypherCommon/Tier1/CypherCommon_GenerationPool.inl).  Its free     *)
(* list is threaded through the slots.  A generation never wraps: a slot   *)
(* that has used the last one is retired.  The functions on PoolSlots      *)
(* stand for the array, of which the first cSlots are allocated; what the  *)
(* records hold is left out.                                               *)
(***************************************************************************)
EXTENDS Integers, FiniteSets

CONSTANTS
  LastGeneration,  \* CY_U32_MAX, the last generation of a slot
  SlotLimit,       \* cSlotLimit of the pool
  MinimumSlots,    \* cMinimumSlots, the first growth
  NoIndex          \* CY_INVALID_INDEX

PoolSlots == 0 .. SlotLimit - 1

ASSUME PoolAssumption ==
  /\ LastGeneration \in Nat \ {0} /\ SlotLimit \in Nat \ {0}
  /\ MinimumSlots \in Nat \ {0} /\ NoIndex \notin Int

VARIABLES
  poolInitialized,                         \* pAllocator is not null
  cSlots, cRecords, cRetiredSlots, iPoolFreeHead,
  nGeneration, bOccupied, bRetired, iPoolNextFree,
  live, gone     \* the handles given out: the record is there, or was removed

counters == <<poolInitialized, cSlots, cRecords, cRetiredSlots>>
slotState == <<nGeneration, bOccupied, bRetired>>
freeList == <<iPoolFreeHead, iPoolNextFree>>
handles == <<live, gone>>
gvars == <<counters, slotState, freeList, handles>>

Allocated == 0 .. cSlots - 1
HandleAt(i) == [nSlot |-> i, nGeneration |-> nGeneration[i]]

\* DecodeLiveHandle.
IsLiveHandle(handle) ==
  /\ handle.nSlot \in Allocated
  /\ bOccupied[handle.nSlot] /\ nGeneration[handle.nSlot] = handle.nGeneration

Vacant == {i \in Allocated : ~bOccupied[i] /\ ~bRetired[i]}

-----------------------------------------------------------------------------
(* The free list. *)

\* j is the first member of free behind i, if there is one.
Follows(free, i, j) ==
  \/ j = NoIndex /\ \A k \in free : k <= i
  \/ j \in free /\ j > i /\ \A k \in free : k > i => j <= k

\* RebuildFreeList: the vacant slots in ascending order.
RebuildFreeList(free) ==
  /\ \E next \in [PoolSlots -> free \cup {NoIndex}] :
       /\ \A i \in PoolSlots :
            IF i \in free THEN Follows(free, i, next[i]) ELSE next[i] = NoIndex
       /\ iPoolNextFree' = next
  /\ \E head \in free \cup {NoIndex} : Follows(free, -1, head) /\ iPoolFreeHead' = head

\* IsLocallyValidFreeNode and IsLocallyValidFreeHead.
IsLocallyValidFreeNode(i) ==
  /\ i \in Vacant
  /\ iPoolNextFree[i] # NoIndex => iPoolNextFree[i] # i /\ iPoolNextFree[i] \in Vacant

IsLocallyValidFreeHead(i) ==
  /\ IsLocallyValidFreeNode(i)
  /\ iPoolNextFree[i] # NoIndex =>
       /\ IsLocallyValidFreeNode(iPoolNextFree[i])
       /\ iPoolNextFree[iPoolNextFree[i]] # i

\* The walk of GenerationPool_IsValid, which gives up past the vacant slots.
FreeWalk[n \in Nat] ==
  IF n = 0 THEN iPoolFreeHead
  ELSE IF FreeWalk[n - 1] \in PoolSlots THEN iPoolNextFree[FreeWalk[n - 1]] ELSE NoIndex

IsValid ==
  LET cFree == Cardinality(Vacant)
  IN  /\ cRecords = Cardinality({i \in Allocated : bOccupied[i]})
      /\ cRetiredSlots = Cardinality({i \in Allocated : bRetired[i]})
      /\ \A i \in Allocated :
           /\ ~(bOccupied[i] /\ bRetired[i])
           /\ bRetired[i] => nGeneration[i] = LastGeneration
           /\ i \notin Vacant => iPoolNextFree[i] = NoIndex
      /\ \A n \in 0 .. cFree - 1 : FreeWalk[n] \in Vacant
      /\ FreeWalk[cFree] = NoIndex

-----------------------------------------------------------------------------
\* CalculateGrowth.
GrownSlots ==
  LET candidate == IF cSlots < MinimumSlots THEN MinimumSlots
                   ELSE cSlots + cSlots \div 2
  IN  IF candidate <= cSlots \/ candidate > SlotLimit THEN SlotLimit ELSE candidate

VacantWhenAllocated(n) == Vacant \cup cSlots .. n - 1

\* An allocation that fails leaves everything as it was.
Pool_Init(n) ==
  /\ ~poolInitialized /\ poolInitialized' = TRUE
  /\ cSlots' = n /\ RebuildFreeList(0 .. n - 1)
  /\ UNCHANGED <<cRecords, cRetiredSlots, slotState, handles>>

Pool_Shutdown ==
  /\ poolInitialized => IsValid
  /\ poolInitialized' = FALSE
  /\ cSlots' = 0 /\ cRecords' = 0 /\ cRetiredSlots' = 0
  /\ nGeneration' = [i \in PoolSlots |-> 1]
  /\ bOccupied' = [i \in PoolSlots |-> FALSE] /\ bRetired' = [i \in PoolSlots |-> FALSE]
  /\ iPoolFreeHead' = NoIndex /\ iPoolNextFree' = [i \in PoolSlots |-> NoIndex]
  /\ live' = {} /\ gone' = {}

\* What Remove and Clear do to a slot.  A slip: the last generation is not seen.
Overflows(i) ==
  [generation |-> (nGeneration[i] + 1) % (LastGeneration + 1), retired |-> FALSE]

Released(i) ==
  IF nGeneration[i] = LastGeneration
  THEN [generation |-> LastGeneration, retired |-> TRUE]
  ELSE [generation |-> nGeneration[i] + 1, retired |-> FALSE]

\* A slip: Clear threads the retired slots as well.
AllFreed(occupied, retired) == occupied

Freed(occupied, retired) == occupied \ retired

Pool_Clear ==
  /\ poolInitialized /\ cSlots > 0 /\ IsValid
  /\ LET occupied == {i \in Allocated : bOccupied[i]}
         retired == {i \in occupied : Released(i).retired}
     IN  /\ nGeneration' = [i \in PoolSlots |->
              IF i \in occupied THEN Released(i).generation ELSE nGeneration[i]]
         /\ bRetired' = [i \in PoolSlots |-> i \in retired \/ bRetired[i]]
         /\ cRetiredSlots' = cRetiredSlots + Cardinality(retired)
         /\ RebuildFreeList(Vacant \cup Freed(occupied, retired))
  /\ bOccupied' = [i \in PoolSlots |-> FALSE] /\ cRecords' = 0
  /\ live' = {} /\ gone' = gone \cup live
  /\ UNCHANGED <<poolInitialized, cSlots>>

Pool_Reserve(n) ==
  /\ poolInitialized /\ IsValid /\ cSlots < n
  /\ cSlots' = n
  /\ RebuildFreeList(VacantWhenAllocated(n))
  /\ UNCHANGED <<poolInitialized, cRecords, cRetiredSlots, slotState, handles>>

Occupies(i) ==
  /\ bOccupied' = [bOccupied EXCEPT ![i] = TRUE] /\ cRecords' = cRecords + 1
  /\ live' = live \cup {HandleAt(i)}
  /\ UNCHANGED <<poolInitialized, cRetiredSlots, nGeneration, bRetired, gone>>

Pool_Emplace ==
  /\ poolInitialized /\ iPoolFreeHead # NoIndex
  /\ cRecords < cSlots - cRetiredSlots /\ IsLocallyValidFreeHead(iPoolFreeHead)
  /\ iPoolFreeHead' = iPoolNextFree[iPoolFreeHead]
  /\ iPoolNextFree' = [iPoolNextFree EXCEPT ![iPoolFreeHead] = NoIndex]
  /\ Occupies(iPoolFreeHead) /\ UNCHANGED cSlots

Pool_GrowAndEmplace ==
  /\ poolInitialized /\ iPoolFreeHead = NoIndex /\ IsValid /\ cSlots < SlotLimit
  /\ cSlots' = GrownSlots
  /\ Occupies(cSlots)
  /\ RebuildFreeList(VacantWhenAllocated(GrownSlots) \ {cSlots})

\* Any handle given out since Init may be given back, stale ones too.
Pool_Remove(handle) ==
  /\ poolInitialized /\ IsLiveHandle(handle)
  /\ iPoolFreeHead # NoIndex => IsLocallyValidFreeHead(iPoolFreeHead)
  /\ LET i == handle.nSlot
     IN  /\ bOccupied' = [bOccupied EXCEPT ![i] = FALSE] /\ cRecords' = cRecords - 1
         /\ nGeneration' = [nGeneration EXCEPT ![i] = Released(i).generation]
         /\ bRetired' = [bRetired EXCEPT ![i] = Released(i).retired]
         /\ IF Released(i).retired
            THEN cRetiredSlots' = cRetiredSlots + 1 /\ UNCHANGED freeList
            ELSE /\ iPoolFreeHead' = i
                 /\ iPoolNextFree' = [iPoolNextFree EXCEPT ![i] = iPoolFreeHead]
                 /\ UNCHANGED cRetiredSlots
  /\ live' = live \ {handle} /\ gone' = gone \cup {handle}
  /\ UNCHANGED <<poolInitialized, cSlots>>

GInit ==
  /\ poolInitialized = FALSE
  /\ cSlots = 0 /\ cRecords = 0 /\ cRetiredSlots = 0
  /\ nGeneration = [i \in PoolSlots |-> 1]
  /\ bOccupied = [i \in PoolSlots |-> FALSE] /\ bRetired = [i \in PoolSlots |-> FALSE]
  /\ iPoolFreeHead = NoIndex /\ iPoolNextFree = [i \in PoolSlots |-> NoIndex]
  /\ live = {} /\ gone = {}

GNext ==
  \/ \E n \in 0 .. SlotLimit : Pool_Init(n) \/ Pool_Reserve(n)
  \/ Pool_Shutdown \/ Pool_Clear \/ Pool_Emplace \/ Pool_GrowAndEmplace
  \/ \E handle \in live \cup gone : Pool_Remove(handle)

GSpec == GInit /\ [][GNext]_gvars

-----------------------------------------------------------------------------
(* Properties. *)

Handles == [nSlot : PoolSlots, nGeneration : 1 .. LastGeneration]

GTypeOK ==
  /\ poolInitialized \in BOOLEAN
  /\ cSlots \in 0 .. SlotLimit /\ cRecords \in 0 .. cSlots
  /\ cRetiredSlots \in 0 .. cSlots /\ iPoolFreeHead \in PoolSlots \cup {NoIndex}
  /\ nGeneration \in [PoolSlots -> 1 .. LastGeneration]
  /\ bOccupied \in [PoolSlots -> BOOLEAN] /\ bRetired \in [PoolSlots -> BOOLEAN]
  /\ iPoolNextFree \in [PoolSlots -> PoolSlots \cup {NoIndex}]
  /\ live \subseteq Handles /\ gone \subseteq Handles

\* A handle resolves for as long as its record is in the pool, and never again
\* after it was removed: generations do not come round, and growing the array or
\* threading the list anew leaves the handles as they are.
HandlesNameOneRecord ==
  /\ \A handle \in live : IsLiveHandle(handle)
  /\ \A handle \in gone : ~IsLiveHandle(handle)

\* The checks that Emplace and Remove make of the free list before they trust it
\* hold in every state the pool gets into: no call is refused with CORRUPT_STATE.
MutationsTrusted ==
  poolInitialized /\ iPoolFreeHead # NoIndex =>
    cRecords < cSlots - cRetiredSlots /\ IsLocallyValidFreeHead(iPoolFreeHead)

\* So does the full audit of GenerationPool_IsValid: the list reaches every slot
\* that is neither occupied nor retired, once, and the counters agree with it.
AuditPasses == IsValid

\* The list is what the short checks of a mutation and the long one take it for.
FreeListTrusted == MutationsTrusted /\ AuditPasses
=============================================================================

--------------------------- MODULE CypherResource ---------------------------
(***************************************************************************)
(* The runtime resource manager (src/CypherResource): a fixed table of     *)
(* records, identity lookup, reference counts and generation-checked       *)
(* handles, with loader callbacks that call back into the manager.         *)
(*                                                                         *)
(* The manager is owner-thread only, so the interleavings are those of     *)
(* reentrancy: callStack holds the load and unload callbacks in progress,  *)
(* and between any two steps the innermost callback (or, when there is     *)
(* none, the application) may make any call.                               *)
(*                                                                         *)
(* The record's fields are functions on Slots.  The open-addressed lookup  *)
(* table and the intrusive free and live lists are a map and two sequences *)
(* here; module ResourceTables shows that the tables of the code implement *)
(* them.  Diagnostic counters (resource_manager_stats_t) are left out.     *)
(*                                                                         *)
(* What clients do is recorded in the last three variables: each element   *)
(* of Refs is one reference a client obtained, or the handle it kept after *)
(* giving the reference up.                                                *)
(***************************************************************************)
EXTENDS Naturals, Sequences, FiniteSets

CONSTANTS
  Keys,              \* (path, persistent type) pairs a client can ask for
  Types,             \* persistent resource types
  Ids,               \* values of ResourceId_FromPath
  TypeOf,            \* [Keys -> Types]
  IdOf,              \* [Keys -> Ids], the hash: it may collide
  cResourceCapacity, \* number of records
  cTypeCapacity,     \* number of loader entries
  TypeSlotMax,       \* CY_RESOURCE_TYPE_SLOT_MAX
  GenerationMax,     \* CY_RESOURCE_GENERATION_MAX, where generations wrap
  ReferenceMax,      \* CY_U32_MAX, the largest reference count
  Refs,              \* references clients can hold at once
  App, Nobody, Pending, NoSlot, NoKey

Slots == 0 .. cResourceCapacity - 1
Owners == Slots \union {App}

ASSUME ConstantAssumption ==
  /\ TypeOf \in [Keys -> Types] /\ IdOf \in [Keys -> Ids]
  /\ cResourceCapacity \in Nat \ {0} /\ cTypeCapacity \in Nat \ {0}
  /\ TypeSlotMax \in Nat \ {0}
  /\ GenerationMax \in Nat \ {0} /\ ReferenceMax \in Nat \ {0}
  /\ IsFiniteSet(Refs)
  /\ App \notin Slots /\ Nobody \notin Owners /\ Pending \notin Owners
  /\ Nobody # Pending /\ NoSlot \notin Slots /\ NoSlot \notin Refs
  /\ NoKey \notin Keys

VARIABLES
  initialized,    \* the manager shell has an implementation
  bShuttingDown,
  types,          \* compact array of [type, iTypeSlot] registrations
  iNextTypeSlot,
  state, key, typeSlot, nGeneration, cReferences,  \* resource_record_t
  lookup,         \* [Ids -> Slots or NoSlot]
  freeList,       \* EMPTY slots, the head first
  liveList,       \* published slots, the oldest first
  callStack,      \* callbacks in progress, the innermost last
  cCallbackDepth,
  holder,         \* who holds the reference
  handle,         \* the handle the client kept for it
  age             \* times the handle's slot was recycled since (at most
                  \* GenerationMax)

registry == <<types, iNextTypeSlot>>
record == <<state, key, typeSlot, nGeneration, cReferences>>
client == <<holder, handle, age>>
vars == <<initialized, bShuttingDown, registry, record, lookup, freeList,
          liveList, callStack, cCallbackDepth, client>>

-----------------------------------------------------------------------------
(* Handles, records and tables. *)

Handle == [slot : Slots, gen : 0 .. GenerationMax, tslot : 0 .. TypeSlotMax]

\* CY_RESOURCE_HANDLE_INVALID: generation zero is never a live generation.
NoHandle == [slot |-> 0, gen |-> 0, tslot |-> 0]

HandleOf(s) == [slot |-> s, gen |-> nGeneration[s], tslot |-> typeSlot[s]]

\* Two plausible slips: no wrap, no advance.
GenerationNotWrapped(n) == n + 1
GenerationNotAdvanced(n) == n

NextGeneration(n) == IF n >= GenerationMax THEN 1 ELSE n + 1

ResolveHandle(h) ==
  /\ h # NoHandle
  /\ state[h.slot] # "EMPTY"
  /\ nGeneration[h.slot] = h.gen
  /\ typeSlot[h.slot] = h.tslot

\* Res_Get succeeds on the handle.
IsReady(h) == ResolveHandle(h) /\ state[h.slot] = "READY"

TypeIndices(t) == {i \in 1 .. Len(types) : types[i].type = t}
Registered(t) == TypeIndices(t) # {}
FindType(t) == CHOOSE i \in TypeIndices(t) : TRUE

\* An array without its i-th element, the later ones moved down by one.
RemoveAt(seq, i) ==
  [j \in 1 .. Len(seq) - 1 |-> IF j < i THEN seq[j] ELSE seq[j + 1]]

Without(seq, s) == RemoveAt(seq, CHOOSE i \in DOMAIN seq : seq[i] = s)

Frame == [kind : {"load", "fail", "unload"}, slot : Slots, iType : Nat,
          ref : Refs \union {NoSlot}, owner : Owners]

Top == callStack[Len(callStack)]
Pop == SubSeq(callStack, 1, Len(callStack) - 1)

\* Code outside the manager runs: the innermost callback, or the application
\* when Res_Shutdown is not on the stack.
ClientRuns == initialized /\ (callStack # <<>> \/ ~bShuttingDown)

\* For whom the running code can acquire a dependency.
Caller ==
  IF callStack # <<>> /\ Top.kind = "load" THEN {App, Top.slot} ELSE {App}

Available(r) == holder[r] = Nobody

TeardownUnguarded == FALSE

\* Res_Acquire and Res_Retain answer RESOURCE_BUSY during teardown.
RejectsNewWork == bShuttingDown

HashDecides(s, k) == TRUE

\* The record found by hash is the path and type that were asked for.
SameIdentity(s, k) == key[s] = k

\* What Res_Acquire answers for key k, its checks in the order of the code.
AcquireOutcome(k) ==
  LET s == lookup[IdOf[k]]
  IN  IF RejectsNewWork THEN "RESOURCE_BUSY"
      ELSE IF ~Registered(TypeOf[k]) THEN "TYPE_NOT_REGISTERED"
      ELSE IF s = NoSlot
        THEN IF freeList = <<>> THEN "CAPACITY_EXCEEDED" ELSE "MISS"
      ELSE IF ~SameIdentity(s, k) THEN "ID_COLLISION"
      ELSE IF state[s] = "LOADING" THEN "DEPENDENCY_CYCLE"
      ELSE IF state[s] # "READY" THEN "RESOURCE_BUSY"
      ELSE IF cReferences[s] = ReferenceMax THEN "REFERENCE_OVERFLOW"
      ELSE "HIT"

ReferenceForgotten(s) == cReferences

AddReference(s) == [cReferences EXCEPT ![s] = @ + 1]

LookupKept(s) == lookup

RemoveLookup(s) == [lookup EXCEPT ![IdOf[key[s]]] = NoSlot]

-----------------------------------------------------------------------------
(* The registry. *)

RegistryOpenToCallbacks == ~bShuttingDown

\* Otherwise REENTRANT_LIFECYCLE.
MayChangeRegistry == cCallbackDepth = 0 /\ ~bShuttingDown

RegisterType(t) ==
  /\ ClientRuns
  /\ MayChangeRegistry
  /\ ~Registered(t)
  /\ Len(types) < cTypeCapacity /\ iNextTypeSlot <= TypeSlotMax
  /\ types' = Append(types, [type |-> t, iTypeSlot |-> iNextTypeSlot])
  /\ iNextTypeSlot' = iNextTypeSlot + 1
  /\ UNCHANGED <<initialized, bShuttingDown, record, lookup, freeList,
                 liveList, callStack, cCallbackDepth, client>>

UnregisterType(t) ==
  /\ ClientRuns
  /\ MayChangeRegistry
  /\ Registered(t)
  /\ \A s \in Slots : state[s] # "EMPTY" => TypeOf[key[s]] # t
  /\ types' = RemoveAt(types, FindType(t))
  /\ UNCHANGED <<initialized, bShuttingDown, iNextTypeSlot, record, lookup,
                 freeList, liveList, callStack, cCallbackDepth, client>>

-----------------------------------------------------------------------------
(* Acquisition. *)

\* The record is cached: one more reference, no callback.
AcquireHit(k, r, o) ==
  LET s == lookup[IdOf[k]]
  IN  /\ ClientRuns /\ o \in Caller /\ Available(r)
      /\ AcquireOutcome(k) = "HIT"
      /\ cReferences' = AddReference(s)
      /\ holder' = [holder EXCEPT ![r] = o]
      /\ handle' = [handle EXCEPT ![r] = HandleOf(s)]
      /\ age' = [age EXCEPT ![r] = 0]
      /\ UNCHANGED <<initialized, bShuttingDown, registry, state, key, typeSlot,
                     nGeneration, lookup, freeList, liveList, callStack,
                     cCallbackDepth>>

\* The record is reserved and published as LOADING before the load callback.
\* The callback frame keeps what Res_Acquire keeps in locals across it: the
\* record, the loader entry (pType) and where the handle goes.
AcquireMiss(k, r, o) ==
  LET s == Head(freeList)
  IN  /\ ClientRuns /\ o \in Caller /\ Available(r)
      /\ AcquireOutcome(k) = "MISS"
      /\ freeList' = Tail(freeList)
      /\ key' = [key EXCEPT ![s] = k]
      /\ typeSlot' =
           [typeSlot EXCEPT ![s] = types[FindType(TypeOf[k])].iTypeSlot]
      /\ state' = [state EXCEPT ![s] = "LOADING"]
      /\ lookup' = [lookup EXCEPT ![IdOf[k]] = s]
      /\ callStack' = Append(callStack,
           [kind |-> "load", slot |-> s, iType |-> FindType(TypeOf[k]),
            ref |-> r, owner |-> o])
      /\ cCallbackDepth' = cCallbackDepth + 1
      /\ holder' = [holder EXCEPT ![r] = Pending]
      /\ UNCHANGED <<initialized, bShuttingDown, registry, nGeneration,
                     cReferences, liveList, handle, age>>

\* RemoveLookup and RecycleRecord, and what the payload's end means to clients:
\* handles to the slot grow older, references it still held go to the
\* application, and a reference that waited for this load is not granted.
Recycle(s, waiting) ==
  /\ lookup' = RemoveLookup(s)
  /\ state' = [state EXCEPT ![s] = "EMPTY"]
  /\ key' = [key EXCEPT ![s] = NoKey]
  /\ typeSlot' = [typeSlot EXCEPT ![s] = 0]
  /\ nGeneration' = [nGeneration EXCEPT ![s] = NextGeneration(@)]
  /\ cReferences' = [cReferences EXCEPT ![s] = 0]
  /\ freeList' = <<s>> \o freeList
  /\ holder' = [r \in Refs |-> IF r = waiting THEN Nobody
                               ELSE IF holder[r] = s THEN App ELSE holder[r]]
  /\ age' = [r \in Refs |->
               IF /\ handle[r] # NoHandle /\ handle[r].slot = s
                  /\ age[r] < GenerationMax
                 THEN age[r] + 1 ELSE age[r]]
  /\ UNCHANGED handle

\* The load callback returns a payload: publish it with one reference.
LoadSucceeds ==
  /\ initialized /\ callStack # <<>> /\ Top.kind = "load"
  /\ callStack' = Pop
  /\ cCallbackDepth' = cCallbackDepth - 1
  /\ state' = [state EXCEPT ![Top.slot] = "READY"]
  /\ cReferences' = [cReferences EXCEPT ![Top.slot] = 1]
  /\ liveList' = Append(liveList, Top.slot)
  /\ holder' = [holder EXCEPT ![Top.ref] = Top.owner]
  /\ handle' = [handle EXCEPT ![Top.ref] = HandleOf(Top.slot)]
  /\ age' = [age EXCEPT ![Top.ref] = 0]
  /\ UNCHANGED <<initialized, bShuttingDown, registry, key, typeSlot,
                 nGeneration, lookup, freeList>>

\* The load callback fails without a payload: the record is rolled back.
LoadFails ==
  /\ initialized /\ callStack # <<>> /\ Top.kind = "load"
  /\ callStack' = Pop
  /\ cCallbackDepth' = cCallbackDepth - 1
  /\ Recycle(Top.slot, Top.ref)
  /\ UNCHANGED <<initialized, bShuttingDown, registry, liveList>>

\* It fails but hands over storage: the record is FAILED and the unload
\* callback of the remembered loader entry runs before the rollback.
LoadFailsWithPayload ==
  /\ initialized /\ callStack # <<>> /\ Top.kind = "load"
  /\ state' = [state EXCEPT ![Top.slot] = "FAILED"]
  /\ callStack' = [callStack EXCEPT ![Len(callStack)].kind = "fail"]
  /\ UNCHANGED <<initialized, bShuttingDown, registry, key, typeSlot,
                 nGeneration, cReferences, lookup, freeList, liveList,
                 cCallbackDepth, client>>

FailedUnloadReturns ==
  /\ initialized /\ callStack # <<>> /\ Top.kind = "fail"
  /\ callStack' = Pop
  /\ cCallbackDepth' = cCallbackDepth - 1
  /\ Recycle(Top.slot, Top.ref)
  /\ UNCHANGED <<initialized, bShuttingDown, registry, liveList>>

-----------------------------------------------------------------------------
(* References and unloading. *)

Retain(r, r2, o) ==
  LET s == handle[r].slot
  IN  /\ ClientRuns /\ holder[r] \in Owners
      /\ o \in Caller /\ Available(r2)
      /\ ~RejectsNewWork
      /\ IsReady(handle[r]) /\ cReferences[s] # ReferenceMax
      /\ cReferences' = AddReference(s)
      /\ holder' = [holder EXCEPT ![r2] = o]
      /\ handle' = [handle EXCEPT ![r2] = handle[r]]
      /\ age' = [age EXCEPT ![r2] = 0]
      /\ UNCHANGED <<initialized, bShuttingDown, registry, state, key, typeSlot,
                     nGeneration, lookup, freeList, liveList, callStack,
                     cCallbackDepth>>

\* A slip: the record is not marked before the callback runs.
UnmarkedUnload(s) ==
  /\ Registered(TypeOf[key[s]])
  /\ liveList' = Without(liveList, s)
  /\ callStack' = Append(callStack,
       [kind |-> "unload", slot |-> s, iType |-> FindType(TypeOf[key[s]]),
        ref |-> NoSlot, owner |-> App])
  /\ cCallbackDepth' = cCallbackDepth + 1
  /\ UNCHANGED state

\* UnloadRecord up to the unload callback: no longer live, then call out.
BeginUnload(s) ==
  /\ Registered(TypeOf[key[s]])
  /\ state' = [state EXCEPT ![s] = "UNLOADING"]
  /\ liveList' = Without(liveList, s)
  /\ callStack' = Append(callStack,
       [kind |-> "unload", slot |-> s, iType |-> FindType(TypeOf[key[s]]),
        ref |-> NoSlot, owner |-> App])
  /\ cCallbackDepth' = cCallbackDepth + 1

ReleaseShared(r) ==
  LET s == handle[r].slot
  IN  /\ ClientRuns /\ holder[r] \in Owners
      /\ IsReady(handle[r]) /\ cReferences[s] > 1
      /\ cReferences' = [cReferences EXCEPT ![s] = @ - 1]
      /\ holder' = [holder EXCEPT ![r] = Nobody]
      /\ UNCHANGED <<initialized, bShuttingDown, registry, state, key, typeSlot,
                     nGeneration, lookup, freeList, liveList, callStack,
                     cCallbackDepth, handle, age>>

\* The last reference: the payload is unloaded inside Res_Release.
ReleaseLast(r) ==
  LET s == handle[r].slot
  IN  /\ ClientRuns /\ holder[r] \in Owners
      /\ IsReady(handle[r]) /\ cReferences[s] = 1
      /\ cReferences' = [cReferences EXCEPT ![s] = 0]
      /\ BeginUnload(s)
      /\ holder' = [holder EXCEPT ![r] = Nobody]
      /\ UNCHANGED <<initialized, bShuttingDown, registry, key, typeSlot,
                     nGeneration, lookup, freeList, handle, age>>

\* INVALID_HANDLE or RESOURCE_BUSY: the manager does nothing, the client drops
\* its handle.
ReleaseRefused(r) ==
  /\ ClientRuns /\ holder[r] \in Owners
  /\ ~(IsReady(handle[r]) /\ cReferences[handle[r].slot] > 0)
  /\ holder' = [holder EXCEPT ![r] = Nobody]
  /\ UNCHANGED <<initialized, bShuttingDown, registry, record, lookup, freeList,
                 liveList, callStack, cCallbackDepth, handle, age>>

\* The unload callback returns: RemoveLookup and RecycleRecord.
UnloadReturns ==
  /\ initialized /\ callStack # <<>> /\ Top.kind = "unload"
  /\ callStack' = Pop
  /\ cCallbackDepth' = cCallbackDepth - 1
  /\ Recycle(Top.slot, NoSlot)
  /\ UNCHANGED <<initialized, bShuttingDown, registry, liveList>>

-----------------------------------------------------------------------------
(* Lifecycle. *)

Shutdown ==
  /\ ClientRuns /\ cCallbackDepth = 0
  /\ bShuttingDown' = TRUE
  /\ UNCHANGED <<initialized, registry, record, lookup, freeList, liveList,
                 callStack, cCallbackDepth, client>>

OldestFirst == liveList[1]

\* The newest live record is forced out first.
NextVictim == liveList[Len(liveList)]

\* One turn of the shutdown loop.
ShutdownUnload ==
  /\ initialized /\ bShuttingDown /\ callStack = <<>> /\ liveList # <<>>
  /\ BeginUnload(NextVictim)
  /\ UNCHANGED <<initialized, bShuttingDown, registry, key, typeSlot,
                 nGeneration, cReferences, lookup, freeList, client>>

\* The loop is done: the tables are freed.  A manager that is not initialized
\* is in the state the next Res_Init establishes, and clients have dropped
\* their handles.
ShutdownEnd ==
  /\ initialized /\ bShuttingDown /\ callStack = <<>> /\ liveList = <<>>
  /\ initialized' = FALSE /\ bShuttingDown' = FALSE
  /\ types' = <<>> /\ iNextTypeSlot' = 1
  /\ state' = [s \in Slots |-> "EMPTY"]
  /\ key' = [s \in Slots |-> NoKey]
  /\ typeSlot' = [s \in Slots |-> 0]
  /\ nGeneration' = [s \in Slots |-> 1]
  /\ cReferences' = [s \in Slots |-> 0]
  /\ lookup' = [i \in Ids |-> NoSlot]
  /\ freeList' = [i \in 1 .. cResourceCapacity |-> i - 1]
  /\ holder' = [r \in Refs |-> Nobody]
  /\ handle' = [r \in Refs |-> NoHandle]
  /\ age' = [r \in Refs |-> 0]
  /\ UNCHANGED <<liveList, callStack, cCallbackDepth>>

ManagerInit ==
  /\ ~initialized
  /\ initialized' = TRUE
  /\ UNCHANGED <<bShuttingDown, registry, record, lookup, freeList, liveList,
                 callStack, cCallbackDepth, client>>

Init ==
  /\ initialized = FALSE /\ bShuttingDown = FALSE
  /\ types = <<>> /\ iNextTypeSlot = 1
  /\ state = [s \in Slots |-> "EMPTY"]
  /\ key = [s \in Slots |-> NoKey]
  /\ typeSlot = [s \in Slots |-> 0]
  /\ nGeneration = [s \in Slots |-> 1]
  /\ cReferences = [s \in Slots |-> 0]
  /\ lookup = [i \in Ids |-> NoSlot]
  /\ freeList = [i \in 1 .. cResourceCapacity |-> i - 1]
  /\ liveList = <<>> /\ callStack = <<>> /\ cCallbackDepth = 0
  /\ holder = [r \in Refs |-> Nobody]
  /\ handle = [r \in Refs |-> NoHandle]
  /\ age = [r \in Refs |-> 0]

Next ==
  \/ ManagerInit \/ Shutdown \/ ShutdownUnload \/ ShutdownEnd
  \/ \E t \in Types : RegisterType(t) \/ UnregisterType(t)
  \/ \E k \in Keys, r \in Refs, o \in Owners :
       AcquireHit(k, r, o) \/ AcquireMiss(k, r, o)
  \/ LoadSucceeds \/ LoadFails \/ LoadFailsWithPayload \/ FailedUnloadReturns
  \/ \E r, r2 \in Refs, o \in Owners : Retain(r, r2, o)
  \/ \E r \in Refs : ReleaseShared(r) \/ ReleaseLast(r) \/ ReleaseRefused(r)
  \/ UnloadReturns

Spec == Init /\ [][Next]_vars

\* Res_Shutdown runs on its caller's thread and unload callbacks return.
\* Load callbacks and clients promise nothing.
FairSpec ==
  /\ Spec
  /\ WF_vars(ShutdownUnload) /\ WF_vars(ShutdownEnd) /\ WF_vars(UnloadReturns)

-----------------------------------------------------------------------------
(* Properties. *)

States == {"EMPTY", "LOADING", "READY", "FAILED", "UNLOADING"}

TypeOK ==
  /\ initialized \in BOOLEAN /\ bShuttingDown \in BOOLEAN
  /\ types \in Seq([type : Types, iTypeSlot : 1 .. TypeSlotMax])
  /\ Len(types) <= cTypeCapacity
  /\ iNextTypeSlot \in 1 .. TypeSlotMax + 1
  /\ state \in [Slots -> States]
  /\ key \in [Slots -> Keys \union {NoKey}]
  /\ typeSlot \in [Slots -> 0 .. TypeSlotMax]
  /\ nGeneration \in [Slots -> 1 .. GenerationMax]
  /\ cReferences \in [Slots -> 0 .. ReferenceMax]
  /\ lookup \in [Ids -> Slots \union {NoSlot}]
  /\ freeList \in Seq(Slots) /\ liveList \in Seq(Slots)
  /\ callStack \in Seq(Frame) /\ cCallbackDepth \in Nat
  /\ holder \in [Refs -> Owners \union {Nobody, Pending}]
  /\ handle \in [Refs -> Handle]
  /\ age \in [Refs -> 0 .. GenerationMax]

FrameState(kind) == CASE kind = "load" -> "LOADING"
                      [] kind = "fail" -> "FAILED"
                      [] kind = "unload" -> "UNLOADING"

\* However callbacks nest, each record that is loading, failed or unloading is
\* in exactly one of the callbacks in progress and that callback's record is
\* still in the state Res_Acquire or UnloadRecord left it in, so the code after
\* a callback finishes the record it started, and the recursion is never deeper
\* than the table is large.  The depth that guards the lifecycle calls is right.
CallbacksOwnTheirRecord ==
  /\ cCallbackDepth = Len(callStack)
  /\ \A i \in DOMAIN callStack :
       state[callStack[i].slot] = FrameState(callStack[i].kind)
  /\ \A i, j \in DOMAIN callStack :
       callStack[i].slot = callStack[j].slot => i = j
  /\ \A s \in Slots : state[s] \in {"LOADING", "FAILED", "UNLOADING"} =>
       \E i \in DOMAIN callStack : callStack[i].slot = s

\* The loader entry that Res_Acquire keeps by pointer across its callback is
\* still the entry of the record's type, and every record in use finds the
\* loader its handle names: compacting the array never moves it meanwhile.
LoaderEntriesStable ==
  /\ \A i \in DOMAIN callStack :
       LET f == callStack[i]
       IN  f.iType \in DOMAIN types
           /\ types[f.iType].type = TypeOf[key[f.slot]]
  /\ \A s \in Slots : state[s] # "EMPTY" =>
       \E i \in DOMAIN types : types[i] =
          [type |-> TypeOf[key[s]], iTypeSlot |-> typeSlot[s]]

\* The identity index and the two intrusive lists agree with the records: no
\* identity is loaded twice, no slot is lost or free twice, and the records a
\* shutdown will visit are exactly the published ones.
TablesAgree ==
  /\ \A s \in Slots : state[s] # "EMPTY" =>
       key[s] \in Keys /\ lookup[IdOf[key[s]]] = s
  /\ \A i \in Ids : lookup[i] # NoSlot =>
       state[lookup[i]] # "EMPTY" /\ IdOf[key[lookup[i]]] = i
  /\ \A s \in Slots :
       /\ Cardinality({i \in DOMAIN freeList : freeList[i] = s}) =
            (IF state[s] = "EMPTY" THEN 1 ELSE 0)
       /\ Cardinality({i \in DOMAIN liveList : liveList[i] = s}) =
            (IF state[s] = "READY" THEN 1 ELSE 0)

\* What Res_Acquire answers is true of the callbacks and the records: a cycle
\* is reported exactly when that resource is being loaded further down the
\* stack, a busy resource is being torn down, a full table has no free record,
\* and a hit is the published record of the very key that was asked for.
AcquireAnswersTrue ==
  initialized => \A k \in Keys :
    LET Answer == AcquireOutcome(k)
        Calling(kind) == \E i \in DOMAIN callStack :
                           callStack[i].kind = kind /\ key[callStack[i].slot] = k
    IN  /\ Answer = "DEPENDENCY_CYCLE" <=> Calling("load") /\ ~bShuttingDown
        /\ Answer = "RESOURCE_BUSY" =>
             bShuttingDown \/ Calling("fail") \/ Calling("unload")
        /\ Answer = "CAPACITY_EXCEEDED" => \A s \in Slots : state[s] # "EMPTY"
        /\ Answer = "HIT" =>
             \E s \in Slots : state[s] = "READY" /\ key[s] = k
        /\ Answer = "MISS" =>
             \A s \in Slots : state[s] # "EMPTY" => key[s] # k

HoldersOf(s) ==
  {r \in Refs : holder[r] \in Owners /\ handle[r] = HandleOf(s)}

\* A published record counts exactly the references that clients hold, and is
\* never published with none: no reference is lost or granted twice.  Until
\* shutdown, a reference that is held keeps its payload: the handle resolves to a
\* published record whatever callbacks do meanwhile.
ReferencesCounted ==
  /\ \A s \in Slots : state[s] = "READY" =>
       cReferences[s] = Cardinality(HoldersOf(s)) /\ cReferences[s] > 0
  /\ bShuttingDown \/ \A r \in Refs : holder[r] \in Owners => IsReady(handle[r])

\* A handle whose record was recycled never resolves again, whatever the slot
\* was reused for, until the generation has gone all the way around.
StaleHandlesRejected ==
  \A r \in Refs : age[r] \in 1 .. GenerationMax - 1 => ~ResolveHandle(handle[r])

\* What a payload acquired in its own load callback stays published as long as
\* the payload holds it, through the payload's unload callback too, and also
\* when shutdown forces every payload out: the newest goes first, so users
\* unload before the resources they acquired (CypherResource.cpp:135).
DependenciesOutliveUsers ==
  \A r \in Refs : holder[r] \in Slots => IsReady(handle[r])

-----------------------------------------------------------------------------
(* The manager implements its promise. *)

SlotsOf(k) == {s \in Slots : state[s] # "EMPTY" /\ key[s] = k}

PhaseOf(k) ==
  IF SlotsOf(k) = {} THEN "absent"
  ELSE LET s == CHOOSE s \in SlotsOf(k) : TRUE
       IN  CASE state[s] \in {"LOADING", "FAILED"} -> "loading"
             [] state[s] = "READY" -> "ready"
             [] state[s] = "UNLOADING" -> "unloading"

SharersOf(k) == UNION {HoldersOf(s) : s \in {t \in SlotsOf(k) : state[t] = "READY"}}

Promise == INSTANCE ResourcePromise WITH
  phase <- [k \in Keys |-> PhaseOf(k)],
  sharers <- [k \in Keys |-> SharersOf(k)],
  closing <- bShuttingDown

\* Seen through keys and references alone, whatever slots are reused for and
\* however callbacks nest, the manager behaves as its promise says.
ImplementsPromise == Promise!Spec

\* The index and the two lists are used as ResourceIndex allows, which is what
\* ResourceTables provides.
Index == INSTANCE ResourceIndex WITH
  SlotCount <- cResourceCapacity,
  index <- lookup, free <- freeList, live <- liveList

UsesIndex == Index!Spec

\* Once Res_Shutdown has started it ends.
ShutdownCompletes == bShuttingDown ~> ~initialized
=============================================================================

------------------------------ MODULE EventBus ------------------------------
(***************************************************************************)
(* The synchronous event bus                                               *)
(* (src/CypherCommon/Tier1/CypherCommon_Event.cpp) over HandleTable.  A    *)
(* callback may subscribe, unsubscribe anybody and clear the bus; emitting *)
(* again is refused.  Allocations fail at any time.                        *)
(***************************************************************************)
EXTENDS HandleTable

CONSTANTS
  EventIds, Priorities,
  SequenceMax,        \* CY_U64_MAX, where the registration order is rebased
  MaxSubscriptions,   \* bound on the subscriptions of a behaviour
  MaxEmissions        \* bound on its emissions

ASSUME EventBusAssumption ==
  /\ Priorities \subseteq Int /\ SequenceMax \in Nat \ {0}
  /\ MaxSubscriptions \in Nat /\ MaxEmissions \in Nat
  /\ CapacityMax <= SequenceMax  \* a rebase always makes room
  /\ MaxSubscriptions <= GenerationMax  \* no handle comes round in a behaviour

VARIABLES
  subscriptions, order, nNextSequence,      \* event_bus_t
  bEmitting, dispatchSnapshot,
  iDispatch, eventId, calling,              \* locals of EventBus_TryEmit
  nSubscribed, nEmitted, atStart, calls     \* what happened, for the properties

busTable == <<subscriptions, order, nNextSequence>>
emission == <<bEmitting, dispatchSnapshot, iDispatch, eventId, calling>>
evars == <<busTable, emission, nSubscribed, nEmitted, atStart, calls>>

NotCalling == [handle |-> InvalidHandle, once |-> FALSE]

Record(handle) == Get(subscriptions, handle)

\* Callbacks run inside an emission; everything else outside.
UserCodeRuns == ~bEmitting \/ calling # NotCalling

\* EventBus_FindOrderedHandle.
OrderedAt(handle) == Min({i \in DOMAIN order : order[i] = handle})

-----------------------------------------------------------------------------
(* EventBus_Subscribe. *)

\* EventBus_RebaseSequences, when the sequence numbers are used up.
Rebased ==
  IF nNextSequence # SequenceMax THEN subscriptions
  ELSE LET slots == subscriptions.slots
           Place(i) == OrderedAt(HandleOf(subscriptions, i)) - 1
       IN  [slots |-> [i \in DOMAIN slots |->
                         IF slots[i].bOccupied
                         THEN Taken(slots[i], [slots[i].value EXCEPT !.nSequence = Place(i)])
                         ELSE slots[i]],
            free |-> subscriptions.free]

SequenceAfterRebase ==
  IF nNextSequence # SequenceMax THEN nNextSequence ELSE Len(order)

\* EventBus_FindInsertionIndex, among the records of a table.
InsertionIndex(stored, record) ==
  LET Before(i) ==
        LET existing == Get(stored, order[i])
        IN  \/ record.nPriority > existing.nPriority
            \/ /\ record.nPriority = existing.nPriority
               /\ record.nSequence < existing.nSequence
  IN  Min({i \in DOMAIN order : Before(i)} \cup {Len(order) + 1})

\* Growing the table or the order fails; what was inserted is taken back.
Subscribe(id, priority, isOnce) ==
  /\ UserCodeRuns /\ nSubscribed < MaxSubscriptions
  /\ nSubscribed' = nSubscribed + 1
  /\ LET record == [eventId |-> id, nPriority |-> priority, once |-> isOnce,
                    nSequence |-> SequenceAfterRebase, id |-> nSubscribed + 1]
         full == Rebased.free = <<>>
         roomy == IF full /\ CanGrow(Rebased)
                  THEN Reserved(Rebased, GrowthCapacity(Rebased)) ELSE Rebased
         inserted == Emplace(roomy, record)
         handle == HandleOf(roomy, Head(roomy.free))
     IN  \/ /\ roomy.free # <<>>
            /\ subscriptions' = inserted
            /\ order' = InsertAt(order, InsertionIndex(inserted, record), handle)
            /\ nNextSequence' = SequenceAfterRebase + 1
         \/ /\ full
            /\ subscriptions' = Rebased /\ nNextSequence' = SequenceAfterRebase
            /\ UNCHANGED order
         \/ /\ roomy.free # <<>>
            /\ subscriptions' = Removed(inserted, handle)
            /\ nNextSequence' = SequenceAfterRebase
            /\ UNCHANGED order
  /\ UNCHANGED <<emission, nEmitted, atStart, calls>>

-----------------------------------------------------------------------------
(* EventBus_Unsubscribe and EventBus_Clear. *)

Unsubscribed(handle) ==
  /\ Resolves(subscriptions, handle)
  /\ order' = RemoveAt(order, OrderedAt(handle))
  /\ subscriptions' = Removed(subscriptions, handle)
  /\ UNCHANGED nNextSequence

Unsubscribe ==
  /\ UserCodeRuns
  /\ \E handle \in ToSet(order) : Unsubscribed(handle)
  /\ UNCHANGED <<emission, nSubscribed, nEmitted, atStart, calls>>

Clear ==
  /\ UserCodeRuns
  /\ subscriptions' = Cleared(subscriptions)
  /\ order' = <<>>
  /\ UNCHANGED <<nNextSequence, emission, nSubscribed, nEmitted, atStart, calls>>

-----------------------------------------------------------------------------
(* EventBus_TryEmit. *)

IdsOf(found) == {Record(h).id : h \in found}

EmitBegins(id) ==
  /\ ~bEmitting /\ nEmitted < MaxEmissions
  /\ bEmitting' = TRUE
  /\ dispatchSnapshot' = order
  /\ iDispatch' = 1 /\ eventId' = id
  /\ nEmitted' = nEmitted + 1
  /\ atStart' = IdsOf({h \in ToSet(order) : Record(h).eventId = id})
  /\ calls' = <<>>
  /\ UNCHANGED <<busTable, calling, nSubscribed>>

\* A slip: the live order is walked.
LiveOrder == order

Walked == dispatchSnapshot

\* The next handle: called, or skipped when it is gone or for another event.
Dispatch ==
  /\ bEmitting /\ calling = NotCalling /\ iDispatch <= Len(Walked)
  /\ LET handle == Walked[iDispatch]
     IN  IF Resolves(subscriptions, handle) /\ Record(handle).eventId = eventId
         THEN /\ calling' = [handle |-> handle, once |-> Record(handle).once]
              /\ calls' = Append(calls, Record(handle))
              /\ UNCHANGED iDispatch
         ELSE iDispatch' = iDispatch + 1 /\ UNCHANGED <<calling, calls>>
  /\ UNCHANGED <<busTable, bEmitting, dispatchSnapshot, eventId, nSubscribed,
                 nEmitted, atStart>>

OnceRemoved ==
  IF calling.once /\ Resolves(subscriptions, calling.handle)
  THEN Unsubscribed(calling.handle) ELSE UNCHANGED busTable

CallbackReturns ==
  /\ calling # NotCalling
  /\ OnceRemoved
  /\ calling' = NotCalling /\ iDispatch' = iDispatch + 1
  /\ UNCHANGED <<bEmitting, dispatchSnapshot, eventId, nSubscribed, nEmitted,
                 atStart, calls>>

EmitEnds ==
  /\ bEmitting /\ calling = NotCalling /\ iDispatch > Len(Walked)
  /\ bEmitting' = FALSE /\ dispatchSnapshot' = <<>>
  /\ UNCHANGED <<busTable, iDispatch, eventId, calling, nSubscribed, nEmitted,
                 atStart, calls>>

-----------------------------------------------------------------------------
\* EventBus_Destroy, and the EventBus_Create of another bus, which reserves nothing.
Replace ==
  /\ ~bEmitting
  /\ subscriptions' = EmptyTable /\ order' = <<>> /\ nNextSequence' = 0
  /\ atStart' = {} /\ calls' = <<>>
  /\ UNCHANGED <<emission, nSubscribed, nEmitted>>

EInit ==
  /\ subscriptions = EmptyTable /\ order = <<>> /\ nNextSequence = 0
  /\ bEmitting = FALSE /\ dispatchSnapshot = <<>> /\ iDispatch = 1
  /\ eventId \in EventIds /\ calling = NotCalling
  /\ nSubscribed = 0 /\ nEmitted = 0 /\ atStart = {} /\ calls = <<>>

ENext ==
  \/ \E id \in EventIds, p \in Priorities, o \in BOOLEAN : Subscribe(id, p, o)
  \/ Unsubscribe \/ Clear \/ Replace
  \/ \E id \in EventIds : EmitBegins(id)
  \/ Dispatch \/ CallbackReturns \/ EmitEnds

ESpec == EInit /\ [][ENext]_evars

-----------------------------------------------------------------------------
(* Properties. *)

\* EventBus_IsValid and the free list: the table and the order have the same
\* handles, after any failed subscription and any clear inside a callback.
ETypeOK ==
  /\ TableSound(subscriptions)
  /\ {HandleOf(subscriptions, i) : i \in Occupied(subscriptions)} = ToSet(order)
  /\ Len(order) = Count(subscriptions)
  /\ nNextSequence \in 0 .. SequenceMax
  /\ bEmitting \in BOOLEAN /\ eventId \in EventIds

\* Higher priorities come first, and within a priority the subscription made
\* first, also after the sequence numbers were rebased.
PriorityThenArrival ==
  \A i, j \in DOMAIN order : i < j =>
    LET a == Record(order[i])
        b == Record(order[j])
    IN  a.nPriority > b.nPriority \/ (a.nPriority = b.nPriority /\ a.id < b.id)

CalledIds == {calls[i].id : i \in DOMAIN calls}

\* Whatever the callbacks do to the bus, an emission calls only subscriptions
\* made before it began, each at most once, and every one that is still there.
EmissionCallsSubscribers ==
  /\ CalledIds \subseteq atStart
  /\ Cardinality(CalledIds) = Len(calls)
  /\ bEmitting /\ calling = NotCalling /\ iDispatch > Len(dispatchSnapshot) =>
       \A h \in ToSet(order) : Record(h).id \in atStart => Record(h).id \in CalledIds

\* A subscription for one event is gone once its callback has returned.
OnceIsOnce ==
  calling = NotCalling =>
    \A i \in DOMAIN calls, h \in ToSet(order) :
      calls[i].once => Record(h).id # calls[i].id

\* An emission calls whom it should, in the order it should, as often as it should.
EmissionsKeepTheirWord ==
  EmissionCallsSubscribers /\ PriorityThenArrival /\ OnceIsOnce
=============================================================================

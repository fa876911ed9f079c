------------------------------ MODULE CallQueue -------------------------------
(***************************************************************************)
(* The call queue of Tier 1 and the ring buffer under it.  A drain runs    *)
(* the calls that were queued when it began; the callbacks it runs may     *)
(* push more, which can wrap the ring or move it to larger storage, and    *)
(* are refused everything that would take calls out.  Each call is a       *)
(* number, counted up in the order of the pushes.                          *)
(***************************************************************************)
EXTENDS Naturals, FiniteSets, SequencesExt, Listing

CONSTANTS
  Tags,          \* the groups that a call can be cancelled by
  RingMinimum,   \* least capacity of a ring that grows (8 in the code)
  RingsMax,      \* largest capacity given to CallQueue_Create
  PushesMax      \* bound: calls pushed in a behaviour

ASSUME CallQueueAssumption ==
  /\ RingMinimum \in Nat \ {0} /\ RingsMax \in Nat /\ PushesMax \in Nat
  /\ IsFiniteSet(Tags)

VARIABLES
  created,      \* the queue exists
  entries,      \* the ring: its storage, its first element and their number
  bDraining,
  nToRun,       \* what is left of the drain's limit
  inCall,      \* the call whose callback runs, or 0
  pushed,       \* history: tags of the calls pushed so far
  kept,         \* history: calls pushed since the queue exists, but for cancelled ones
  ran,          \* history: how many of `kept` have run
  drainEnd      \* history: the last call pushed before the drain

qvars == <<created, entries, bDraining, nToRun, inCall, pushed, kept, ran, drainEnd>>

NoCall == 0   \* a slot without an element

EmptyRing(capacity) ==
  [pData |-> [i \in 1 .. capacity |-> NoCall], nCount |-> 0, iHead |-> 0]

Capacity(q) == Len(q.pData)

\* Logical positions count from iHead and cross the end of the storage once.
PhysicalIndex(q, i) ==
  LET untilWrap == Capacity(q) - q.iHead
  IN  IF i < untilWrap THEN q.iHead + i ELSE i - untilWrap

Queued(q) == [i \in 1 .. q.nCount |-> q.pData[PhysicalIndex(q, i - 1) + 1]]

RingGrowth(capacity, required) ==
  LET current == IF capacity < RingMinimum THEN RingMinimum ELSE capacity
      candidate == IF current < required THEN current + current \div 2 ELSE current
  IN  IF candidate < required THEN required ELSE candidate

\* Growth copies the elements in their order to the front of the new storage.
CopiedInPlace(q) == q.pData

CopiedInOrder(q) == Queued(q)

Grown(q) ==
  LET copied == CopiedInOrder(q) IN
  [pData |-> [i \in 1 .. RingGrowth(Capacity(q), q.nCount + 1) |->
                IF i <= q.nCount THEN copied[i] ELSE NoCall],
   nCount |-> q.nCount, iHead |-> 0]

RingPush(q, call) ==
  LET room == IF q.nCount = Capacity(q) THEN Grown(q) ELSE q
  IN  [room EXCEPT !.pData[PhysicalIndex(room, room.nCount) + 1] = call,
                   !.nCount = @ + 1]

RingPop(q) ==
  [q EXCEPT !.pData[q.iHead + 1] = NoCall,
            !.nCount = @ - 1,
            !.iHead = IF q.nCount > 1 THEN PhysicalIndex(q, 1) ELSE 0]

FirstCall(q) == q.pData[q.iHead + 1]

CallQueue_Create(nInitialCapacity) ==
  /\ ~created
  /\ created' = TRUE
  /\ entries' = EmptyRing(nInitialCapacity)
  /\ kept' = << >> /\ ran' = 0
  /\ UNCHANGED <<bDraining, nToRun, inCall, pushed, drainEnd>>

CallQueue_Destroy ==
  /\ created /\ ~bDraining
  /\ created' = FALSE
  /\ entries' = EmptyRing(0)
  /\ kept' = << >> /\ ran' = 0
  /\ UNCHANGED <<bDraining, nToRun, inCall, pushed, drainEnd>>

\* Queue_Clear empties the ring and keeps its storage.
CallQueue_Clear ==
  /\ created /\ ~bDraining
  /\ entries' = EmptyRing(Capacity(entries))
  /\ kept' = SubSeq(kept, 1, ran)
  /\ UNCHANGED <<created, bDraining, nToRun, inCall, pushed, ran, drainEnd>>

\* A push that finds no memory to grow changes nothing.
CallQueue_Push(tag) ==
  /\ created
  /\ bDraining => inCall # NoCall
  /\ Len(pushed) < PushesMax
  /\ entries' = RingPush(entries, Len(pushed) + 1)
  /\ pushed' = Append(pushed, tag)
  /\ kept' = Append(kept, Len(pushed) + 1)
  /\ UNCHANGED <<created, bDraining, nToRun, inCall, ran, drainEnd>>

\* Cancelling turns the ring over once: what has another tag is pushed again.
FirstTurned(q, tag) ==
  IF pushed[FirstCall(q)] = tag THEN RingPop(q) ELSE RingPush(RingPop(q), FirstCall(q))

Turned(q, tag) ==
  LET Turn[n \in 0 .. q.nCount] ==
        IF n = 0 THEN q ELSE FirstTurned(Turn[n - 1], tag)
  IN  Turn[q.nCount]

\* The history of a cancellation: what has run stays, and of what waits the rest.
KeptWithout(tag) ==
  LET waiting == SubSeq(kept, ran + 1, Len(kept))
  IN  SubSeq(kept, 1, ran) \o
        Picked(waiting, {n \in DOMAIN waiting : pushed[waiting[n]] # tag})

CallQueue_CancelTag(tag) ==
  /\ created /\ ~bDraining
  /\ entries' = Turned(entries, tag)
  /\ kept' = KeptWithout(tag)
  /\ UNCHANGED <<created, bDraining, nToRun, inCall, pushed, ran, drainEnd>>

\* Only what is queued when the drain begins belongs to it.
DrainLimit(nMaxCalls) == IF nMaxCalls > entries.nCount THEN entries.nCount ELSE nMaxCalls

DrainBegins(nMaxCalls) ==
  /\ created /\ ~bDraining
  /\ bDraining' = TRUE
  /\ nToRun' = DrainLimit(nMaxCalls)
  /\ drainEnd' = Len(pushed)
  /\ UNCHANGED <<created, entries, inCall, pushed, kept, ran>>

DrainCalls ==
  /\ bDraining /\ inCall = NoCall /\ nToRun > 0 /\ entries.nCount > 0
  /\ inCall' = FirstCall(entries)
  /\ entries' = RingPop(entries)
  /\ nToRun' = nToRun - 1
  /\ ran' = ran + 1
  /\ UNCHANGED <<created, bDraining, pushed, kept, drainEnd>>

CallReturns ==
  /\ inCall # NoCall
  /\ inCall' = NoCall
  /\ UNCHANGED <<created, entries, bDraining, nToRun, pushed, kept, ran, drainEnd>>

DrainEnds ==
  /\ bDraining /\ inCall = NoCall /\ (nToRun = 0 \/ entries.nCount = 0)
  /\ bDraining' = FALSE
  /\ nToRun' = 0
  /\ UNCHANGED <<created, entries, inCall, pushed, kept, ran, drainEnd>>

QInit ==
  /\ created = FALSE /\ entries = EmptyRing(0) /\ bDraining = FALSE
  /\ nToRun = 0 /\ inCall = NoCall
  /\ pushed = << >> /\ kept = << >> /\ ran = 0 /\ drainEnd = 0

QNext ==
  \/ \E n \in 0 .. RingsMax : CallQueue_Create(n)
  \/ CallQueue_Destroy \/ CallQueue_Clear
  \/ \E tag \in Tags : CallQueue_Push(tag) \/ CallQueue_CancelTag(tag)
  \/ \E n \in 1 .. PushesMax : DrainBegins(n)
  \/ DrainCalls \/ CallReturns \/ DrainEnds

QSpec == QInit /\ [][QNext]_qvars
-------------------------------------------------------------------------------
\* The ring stays well formed (Queue_IsValid), holds elements in its logical range
\* and nowhere else, and moves back to the start of its storage when it runs empty.
QTypeOK ==
  /\ created \in BOOLEAN /\ bDraining \in BOOLEAN
  /\ nToRun \in 0 .. PushesMax /\ inCall \in 0 .. PushesMax
  /\ entries.nCount \in 0 .. Capacity(entries)
  /\ entries.iHead = 0 \/ entries.iHead < Capacity(entries)
  /\ entries.nCount = 0 => entries.iHead = 0
  /\ \A i \in 0 .. Capacity(entries) - 1 :
       entries.pData[PhysicalIndex(entries, i) + 1] # NoCall <=> i < entries.nCount

\* First in, first out, through wraps, growth and cancellations: the calls that ran
\* and then those queued are the calls pushed and not cancelled, in that order.
CallsKeepTheirOrder == Queued(entries) = SubSeq(kept, ran + 1, Len(kept))

\* A callback that pushes does not lengthen the drain that runs it: a drain runs
\* only calls that were queued before it began.
DrainRunsItsPrefix == inCall # NoCall => inCall <= drainEnd

\* What is queued, and what a drain may run of it.
CallsRunInTurn == CallsKeepTheirOrder /\ DrainRunsItsPrefix
=============================================================================

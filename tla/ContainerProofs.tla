--------------------------- MODULE ContainerProofs ---------------------------
(***************************************************************************)
(* Proofs for GenerationPool, for any number of slots and generations, and for*)
(* CallQueue, for rings of any capacity.                                   *)
(*                                                                         *)
(* The pool: SlotsSound says what a slot can be and that the counters count, and*)
(* HandlesSound what separates a handle that resolves from one that never  *)
(* will again.  Linked describes a free list slot by slot: the links stay  *)
(* among the free slots, no two slots share a successor and none has the   *)
(* head for one, which is what the checks of Emplace and Remove rest on.   *)
(* ListWalked says that a walk from the head ends after as many free slots as  *)
(* there are, which is what the audit rests on.  Each way of changing the  *)
(* list keeps both.                                                        *)
(*                                                                         *)
(* The queue: seen through Queued, a push appends and a pop takes the head off,*)
(* however often the elements cross the end of the storage or move to a larger*)
(* one.  Cancelling turns the whole ring over in a loop: TurnsExist and    *)
(* TurnsAre follow it turn by turn, with a least turn that goes wrong in   *)
(* place of induction.  Ringing follows the calls from push to run.        *)
(***************************************************************************)
EXTENDS GenerationPool, CallQueue, Counting

-----------------------------------------------------------------------------
(* The generation pool. *)

-----------------------------------------------------------------------------
(* Free lists. *)

Linked(free, head, next) ==
  /\ head \in free \cup {NoIndex}
  /\ next \in [PoolSlots -> PoolSlots \cup {NoIndex}]
  /\ \A i \in PoolSlots \ free : next[i] = NoIndex
  /\ \A i \in free : next[i] # NoIndex =>
       /\ next[i] \in free /\ next[i] # head
       /\ \A j \in free : next[j] = next[i] => j = i

\* A rebuilt free list links the free slots.
LEMMA RebuiltIsLinked ==
  ASSUME NEW free \in SUBSET PoolSlots, RebuildFreeList(free)
  PROVE  Linked(free, iPoolFreeHead', iPoolNextFree')
<1> DEFINE head == iPoolFreeHead'
           next == iPoolNextFree'
<1>0. \A i \in free : i \in Int
  BY PoolAssumption DEF PoolSlots
<1>1. /\ next \in [PoolSlots -> free \cup {NoIndex}]
      /\ \A i \in PoolSlots :
           IF i \in free THEN Follows(free, i, next[i]) ELSE next[i] = NoIndex
  BY DEF RebuildFreeList
<1>2. head \in free \cup {NoIndex} /\ Follows(free, -1, head)
  BY DEF RebuildFreeList
<1>3. next \in [PoolSlots -> PoolSlots \cup {NoIndex}]
  BY <1>1
<1>4. ASSUME NEW i \in free, next[i] # NoIndex
      PROVE  /\ next[i] \in free /\ next[i] # head
             /\ \A j \in free : next[j] = next[i] => j = i
  <2>1. i \in Int /\ next[i] \in free /\ next[i] > i
        /\ \A k \in free : k > i => next[i] <= k
    BY <1>1, <1>4 DEF Follows, PoolSlots
  <2>2. next[i] # head
    BY <1>2, <2>1, PoolAssumption DEF Follows, PoolSlots
  <2>3. ASSUME NEW j \in free, next[j] = next[i] PROVE j = i
    <3>1. j \in Int /\ next[j] > j /\ \A k \in free : k > j => next[j] <= k
      BY <1>1, <1>4, <2>3 DEF Follows, PoolSlots
    <3>2. next[j] <= i \/ ~(i > j)
      BY <3>1
    <3>3. next[i] <= j \/ ~(j > i)
      BY <2>1
    <3>4. next[i] \in Int
      BY <1>0, <2>1
    <3>5. QED
      BY <2>1, <2>3, <3>1, <3>2, <3>3, <3>4
  <2>4. QED
    BY <2>1, <2>2, <2>3
<1>5. \A i \in PoolSlots \ free : next[i] = NoIndex
  BY <1>1
<1>6. QED
  BY <1>2, <1>3, <1>4, <1>5 DEF Linked

\* Emplace.
LEMMA HeadTaken ==
  ASSUME NEW free \in SUBSET PoolSlots, NEW head, NEW next,
         Linked(free, head, next), head # NoIndex
  PROVE  Linked(free \ {head}, next[head], [next EXCEPT ![head] = NoIndex])
<1>1. head \in PoolSlots /\ head \in free
  BY DEF Linked
<1>2. next[head] \in (free \ {head}) \cup {NoIndex}
  BY <1>1 DEF Linked
<1>3. [next EXCEPT ![head] = NoIndex] \in [PoolSlots -> PoolSlots \cup {NoIndex}]
  BY <1>1 DEF Linked
<1>4. QED
  BY <1>1, <1>2, <1>3 DEF Linked

\* Remove.
LEMMA SlotPushed ==
  ASSUME NEW free \in SUBSET PoolSlots, NEW head, NEW next,
         Linked(free, head, next), NEW i \in PoolSlots \ free
  PROVE  Linked(free \cup {i}, i, [next EXCEPT ![i] = head])
  BY PoolAssumption DEF Linked, PoolSlots

\* Sets of slots are finite.
LEMMA SlotSetsFinite ==
  ASSUME NEW S \in SUBSET PoolSlots PROVE IsFiniteSet(S) /\ Cardinality(S) \in Nat
<1>1. IsFiniteSet(PoolSlots)
  BY FS_Interval, PoolAssumption DEF PoolSlots
<1>2. QED
  BY <1>1, FS_Subset, FS_CardinalityType

\* Going from the head along the links takes as many steps as there are free slots,
\* through free slots only.
Walks(free, head, next, walk) ==
  /\ walk \in [0 .. Cardinality(free) -> free \cup {NoIndex}]
  /\ walk[0] = head /\ walk[Cardinality(free)] = NoIndex
  /\ \A n \in 0 .. Cardinality(free) - 1 : walk[n] \in free /\ walk[n + 1] = next[walk[n]]

ListWalked(free, head, next) == \E walk : Walks(free, head, next, walk)

\* There is one member behind i at most.
LEMMA OneFollows ==
  ASSUME NEW free \in SUBSET PoolSlots, NEW i \in Int, NEW j, NEW k,
         Follows(free, i, j), Follows(free, i, k)
  PROVE  j = k
<1>1. \A m \in free : m \in Int
  BY PoolAssumption DEF PoolSlots
<1>2. CASE j = NoIndex /\ \A m \in free : m <= i
  BY <1>1, <1>2 DEF Follows
<1>3. CASE j \in free /\ j > i /\ \A m \in free : m > i => j <= m
  <2>1. k \in free /\ k > i /\ \A m \in free : m > i => k <= m
    BY <1>1, <1>3 DEF Follows
  <2>2. j <= k /\ k <= j /\ j \in Int /\ k \in Int
    BY <1>1, <1>3, <2>1
  <2> QED
    BY <2>2
<1> QED
  BY <1>2, <1>3 DEF Follows

\* The walk along a rebuilt list goes through the free slots in ascending order.
LEMMA RebuiltIsWalked ==
  ASSUME NEW free \in SUBSET PoolSlots, RebuildFreeList(free)
  PROVE  ListWalked(free, iPoolFreeHead', iPoolNextFree')
<1> DEFINE size == Cardinality(free)
           listed == Ascending(free)
           walk == [n \in 0 .. size |-> IF n < size THEN listed[n + 1] ELSE NoIndex]
<1>0. free \subseteq Nat /\ IsFiniteSet(free) /\ size \in Nat
  BY SlotSetsFinite, PoolAssumption DEF PoolSlots
<1>1. /\ \A n \in 1 .. size : listed[n] \in free
      /\ \A i \in free : \E n \in 1 .. size : listed[n] = i
      /\ \A m, n \in 1 .. size : m < n => listed[m] < listed[n]
  <2>1. listed \in Seq(free) /\ Len(listed) = size
    BY <1>0, AscendingLists
  <2>2. \A n \in 1 .. size : listed[n] \in free
    BY <2>1
  <2> QED
    BY <1>0, <2>2, AscendingLists
<1> HIDE DEF listed
<1>2. /\ \A i \in free : Follows(free, i, iPoolNextFree'[i])
      /\ Follows(free, -1, iPoolFreeHead')
  BY DEF RebuildFreeList
<1>3. walk \in [0 .. size -> free \cup {NoIndex}] /\ walk[size] = NoIndex
  BY <1>0, <1>1
<1>4. ASSUME NEW n \in 0 .. size - 1 PROVE walk[n] = listed[n + 1] /\ walk[n] \in free
  BY <1>0, <1>1
<1>5. Follows(free, -1, walk[0])
  <2>1. CASE size = 0
    <3>1. free = {}
      BY <1>0, <2>1, FS_EmptySet
    <3>2. walk[0] = NoIndex
      BY <1>3, <2>1
    <3> QED
      BY <3>1, <3>2 DEF Follows
  <2>2. CASE size # 0
    <3>1. 0 \in 0 .. size - 1 /\ 1 \in 1 .. size
      BY <1>0, <2>2
    <3>2. walk[0] = listed[1] /\ walk[0] \in free
      BY <1>4, <3>1
    <3>3. ASSUME NEW m \in free PROVE listed[1] <= m
      <4>1. PICK k \in 1 .. size : listed[k] = m
        BY <1>1
      <4>2. k = 1 \/ 1 < k
        BY <1>0
      <4>3. listed[1] = m \/ listed[1] < m
        BY <1>1, <3>1, <4>1, <4>2
      <4>4. listed[1] \in Nat /\ m \in Nat
        BY <1>0, <3>2
      <4> QED
        BY <4>3, <4>4
    <3>4. walk[0] > -1
      <4>1. \A m \in free : m \in Nat
        BY <1>0
      <4>2. walk[0] \in Nat
        BY <3>2, <4>1
      <4> QED
        BY <4>2
    <3> QED
      BY <3>2, <3>3, <3>4 DEF Follows
  <2> QED
    BY <2>1, <2>2
<1>6. ASSUME NEW n \in 0 .. size - 1 PROVE Follows(free, walk[n], walk[n + 1])
  <2>1. n \in Nat /\ n + 1 \in 1 .. size
    BY <1>0
  <2>2. walk[n] = listed[n + 1] /\ walk[n] \in free
    BY <1>4
  <2>3. \A m \in free : m \in Nat
    BY <1>0
  <2>4. CASE n = size - 1
    <3>1. walk[n + 1] = NoIndex
      BY <1>0, <1>3, <2>4
    <3>2. ASSUME NEW m \in free PROVE m <= walk[n]
      <4>1. PICK k \in 1 .. size : listed[k] = m
        BY <1>1
      <4>2. k = n + 1 \/ k < n + 1
        BY <1>0, <2>4
      <4>3. m = walk[n] \/ m < walk[n]
        BY <1>1, <2>1, <2>2, <4>1, <4>2
      <4> QED
        BY <2>2, <2>3, <4>3
    <3> QED
      BY <3>1, <3>2 DEF Follows
  <2>5. CASE n # size - 1
    <3>1. n + 1 \in 0 .. size - 1 /\ n + 2 \in 1 .. size /\ n + 1 < n + 2
      BY <1>0, <2>5
    <3>2. walk[n + 1] = listed[(n + 1) + 1] /\ walk[n + 1] \in free
      BY <1>4, <3>1
    <3>3. (n + 1) + 1 = n + 2
      BY <2>1
    <3>4. walk[n + 1] = listed[n + 2]
      BY <3>2, <3>3
    <3>5. walk[n] < walk[n + 1]
      BY <1>1, <2>1, <2>2, <3>1, <3>4
    <3>6. ASSUME NEW m \in free, m > walk[n] PROVE walk[n + 1] <= m
      <4>1. PICK k \in 1 .. size : listed[k] = m
        BY <1>1
      <4>2. k < n + 1 \/ k = n + 1 \/ k = n + 2 \/ n + 2 < k
        BY <1>0, <2>1
      <4>3. m < walk[n] \/ m = walk[n] \/ m = walk[n + 1] \/ walk[n + 1] < m
        BY <1>1, <2>1, <2>2, <3>1, <3>4, <4>1, <4>2
      <4>4. m \in Nat /\ walk[n] \in Nat /\ walk[n + 1] \in Nat
        BY <2>2, <2>3, <3>2
      <4> QED
        BY <3>6, <4>3, <4>4
    <3>7. walk[n + 1] > walk[n]
      BY <2>2, <2>3, <3>2, <3>5
    <3> QED
      BY <3>2, <3>6, <3>7 DEF Follows
  <2> QED
    BY <2>4, <2>5
<1> HIDE DEF walk
<1>7. walk[0] = iPoolFreeHead'
  BY <1>2, <1>5, OneFollows
<1>8. \A n \in 0 .. size - 1 : walk[n] \in free /\ walk[n + 1] = iPoolNextFree'[walk[n]]
  <2> SUFFICES ASSUME NEW n \in 0 .. size - 1
               PROVE  walk[n] \in free /\ walk[n + 1] = iPoolNextFree'[walk[n]]
    OBVIOUS
  <2>0. \A m \in free : m \in Int
    BY <1>0
  <2>1. walk[n] \in free /\ walk[n] \in Int
    BY <1>4, <2>0
  <2>2. Follows(free, walk[n], iPoolNextFree'[walk[n]])
    BY <1>2, <2>1
  <2> QED
    BY <1>6, <2>1, <2>2, OneFollows
<1>9. Walks(free, iPoolFreeHead', iPoolNextFree', walk)
  BY <1>3, <1>7, <1>8 DEF Walks
<1> QED
  BY <1>9 DEF ListWalked

\* Emplace starts the walk at the second free slot.
LEMMA HeadTakenWalked ==
  ASSUME NEW free \in SUBSET PoolSlots, NEW head, NEW next,
         Linked(free, head, next), ListWalked(free, head, next), head # NoIndex
  PROVE  ListWalked(free \ {head}, next[head], [next EXCEPT ![head] = NoIndex])
<1> DEFINE size == Cardinality(free)
           rest == free \ {head}
<1>1. PICK walk : Walks(free, head, next, walk)
  BY DEF ListWalked
<1> DEFINE after == [n \in 0 .. size - 1 |-> walk[n + 1]]
           links == [next EXCEPT ![head] = NoIndex]
<1>2. head \in free /\ head \in PoolSlots /\ IsFiniteSet(free) /\ size \in Nat
  BY SlotSetsFinite DEF Linked
<1>3. Cardinality(rest) = size - 1 /\ Cardinality(rest) \in Nat
  BY <1>2, FS_RemoveElement, FS_CardinalityType
<1>4. /\ walk \in [0 .. size -> free \cup {NoIndex}]
      /\ walk[0] = head /\ walk[size] = NoIndex
      /\ \A n \in 0 .. size - 1 : walk[n] \in free /\ walk[n + 1] = next[walk[n]]
  BY <1>1 DEF Walks
<1>5. ASSUME NEW n \in 0 .. size - 1 PROVE walk[n + 1] \in rest \cup {NoIndex}
  <2>1. walk[n] \in free /\ walk[n + 1] = next[walk[n]]
    BY <1>4
  <2> QED
    BY <2>1 DEF Linked
<1>6. ASSUME NEW n \in 0 .. size - 2
      PROVE  walk[n + 1] \in rest /\ walk[(n + 1) + 1] = links[walk[n + 1]]
  <2>1. n \in 0 .. size - 1 /\ n + 1 \in 0 .. size - 1
    BY <1>2
  <2>2. walk[n + 1] \in free /\ walk[(n + 1) + 1] = next[walk[n + 1]]
    BY <1>4, <2>1
  <2>3. NoIndex \notin free
    <3>1. \A m \in PoolSlots : m \in Int
      BY PoolAssumption DEF PoolSlots
    <3> QED
      BY <3>1, PoolAssumption
  <2>4. walk[n + 1] \in rest
    BY <1>5, <2>1, <2>2, <2>3
  <2>5. links[walk[n + 1]] = next[walk[n + 1]]
    BY <2>4 DEF Linked
  <2> QED
    BY <2>2, <2>4, <2>5
<1>7. after \in [0 .. size - 1 -> rest \cup {NoIndex}]
  BY <1>5
<1>8. after[0] = next[head] /\ after[size - 1] = NoIndex
  <2>1. 0 \in 0 .. size - 1 /\ size - 1 \in 0 .. size - 1 /\ 0 + 1 = 1 /\ (size - 1) + 1 = size
    BY <1>2, <1>3
  <2>2. after[0] = walk[0 + 1] /\ after[size - 1] = walk[(size - 1) + 1]
    BY <2>1
  <2> QED
    BY <1>4, <2>1, <2>2
<1>9. \A n \in 0 .. size - 2 : after[n] = walk[n + 1] /\ after[n + 1] = walk[(n + 1) + 1]
  BY <1>2
<1>10. (size - 1) - 1 = size - 2
  BY <1>2
<1> HIDE DEF after, links, rest, size
<1>11. Walks(rest, next[head], links, after)
  BY <1>3, <1>6, <1>7, <1>8, <1>9, <1>10 DEF Walks
<1> QED
  BY <1>11 DEF ListWalked, links, rest

\* With no slot free there is nothing to walk.
LEMMA NothingWalked ==
  ASSUME NEW next PROVE ListWalked({}, NoIndex, next)
<1> DEFINE walk == [n \in 0 .. 0 |-> NoIndex]
<1>1. Cardinality({}) = 0
  BY FS_EmptySet
<1>2. walk \in [0 .. 0 -> {} \cup {NoIndex}] /\ walk[0] = NoIndex
  OBVIOUS
<1> HIDE DEF walk
<1>3. Walks({}, NoIndex, next, walk)
  BY <1>1, <1>2 DEF Walks
<1> QED
  BY <1>3 DEF ListWalked

\* Remove puts a slot in front of the walk.
LEMMA SlotPushedWalked ==
  ASSUME NEW free \in SUBSET PoolSlots, NEW head, NEW next,
         Linked(free, head, next), ListWalked(free, head, next), NEW i \in PoolSlots \ free
  PROVE  ListWalked(free \cup {i}, i, [next EXCEPT ![i] = head])
<1> DEFINE size == Cardinality(free)
           more == free \cup {i}
<1>1. PICK walk : Walks(free, head, next, walk)
  BY DEF ListWalked
<1> DEFINE longer == [n \in 0 .. size + 1 |-> IF n = 0 THEN i ELSE walk[n - 1]]
           links == [next EXCEPT ![i] = head]
<1>2. IsFiniteSet(free) /\ size \in Nat
  BY SlotSetsFinite
<1>3. Cardinality(more) = size + 1
  BY <1>2, FS_AddElement
<1>4. /\ walk \in [0 .. size -> free \cup {NoIndex}]
      /\ walk[0] = head /\ walk[size] = NoIndex
      /\ \A n \in 0 .. size - 1 : walk[n] \in free /\ walk[n + 1] = next[walk[n]]
  BY <1>1 DEF Walks
<1>5. \A n \in 0 .. size + 1 : n # 0 => n - 1 \in 0 .. size
  BY <1>2
<1>6. longer \in [0 .. size + 1 -> more \cup {NoIndex}]
  BY <1>4, <1>5
<1>7. longer[0] = i
  BY <1>2
<1>8. \A n \in 0 .. size : longer[n + 1] = walk[n]
  <2> SUFFICES ASSUME NEW n \in 0 .. size PROVE longer[n + 1] = walk[n]
    OBVIOUS
  <2>1. n + 1 \in 0 .. size + 1 /\ n + 1 # 0 /\ (n + 1) - 1 = n
    BY <1>2
  <2> QED
    BY <2>1
<1>9. links[i] = head /\ \A j \in free : links[j] = next[j]
  BY DEF Linked
<1>10. longer[size + 1] = NoIndex
  BY <1>2, <1>4, <1>8
<1> HIDE DEF longer, links
<1>11. \A n \in 0 .. (size + 1) - 1 : longer[n] \in more /\ longer[n + 1] = links[longer[n]]
  <2> SUFFICES ASSUME NEW n \in 0 .. (size + 1) - 1
               PROVE  longer[n] \in more /\ longer[n + 1] = links[longer[n]]
    OBVIOUS
  <2>1. CASE n = 0
    <3>1. longer[0 + 1] = walk[0]
      BY <1>2, <1>8
    <3> QED
      BY <1>4, <1>7, <1>9, <2>1, <3>1
  <2>2. CASE n # 0
    <3>1. n - 1 \in 0 .. size - 1 /\ n - 1 \in 0 .. size /\ n \in 0 .. size /\ (n - 1) + 1 = n
      BY <1>2, <2>2
    <3>2. longer[(n - 1) + 1] = walk[n - 1] /\ longer[n + 1] = walk[n]
      BY <1>8, <3>1
    <3>3. walk[n - 1] \in free /\ walk[(n - 1) + 1] = next[walk[n - 1]]
      BY <1>4, <3>1
    <3>4. longer[n] = walk[n - 1] /\ walk[n] = next[walk[n - 1]]
      BY <3>1, <3>2, <3>3
    <3> QED
      BY <1>9, <3>2, <3>3, <3>4
  <2> QED
    BY <2>1, <2>2
<1> HIDE DEF more, size
<1>12. Walks(more, i, links, longer)
  BY <1>3, <1>6, <1>7, <1>10, <1>11 DEF Walks
<1> QED
  BY <1>12 DEF ListWalked, links, more

\* FreeWalk follows a walk to its end.
LEMMA FreeWalkFollows ==
  ASSUME NEW free \in SUBSET PoolSlots, NEW walk,
         Walks(free, iPoolFreeHead, iPoolNextFree, walk)
  PROVE  \A n \in 0 .. Cardinality(free) : FreeWalk[n] = walk[n]
<1> DEFINE size == Cardinality(free)
           Step(f) == [n \in Nat |->
             IF n = 0 THEN iPoolFreeHead
             ELSE IF f[n - 1] \in PoolSlots THEN iPoolNextFree[f[n - 1]] ELSE NoIndex]
           whole == [n \in Nat |-> IF n <= size THEN walk[n] ELSE NoIndex]
<1>0. size \in Nat /\ NoIndex \notin PoolSlots
  BY SlotSetsFinite, PoolAssumption DEF PoolSlots
<1>1. /\ walk[0] = iPoolFreeHead /\ walk[size] = NoIndex
      /\ \A n \in 0 .. size - 1 : walk[n] \in PoolSlots /\ walk[n + 1] = iPoolNextFree[walk[n]]
  BY DEF Walks
<1>2. ASSUME NEW n \in Nat
      PROVE  whole[n] = IF n = 0 THEN iPoolFreeHead
                        ELSE IF whole[n - 1] \in PoolSlots THEN iPoolNextFree[whole[n - 1]]
                        ELSE NoIndex
  <2>1. CASE n = 0
    BY <1>0, <1>1, <2>1
  <2>2. CASE n \in 1 .. size
    <3>1. n - 1 \in 0 .. size - 1 /\ n - 1 \in Nat /\ n - 1 <= size /\ (n - 1) + 1 = n
      BY <1>0, <2>2
    <3>2. whole[n] = walk[n] /\ whole[n - 1] = walk[n - 1]
      BY <1>0, <2>2, <3>1
    <3>3. walk[n - 1] \in PoolSlots /\ walk[(n - 1) + 1] = iPoolNextFree[walk[n - 1]]
      BY <1>1, <3>1
    <3> QED
      BY <2>2, <3>1, <3>2, <3>3
  <2>3. CASE n > size
    <3>1. n - 1 \in Nat /\ n # 0
      BY <1>0, <2>3
    <3>2. n - 1 = size \/ ~(n - 1 <= size)
      BY <1>0, <2>3
    <3>3. whole[n - 1] = NoIndex /\ whole[n] = NoIndex
      BY <1>0, <1>1, <2>3, <3>1, <3>2
    <3> QED
      BY <1>0, <3>1, <3>3
  <2> QED
    BY <1>0, <2>1, <2>2, <2>3
<1>3. whole = Step(whole)
  BY <1>2
<1>4. FreeWalk = CHOOSE f : f = Step(f)
  BY Zenon DEF FreeWalk
<1> HIDE DEF whole, Step
<1>5. FreeWalk = Step(FreeWalk)
  BY <1>3, <1>4, Zenon
<1>6. \A n \in Nat : FreeWalk[n] =
        IF n = 0 THEN iPoolFreeHead
        ELSE IF FreeWalk[n - 1] \in PoolSlots THEN iPoolNextFree[FreeWalk[n - 1]] ELSE NoIndex
  <2>1. \A n \in Nat : Step(FreeWalk)[n] =
          IF n = 0 THEN iPoolFreeHead
          ELSE IF FreeWalk[n - 1] \in PoolSlots THEN iPoolNextFree[FreeWalk[n - 1]] ELSE NoIndex
    BY DEF Step
  <2> QED
    BY <1>5, <2>1, Zenon
<1> DEFINE differ == {n \in 0 .. size : FreeWalk[n] # walk[n]}
<1>7. ASSUME differ # {} PROVE FALSE
  <2>1. differ \subseteq Nat
    BY <1>0
  <2>2. PICK m \in differ : \A n \in differ : m <= n
    BY <1>7, <2>1, LeastNumber
  <2>3. m # 0
    BY <1>0, <1>1, <1>6
  <2>4. m \in 1 .. size /\ m - 1 \in 0 .. size - 1 /\ m - 1 \in 0 .. size /\ (m - 1) + 1 = m
        /\ m \in Nat /\ m - 1 \in Nat
    BY <1>0, <2>3
  <2>5. FreeWalk[m - 1] = walk[m - 1]
    BY <2>2, <2>4
  <2>6. walk[m - 1] \in PoolSlots /\ walk[(m - 1) + 1] = iPoolNextFree[walk[m - 1]]
    BY <1>1, <2>4
  <2>7. FreeWalk[m] = iPoolNextFree[FreeWalk[m - 1]]
    BY <1>6, <2>3, <2>4, <2>5, <2>6
  <2> QED
    BY <2>4, <2>5, <2>6, <2>7
<1> QED
  BY <1>7
-----------------------------------------------------------------------------
(* The invariant. *)

OccupiedPoolSlots == {i \in PoolSlots : bOccupied[i]}
RetiredSlots == {i \in PoolSlots : bRetired[i]}

\* GTypeOK without the counters.
PoolShape ==
  /\ poolInitialized \in BOOLEAN
  /\ cSlots \in 0 .. SlotLimit /\ (~poolInitialized => cSlots = 0)
  /\ nGeneration \in [PoolSlots -> 1 .. LastGeneration]
  /\ bOccupied \in [PoolSlots -> BOOLEAN] /\ bRetired \in [PoolSlots -> BOOLEAN]
  /\ live \subseteq Handles /\ gone \subseteq Handles

\* Slots that are not allocated are as new, no slot is occupied and retired, and a
\* slot that is retired has used all its generations.
SlotsSound ==
  /\ OccupiedPoolSlots \subseteq Allocated /\ RetiredSlots \subseteq Allocated
  /\ OccupiedPoolSlots \cap RetiredSlots = {}
  /\ \A i \in RetiredSlots : nGeneration[i] = LastGeneration

SlotsCounted ==
  cRecords = Cardinality(OccupiedPoolSlots) /\ cRetiredSlots = Cardinality(RetiredSlots)

\* The slot of a handle that was removed has moved on, or will never be used again.
HandlesSound ==
  /\ \A h \in live : IsLiveHandle(h)
  /\ \A h \in gone : \/ h.nGeneration < nGeneration[h.nSlot]
                     \/ h.nGeneration = nGeneration[h.nSlot] /\ bRetired[h.nSlot]

FreeListSound ==
  /\ Linked(Vacant, iPoolFreeHead, iPoolNextFree)
  /\ ListWalked(Vacant, iPoolFreeHead, iPoolNextFree)

Pooling == /\ PoolShape /\ SlotsSound /\ SlotsCounted
           /\ HandlesSound /\ FreeListSound

\* A head leaves room among the slots: the counters say so too.
LEMMA PoolRoomLeft ==
  ASSUME PoolShape, SlotsSound, SlotsCounted
  PROVE  /\ cRecords \in 0 .. cSlots /\ cRetiredSlots \in 0 .. cSlots
         /\ Vacant # {} => cRecords < cSlots - cRetiredSlots
<1> DEFINE inUse == OccupiedPoolSlots \cup RetiredSlots
<1>1. IsFiniteSet(OccupiedPoolSlots) /\ IsFiniteSet(RetiredSlots) /\ IsFiniteSet(inUse)
      /\ cRecords \in Nat /\ cRetiredSlots \in Nat
  <2>1. OccupiedPoolSlots \in SUBSET PoolSlots /\ RetiredSlots \in SUBSET PoolSlots
        /\ inUse \in SUBSET PoolSlots
    BY DEF OccupiedPoolSlots, RetiredSlots
  <2>2. QED
    BY <2>1, SlotSetsFinite DEF SlotsCounted
<1>2. Cardinality(inUse) = cRecords + cRetiredSlots
  <2>1. Cardinality(inUse) = Cardinality(OccupiedPoolSlots) + Cardinality(RetiredSlots)
                             - Cardinality(OccupiedPoolSlots \cap RetiredSlots)
    BY <1>1, FS_Union
  <2>2. Cardinality(OccupiedPoolSlots \cap RetiredSlots) = 0
    BY FS_EmptySet DEF SlotsSound
  <2>3. QED
    BY <1>1, <2>1, <2>2 DEF SlotsCounted
<1>3. IsFiniteSet(Allocated) /\ Cardinality(Allocated) = cSlots
  BY FS_Interval, PoolAssumption DEF PoolShape, Allocated
<1>4. inUse \in SUBSET Allocated
  BY DEF SlotsSound
<1>5. Cardinality(inUse) <= cSlots /\ (Cardinality(inUse) = cSlots => inUse = Allocated)
  BY <1>3, <1>4, FS_Subset
<1>6. Vacant # {} => inUse # Allocated
  BY DEF Vacant, OccupiedPoolSlots, RetiredSlots
<1>7. QED
  BY <1>1, <1>2, <1>5, <1>6, PoolAssumption DEF PoolShape

\* The invariant implies the type invariant.
LEMMA PoolTypes == Pooling => GTypeOK
<1> SUFFICES ASSUME Pooling PROVE GTypeOK
  OBVIOUS
<1>1. cRecords \in 0 .. cSlots /\ cRetiredSlots \in 0 .. cSlots
  BY PoolRoomLeft DEF Pooling
<1>2. Vacant \subseteq PoolSlots
  BY PoolAssumption DEF Pooling, PoolShape, Vacant, Allocated, PoolSlots
<1>3. /\ iPoolFreeHead \in PoolSlots \cup {NoIndex}
      /\ iPoolNextFree \in [PoolSlots -> PoolSlots \cup {NoIndex}]
  BY <1>2 DEF Pooling, FreeListSound, Linked
<1>4. QED
  BY <1>1, <1>3 DEF Pooling, PoolShape, GTypeOK

\* It implies that a handle names one record.
LEMMA PoolHandles == Pooling => HandlesNameOneRecord
<1> SUFFICES ASSUME Pooling, NEW h \in gone PROVE ~IsLiveHandle(h)
  BY DEF Pooling, HandlesSound, HandlesNameOneRecord
<1>1. h.nSlot \in PoolSlots /\ h.nGeneration \in Nat
  BY DEF Pooling, PoolShape, Handles
<1>2. ~(bOccupied[h.nSlot] /\ bRetired[h.nSlot])
  BY <1>1 DEF Pooling, SlotsSound, OccupiedPoolSlots, RetiredSlots
<1>3. nGeneration[h.nSlot] \in Nat
  BY <1>1, PoolAssumption DEF Pooling, PoolShape
<1>4. QED
  BY <1>1, <1>2, <1>3 DEF Pooling, HandlesSound, IsLiveHandle

\* It implies that the checks before a mutation pass.
LEMMA PoolMutations == Pooling => MutationsTrusted
<1> SUFFICES ASSUME Pooling, iPoolFreeHead # NoIndex
             PROVE  cRecords < cSlots - cRetiredSlots
                    /\ IsLocallyValidFreeHead(iPoolFreeHead)
  BY DEF MutationsTrusted
<1>1. iPoolFreeHead \in Vacant /\ Vacant \subseteq PoolSlots
  BY PoolAssumption
     DEF Pooling, PoolShape, FreeListSound, Linked, Vacant, Allocated, PoolSlots
<1>2. cRecords < cSlots - cRetiredSlots
  BY <1>1, PoolRoomLeft DEF Pooling
<1>3. IsLocallyValidFreeHead(iPoolFreeHead)
  BY <1>1
     DEF Pooling, FreeListSound, Linked, IsLocallyValidFreeNode, IsLocallyValidFreeHead
<1>4. QED
  BY <1>2, <1>3

\* It implies that the audit passes.
LEMMA PoolAudited == Pooling => AuditPasses
<1> SUFFICES ASSUME Pooling PROVE IsValid
  BY DEF AuditPasses
<1>1. Allocated \subseteq PoolSlots /\ Vacant \in SUBSET PoolSlots
  BY PoolAssumption DEF Pooling, PoolShape, Vacant, Allocated, PoolSlots
<1>2. /\ {i \in Allocated : bOccupied[i]} = OccupiedPoolSlots
      /\ {i \in Allocated : bRetired[i]} = RetiredSlots
  BY <1>1 DEF Pooling, SlotsSound, OccupiedPoolSlots, RetiredSlots
<1>3. ASSUME NEW i \in Allocated
      PROVE  /\ ~(bOccupied[i] /\ bRetired[i])
             /\ bRetired[i] => nGeneration[i] = LastGeneration
             /\ i \notin Vacant => iPoolNextFree[i] = NoIndex
  BY <1>1 DEF Pooling, SlotsSound, OccupiedPoolSlots, RetiredSlots, FreeListSound, Linked
<1>4. PICK walk : Walks(Vacant, iPoolFreeHead, iPoolNextFree, walk)
  BY DEF Pooling, FreeListSound, ListWalked
<1>5. \A n \in 0 .. Cardinality(Vacant) : FreeWalk[n] = walk[n]
  BY <1>1, <1>4, FreeWalkFollows
<1>6. Cardinality(Vacant) \in Nat
  BY <1>1, SlotSetsFinite
<1>7. /\ \A n \in 0 .. Cardinality(Vacant) - 1 : FreeWalk[n] \in Vacant
      /\ FreeWalk[Cardinality(Vacant)] = NoIndex
  BY <1>4, <1>5, <1>6 DEF Walks
<1> QED
  BY <1>2, <1>3, <1>7 DEF Pooling, SlotsCounted, IsValid

-----------------------------------------------------------------------------
(* The operations. *)

\* The allocated and the vacant slots are slots of the pool.
LEMMA SlotSets ==
  ASSUME PoolShape
  PROVE  Allocated \subseteq PoolSlots /\ Vacant \subseteq PoolSlots
  BY PoolAssumption DEF PoolShape, Allocated, Vacant, PoolSlots

\* Growing the array: the slots that come with it are vacant.
LEMMA VacantAfterGrowth ==
  ASSUME PoolShape, SlotsSound, NEW n \in 0 .. SlotLimit, cSlots <= n
  PROVE  /\ VacantWhenAllocated(n) =
              {i \in 0 .. n - 1 : ~bOccupied[i] /\ ~bRetired[i]}
         /\ VacantWhenAllocated(n) \subseteq PoolSlots
<1>1. \A i \in PoolSlots : i \notin Allocated => ~bOccupied[i] /\ ~bRetired[i]
  BY DEF SlotsSound, OccupiedPoolSlots, RetiredSlots
<1>2. QED
  BY <1>1, PoolAssumption DEF PoolShape, VacantWhenAllocated, Vacant, Allocated, PoolSlots

\* Init keeps the invariant.
LEMMA InitKeeps ==
  ASSUME Pooling, NEW n \in 0 .. SlotLimit, Pool_Init(n)
  PROVE  Pooling'
<1> USE DEF Pooling
<1>1. PoolShape' /\ SlotsCounted' /\ Allocated = {}
  BY PoolAssumption
     DEF Pool_Init, PoolShape, SlotsCounted, OccupiedPoolSlots, RetiredSlots, Allocated,
         slotState, handles, Handles
<1>2. OccupiedPoolSlots = {} /\ RetiredSlots = {} /\ live = {}
  BY <1>1 DEF SlotsSound, HandlesSound, IsLiveHandle
<1>3. SlotsSound'
  BY <1>2 DEF Pool_Init, SlotsSound, OccupiedPoolSlots, RetiredSlots, slotState
<1>4. HandlesSound'
  BY <1>2 DEF Pool_Init, HandlesSound, slotState, handles
<1>5. Vacant' = 0 .. n - 1 /\ 0 .. n - 1 \in SUBSET PoolSlots
  BY <1>2, PoolAssumption
     DEF Pool_Init, Vacant, Allocated, OccupiedPoolSlots, RetiredSlots, PoolSlots, slotState
<1>6. FreeListSound'
  BY <1>5, RebuiltIsLinked, RebuiltIsWalked DEF Pool_Init, FreeListSound
<1>7. QED
  BY <1>1, <1>3, <1>4, <1>6

\* Reserve keeps the invariant: new slots join the free list.
LEMMA ReserveKeeps ==
  ASSUME Pooling, NEW n \in 0 .. SlotLimit, Pool_Reserve(n)
  PROVE  Pooling'
<1> USE DEF Pooling
<1>1. PoolShape' /\ SlotsCounted'
  BY PoolAssumption
     DEF Pool_Reserve, PoolShape, SlotsCounted, OccupiedPoolSlots, RetiredSlots,
         slotState, handles, Handles
<1>2. Allocated \subseteq Allocated'
  BY PoolAssumption DEF Pool_Reserve, PoolShape, Allocated
<1>3. SlotsSound'
  BY <1>2 DEF Pool_Reserve, SlotsSound, OccupiedPoolSlots, RetiredSlots, slotState
<1>4. HandlesSound'
  BY <1>2 DEF Pool_Reserve, HandlesSound, IsLiveHandle, slotState, handles
<1>5. Vacant' = VacantWhenAllocated(n) /\ VacantWhenAllocated(n) \in SUBSET PoolSlots
  BY VacantAfterGrowth, PoolAssumption
     DEF Pool_Reserve, PoolShape, Vacant, Allocated, slotState
<1>6. FreeListSound'
  BY <1>5, RebuiltIsLinked, RebuiltIsWalked DEF Pool_Reserve, FreeListSound
<1>7. QED
  BY <1>1, <1>3, <1>4, <1>6

\* More slots include fewer.
LEMMA LongerInterval ==
  ASSUME NEW m \in Int, NEW n \in Int, m <= n PROVE 0 .. m - 1 \subseteq 0 .. n - 1
  OBVIOUS

\* What Emplace does to a slot that is neither occupied nor retired.
LEMMA OccupiesKeeps ==
  ASSUME Pooling, NEW i \in PoolSlots, ~bOccupied[i], ~bRetired[i], Occupies(i),
         cSlots' \in 0 .. SlotLimit, cSlots <= cSlots', i \in Allocated',
         poolInitialized
  PROVE  PoolShape' /\ SlotsSound' /\ SlotsCounted' /\ HandlesSound'
<1> USE DEF Pooling
<1>1. OccupiedPoolSlots' = OccupiedPoolSlots \cup {i} /\ RetiredSlots' = RetiredSlots
      /\ i \notin OccupiedPoolSlots /\ i \notin RetiredSlots
  BY DEF Occupies, PoolShape, OccupiedPoolSlots, RetiredSlots
<1>2. Allocated \subseteq Allocated'
  <2>1. cSlots \in Int /\ cSlots' \in Int /\ cSlots <= cSlots'
    BY PoolAssumption DEF PoolShape
  <2>2. 0 .. cSlots - 1 \subseteq 0 .. cSlots' - 1
    BY <2>1, LongerInterval
  <2>3. QED
    BY <2>2 DEF Allocated
<1>3. PoolShape'
  BY DEF Occupies, PoolShape, Handles, HandleAt
<1>4. SlotsSound'
  BY <1>1, <1>2 DEF SlotsSound, Occupies
<1>5. SlotsCounted'
  <2>1. IsFiniteSet(OccupiedPoolSlots)
    BY SlotSetsFinite DEF OccupiedPoolSlots
  <2>2. QED
    BY <1>1, <2>1, FS_AddElement DEF Occupies, SlotsCounted
<1>6. HandlesSound'
  <2>1. nGeneration' = nGeneration /\ bRetired' = bRetired /\ gone' = gone
        /\ \A j \in PoolSlots : bOccupied[j] => bOccupied'[j]
    BY DEF Occupies, PoolShape
  <2>2. IsLiveHandle(HandleAt(i))'
    BY <2>1 DEF Occupies, PoolShape, IsLiveHandle, HandleAt
  <2>3. \A h \in live : IsLiveHandle(h)'
    BY <1>2, <2>1 DEF PoolShape, Handles, HandlesSound, IsLiveHandle
  <2>4. HandleAt(i)' = HandleAt(i)
    BY <2>1 DEF HandleAt
  <2>5. QED
    BY <2>1, <2>2, <2>3, <2>4 DEF Occupies, HandlesSound
<1>7. QED
  BY <1>3, <1>4, <1>5, <1>6

\* Emplace keeps the invariant: the head of the free list is occupied.
LEMMA EmplaceKeeps ==
  ASSUME Pooling, Pool_Emplace
  PROVE  Pooling'
<1> USE DEF Pooling
<1>1. iPoolFreeHead \in Vacant /\ iPoolFreeHead \in PoolSlots
      /\ iPoolFreeHead \in Allocated /\ ~bOccupied[iPoolFreeHead]
      /\ ~bRetired[iPoolFreeHead] /\ Vacant \in SUBSET PoolSlots
  BY SlotSets DEF Pool_Emplace, FreeListSound, Linked, Vacant
<1>2. cSlots' = cSlots /\ Allocated' = Allocated /\ poolInitialized
      /\ Occupies(iPoolFreeHead)
  BY DEF Pool_Emplace, Allocated
<1>3. PoolShape' /\ SlotsSound' /\ SlotsCounted' /\ HandlesSound'
  <2>1. cSlots' \in 0 .. SlotLimit /\ cSlots <= cSlots'
    BY <1>2, PoolAssumption DEF PoolShape
  <2>2. QED
    BY <1>1, <1>2, <2>1, OccupiesKeeps
<1>4. Vacant' = Vacant \ {iPoolFreeHead}
  BY <1>1, <1>2, SlotSets DEF Vacant, Occupies, PoolShape
<1>5. FreeListSound'
  BY <1>1, <1>4, HeadTaken, HeadTakenWalked DEF Pool_Emplace, FreeListSound
<1>6. QED
  BY <1>3, <1>5

\* A pool that grows gets at least one slot more.
LEMMA GrowthGrows ==
  ASSUME PoolShape, cSlots < SlotLimit
  PROVE  GrownSlots \in 0 .. SlotLimit /\ cSlots < GrownSlots
  BY PoolAssumption DEF PoolShape, GrownSlots

\* An Emplace that has to grow the pool first keeps the invariant.
LEMMA GrowAndEmplaceKeeps ==
  ASSUME Pooling, Pool_GrowAndEmplace
  PROVE  Pooling'
<1> USE DEF Pooling
<1>1. /\ cSlots \in Nat /\ SlotLimit \in Nat
      /\ GrownSlots \in 0 .. SlotLimit /\ cSlots < GrownSlots
  BY GrowthGrows, PoolAssumption DEF PoolShape, Pool_GrowAndEmplace
<1>2. cSlots' = GrownSlots /\ Occupies(cSlots) /\ poolInitialized
      /\ RebuildFreeList(VacantWhenAllocated(GrownSlots) \ {cSlots})
  BY DEF Pool_GrowAndEmplace
<1>3. cSlots \in PoolSlots /\ cSlots \notin Allocated /\ cSlots \in Allocated'
  BY <1>1, <1>2 DEF PoolSlots, Allocated
<1>4. ~bOccupied[cSlots] /\ ~bRetired[cSlots]
  BY <1>3 DEF SlotsSound, OccupiedPoolSlots, RetiredSlots
<1>5. PoolShape' /\ SlotsSound' /\ SlotsCounted' /\ HandlesSound'
  <2>1. cSlots' \in 0 .. SlotLimit /\ cSlots <= cSlots'
    BY <1>1, <1>2
  <2>2. QED
    BY <1>2, <1>3, <1>4, <2>1, OccupiesKeeps
<1>6. VacantWhenAllocated(GrownSlots) =
        {i \in 0 .. GrownSlots - 1 : ~bOccupied[i] /\ ~bRetired[i]}
      /\ VacantWhenAllocated(GrownSlots) \subseteq PoolSlots
  BY <1>1, VacantAfterGrowth
<1>7. Vacant' = VacantWhenAllocated(GrownSlots) \ {cSlots}
  BY <1>1, <1>2, <1>3, <1>6 DEF Vacant, Allocated, Occupies, PoolShape, PoolSlots
<1>8. FreeListSound'
  BY <1>2, <1>6, <1>7, RebuiltIsLinked, RebuiltIsWalked DEF FreeListSound
<1>9. QED
  BY <1>5, <1>8

\* Shutdown leaves an empty pool.
LEMMA ShutdownKeeps ==
  ASSUME Pool_Shutdown PROVE Pooling'
<1>1. PoolShape'
  <2>1. 0 \in 0 .. SlotLimit /\ 1 \in 1 .. LastGeneration
    BY PoolAssumption
  <2>2. QED
    BY <2>1 DEF Pool_Shutdown, PoolShape
<1>2. OccupiedPoolSlots' = {} /\ RetiredSlots' = {} /\ Allocated' = {} /\ Vacant' = {}
  BY DEF Pool_Shutdown, OccupiedPoolSlots, RetiredSlots, Allocated, Vacant
<1>3. SlotsSound' /\ SlotsCounted'
  BY <1>2, FS_EmptySet DEF Pool_Shutdown, SlotsSound, SlotsCounted
<1>4. HandlesSound'
  BY DEF Pool_Shutdown, HandlesSound
<1>5. FreeListSound'
  BY <1>2, NothingWalked DEF Pool_Shutdown, FreeListSound, Linked
<1>6. QED
  BY <1>1, <1>3, <1>4, <1>5 DEF Pooling

\* Clear keeps the invariant: the generation of every occupied slot moves on.
LEMMA PoolClearKeeps ==
  ASSUME Pooling, Pool_Clear PROVE Pooling'
<1> DEFINE retired == {i \in OccupiedPoolSlots : nGeneration[i] = LastGeneration}
<1>1. {i \in Allocated : bOccupied[i]} = OccupiedPoolSlots
  BY SlotSets DEF Pooling, SlotsSound, OccupiedPoolSlots
<1>2. {i \in OccupiedPoolSlots : Released(i).retired} = retired
  BY DEF Released
<1>3. /\ nGeneration' = [i \in PoolSlots |->
           IF i \in OccupiedPoolSlots THEN Released(i).generation ELSE nGeneration[i]]
      /\ bRetired' = [i \in PoolSlots |-> i \in retired \/ bRetired[i]]
      /\ cRetiredSlots' = cRetiredSlots + Cardinality(retired)
      /\ RebuildFreeList(Vacant \cup (OccupiedPoolSlots \ retired))
  BY <1>1, <1>2 DEF Pool_Clear, Freed
<1>4. /\ bOccupied' = [i \in PoolSlots |-> FALSE] /\ cRecords' = 0
      /\ live' = {} /\ gone' = gone \cup live
      /\ cSlots' = cSlots /\ Allocated' = Allocated /\ poolInitialized' = poolInitialized
  BY DEF Pool_Clear, Allocated
<1>5. OccupiedPoolSlots' = {} /\ RetiredSlots' = RetiredSlots \cup retired
      /\ RetiredSlots \cap retired = {} /\ OccupiedPoolSlots \subseteq Allocated
      /\ OccupiedPoolSlots \subseteq PoolSlots /\ RetiredSlots \subseteq Allocated
  BY <1>3, <1>4 DEF Pooling, SlotsSound, OccupiedPoolSlots, RetiredSlots
<1>6. \A i \in PoolSlots : nGeneration[i] \in 1 .. LastGeneration
        /\ Released(i).generation \in 1 .. LastGeneration
        /\ (i \notin retired /\ i \in OccupiedPoolSlots =>
              Released(i).generation = nGeneration[i] + 1)
        /\ (i \in retired => Released(i).generation = nGeneration[i])
  BY PoolAssumption DEF Pooling, PoolShape, Released
<1> HIDE DEF retired
<1>7. PoolShape'
  <2>1. nGeneration' \in [PoolSlots -> 1 .. LastGeneration]
    BY <1>3, <1>6
  <2>2. bRetired' \in [PoolSlots -> BOOLEAN]
    BY <1>3 DEF Pooling, PoolShape
  <2>3. QED
    BY <1>4, <2>1, <2>2 DEF Pooling, PoolShape, Handles
<1>8. SlotsSound'
  <2>1. ASSUME NEW i \in RetiredSlots' PROVE nGeneration'[i] = LastGeneration
    <3>1. i \in PoolSlots /\ (i \in retired \/ (i \in RetiredSlots /\ i \notin OccupiedPoolSlots))
      <4>1. i \in RetiredSlots \/ i \in retired
        BY <1>5
      <4>2. retired \subseteq PoolSlots /\ RetiredSlots \subseteq PoolSlots
        BY <1>5 DEF RetiredSlots, retired
      <4>3. OccupiedPoolSlots \cap RetiredSlots = {}
        BY DEF Pooling, SlotsSound
      <4> QED
        BY <4>1, <4>2, <4>3
    <3>2. CASE i \in retired
      BY <1>3, <1>6, <3>1, <3>2 DEF retired
    <3>3. CASE i \in RetiredSlots /\ i \notin OccupiedPoolSlots
      BY <1>3, <3>1, <3>3 DEF Pooling, SlotsSound
    <3> QED
      BY <3>1, <3>2, <3>3
  <2>2. OccupiedPoolSlots' \subseteq Allocated' /\ RetiredSlots' \subseteq Allocated'
        /\ OccupiedPoolSlots' \cap RetiredSlots' = {}
    BY <1>4, <1>5 DEF retired
  <2> QED
    BY <2>1, <2>2 DEF SlotsSound
<1>9. SlotsCounted'
  <2>1. retired \in SUBSET PoolSlots /\ RetiredSlots \in SUBSET PoolSlots
    BY <1>5 DEF retired, RetiredSlots
  <2>2. /\ IsFiniteSet(RetiredSlots) /\ IsFiniteSet(retired)
        /\ Cardinality(RetiredSlots) \in Nat /\ Cardinality(retired) \in Nat
    BY <2>1, SlotSetsFinite
  <2>3. Cardinality(RetiredSlots \cup retired) =
          Cardinality(RetiredSlots) + Cardinality(retired)
          - Cardinality(RetiredSlots \cap retired)
    BY <2>2, FS_Union
  <2>4. Cardinality(RetiredSlots \cap retired) = 0 /\ Cardinality(OccupiedPoolSlots') = 0
    BY <1>5, FS_EmptySet
  <2>5. cRetiredSlots = Cardinality(RetiredSlots)
    BY DEF Pooling, SlotsCounted
  <2>6. QED
    BY <1>3, <1>4, <1>5, <2>2, <2>3, <2>4, <2>5 DEF SlotsCounted
<1>10. HandlesSound'
  <2>1. ASSUME NEW h \in gone'
        PROVE  \/ h.nGeneration < nGeneration'[h.nSlot]
               \/ h.nGeneration = nGeneration'[h.nSlot] /\ bRetired'[h.nSlot]
    <3>1. h.nSlot \in PoolSlots /\ h.nGeneration \in Int
      BY <1>4 DEF Pooling, PoolShape, Handles
    <3>2. nGeneration[h.nSlot] \in Int /\ LastGeneration \in Int
      BY <1>6, <3>1, PoolAssumption
    <3>3. CASE h.nSlot \notin OccupiedPoolSlots
      <4>1. nGeneration'[h.nSlot] = nGeneration[h.nSlot]
            /\ (bRetired[h.nSlot] => bRetired'[h.nSlot])
        BY <1>3, <3>1, <3>3
      <4>2. h \in gone
        BY <1>4, <3>1, <3>3 DEF Pooling, HandlesSound, IsLiveHandle, OccupiedPoolSlots
      <4>3. QED
        BY <4>1, <4>2 DEF Pooling, HandlesSound
    <3>4. CASE h.nSlot \in OccupiedPoolSlots
      <4>1. ~bRetired[h.nSlot]
        BY <3>1, <3>4 DEF Pooling, SlotsSound, RetiredSlots
      <4>2. h.nGeneration <= nGeneration[h.nSlot]
        BY <1>4, <3>1, <3>2, <4>1 DEF Pooling, HandlesSound, IsLiveHandle
      <4>3. CASE h.nSlot \in retired
        <5>1. nGeneration'[h.nSlot] = nGeneration[h.nSlot] /\ bRetired'[h.nSlot]
          BY <1>3, <1>6, <3>1, <3>4, <4>3
        <5>2. QED
          BY <3>1, <3>2, <4>2, <5>1
      <4>4. CASE h.nSlot \notin retired
        <5>1. nGeneration'[h.nSlot] = nGeneration[h.nSlot] + 1
          BY <1>3, <1>6, <3>1, <3>4, <4>4
        <5>2. QED
          BY <3>1, <3>2, <4>2, <5>1
      <4>5. QED
        BY <4>3, <4>4
    <3>5. QED
      BY <3>3, <3>4
  <2>2. QED
    BY <1>4, <2>1 DEF HandlesSound
<1>11. Vacant' = Vacant \cup (OccupiedPoolSlots \ retired)
       /\ Vacant \cup (OccupiedPoolSlots \ retired) \in SUBSET PoolSlots
  <2>1. Allocated \subseteq PoolSlots /\ Vacant \subseteq PoolSlots
    BY SlotSets DEF Pooling
  <2>2. \A i \in PoolSlots : bRetired'[i] = (i \in retired \/ bRetired[i])
                             /\ ~bOccupied'[i]
    BY <1>3, <1>4
  <2>3. \A i \in OccupiedPoolSlots : ~bRetired[i]
    BY DEF Pooling, SlotsSound, OccupiedPoolSlots, RetiredSlots
  <2>4. QED
    BY <1>4, <1>5, <2>1, <2>2, <2>3 DEF Vacant, OccupiedPoolSlots, retired
<1>12. FreeListSound'
  BY <1>3, <1>11, RebuiltIsLinked, RebuiltIsWalked DEF FreeListSound
<1>13. QED
  BY <1>7, <1>8, <1>9, <1>10, <1>12 DEF Pooling

\* Remove keeps the invariant: a slot whose generations are used up is retired.
LEMMA RemoveKeeps ==
  ASSUME Pooling, NEW handle \in live \cup gone, Pool_Remove(handle)
  PROVE  Pooling'
<1> DEFINE i == handle.nSlot
           last == nGeneration[i] = LastGeneration
<1>1. /\ i \in PoolSlots /\ i \in Allocated /\ bOccupied[i] /\ ~bRetired[i]
      /\ handle.nGeneration = nGeneration[i] /\ handle \in Handles
      /\ Vacant \in SUBSET PoolSlots /\ i \notin Vacant
  BY SlotSets
     DEF Pooling, PoolShape, Pool_Remove, IsLiveHandle, Handles, SlotsSound,
         OccupiedPoolSlots, RetiredSlots, Vacant
<1>2. /\ bOccupied' = [bOccupied EXCEPT ![i] = FALSE] /\ cRecords' = cRecords - 1
      /\ live' = live \ {handle} /\ gone' = gone \cup {handle}
      /\ cSlots' = cSlots /\ Allocated' = Allocated /\ poolInitialized' = poolInitialized
  BY DEF Pool_Remove, Allocated
<1>3. /\ nGeneration' = [nGeneration EXCEPT ![i] =
                           IF last THEN LastGeneration ELSE nGeneration[i] + 1]
      /\ bRetired' = [bRetired EXCEPT ![i] = last]
      /\ last => cRetiredSlots' = cRetiredSlots + 1 /\ UNCHANGED freeList
      /\ ~last => /\ iPoolFreeHead' = i
                  /\ iPoolNextFree' = [iPoolNextFree EXCEPT ![i] = iPoolFreeHead]
                  /\ cRetiredSlots' = cRetiredSlots
  BY DEF Pool_Remove, Released
<1>4. nGeneration[i] \in 1 .. LastGeneration /\ LastGeneration \in Nat
      /\ nGeneration \in [PoolSlots -> 1 .. LastGeneration]
      /\ bOccupied \in [PoolSlots -> BOOLEAN] /\ bRetired \in [PoolSlots -> BOOLEAN]
  BY <1>1, PoolAssumption DEF Pooling, PoolShape
<1>5. /\ OccupiedPoolSlots' = OccupiedPoolSlots \ {i} /\ i \in OccupiedPoolSlots
      /\ i \notin RetiredSlots
      /\ RetiredSlots' = IF last THEN RetiredSlots \cup {i} ELSE RetiredSlots
  BY <1>1, <1>2, <1>3, <1>4 DEF OccupiedPoolSlots, RetiredSlots
<1> HIDE DEF i, last
<1>6. PoolShape'
  <2>1. nGeneration' \in [PoolSlots -> 1 .. LastGeneration]
    BY <1>1, <1>3, <1>4 DEF last
  <2>2. bRetired' \in [PoolSlots -> BOOLEAN] /\ bOccupied' \in [PoolSlots -> BOOLEAN]
    BY <1>1, <1>2, <1>3, <1>4 DEF last
  <2>3. QED
    BY <1>1, <1>2, <2>1, <2>2 DEF Pooling, PoolShape, Handles
<1>7. SlotsSound'
  <2>1. ASSUME NEW k \in RetiredSlots' PROVE nGeneration'[k] = LastGeneration
    <3>1. k \in PoolSlots
      BY DEF RetiredSlots
    <3>2. CASE k = i
      <4>1. last
        BY <1>5, <2>1, <3>2
      <4> QED
        BY <1>1, <1>3, <1>4, <3>2, <4>1
    <3>3. CASE k # i
      <4>1. k \in RetiredSlots
        BY <1>5, <2>1, <3>3
      <4>2. nGeneration'[k] = nGeneration[k]
        BY <1>3, <1>4, <3>1, <3>3
      <4> QED
        BY <4>1, <4>2 DEF Pooling, SlotsSound
    <3> QED
      BY <3>2, <3>3
  <2>2. /\ OccupiedPoolSlots \subseteq Allocated /\ RetiredSlots \subseteq Allocated
        /\ OccupiedPoolSlots \cap RetiredSlots = {}
    BY DEF Pooling, SlotsSound
  <2>3. OccupiedPoolSlots' \subseteq Allocated' /\ RetiredSlots' \subseteq Allocated'
        /\ OccupiedPoolSlots' \cap RetiredSlots' = {}
    BY <1>1, <1>2, <1>5, <2>2
  <2> QED
    BY <2>1, <2>3 DEF SlotsSound
<1>8. SlotsCounted'
  <2>1. OccupiedPoolSlots \in SUBSET PoolSlots /\ RetiredSlots \in SUBSET PoolSlots
    BY DEF OccupiedPoolSlots, RetiredSlots
  <2>2. IsFiniteSet(OccupiedPoolSlots) /\ IsFiniteSet(RetiredSlots)
    BY <2>1, SlotSetsFinite
  <2>3. Cardinality(OccupiedPoolSlots \ {i}) = Cardinality(OccupiedPoolSlots) - 1
    BY <1>5, <2>2, FS_RemoveElement
  <2>4. Cardinality(RetiredSlots \cup {i}) = Cardinality(RetiredSlots) + 1
    BY <1>5, <2>2, FS_AddElement
  <2>5. cRecords = Cardinality(OccupiedPoolSlots) /\ cRetiredSlots = Cardinality(RetiredSlots)
    BY DEF Pooling, SlotsCounted
  <2>6. QED
    BY <1>2, <1>3, <1>5, <2>3, <2>4, <2>5 DEF SlotsCounted
<1>9. HandlesSound'
  <2>1. ASSUME NEW h \in live' PROVE IsLiveHandle(h)'
    <3>1. h \in live /\ h # handle /\ h \in Handles /\ IsLiveHandle(h)
      BY <1>2, <2>1 DEF Pooling, PoolShape, HandlesSound
    <3>2. h.nSlot # i
      BY <1>1, <3>1 DEF i, IsLiveHandle, Handles
    <3>3. bOccupied'[h.nSlot] = bOccupied[h.nSlot]
          /\ nGeneration'[h.nSlot] = nGeneration[h.nSlot]
      BY <1>2, <1>3, <1>4, <3>1, <3>2 DEF Handles
    <3>4. QED
      BY <1>2, <3>1, <3>3 DEF IsLiveHandle
  <2>2. ASSUME NEW h \in gone'
        PROVE  \/ h.nGeneration < nGeneration'[h.nSlot]
               \/ h.nGeneration = nGeneration'[h.nSlot] /\ bRetired'[h.nSlot]
    <3>1. h.nSlot \in PoolSlots /\ h.nGeneration \in Int
      BY <1>1, <1>2 DEF Pooling, PoolShape, Handles
    <3>2. CASE h.nSlot # i
      <4>1. h \in gone
        BY <1>2, <3>2 DEF i
      <4>2. nGeneration'[h.nSlot] = nGeneration[h.nSlot]
            /\ bRetired'[h.nSlot] = bRetired[h.nSlot]
        BY <1>3, <1>4, <3>1, <3>2
      <4>3. QED
        BY <4>1, <4>2 DEF Pooling, HandlesSound
    <3>3. CASE h.nSlot = i
      <4>1. h.nGeneration <= nGeneration[i]
        BY <1>1, <1>2, <1>4, <3>1, <3>3 DEF Pooling, HandlesSound
      <4>2. nGeneration'[i] = (IF last THEN LastGeneration ELSE nGeneration[i] + 1)
            /\ bRetired'[i] = last
        BY <1>1, <1>3, <1>4
      <4>3. CASE last
        <5>1. nGeneration'[i] = nGeneration[i] /\ bRetired'[i]
          BY <4>2, <4>3 DEF last
        <5>2. QED
          BY <1>4, <3>1, <3>3, <4>1, <5>1
      <4>4. CASE ~last
        BY <1>4, <3>1, <3>3, <4>1, <4>2, <4>4
      <4>5. QED
        BY <4>3, <4>4
    <3>4. QED
      BY <3>2, <3>3
  <2>3. QED
    BY <2>1, <2>2 DEF HandlesSound
<1>10. FreeListSound'
  <2>1. \A j \in PoolSlots :
          j # i => bOccupied'[j] = bOccupied[j] /\ bRetired'[j] = bRetired[j]
    BY <1>1, <1>2, <1>3, <1>4
  <2>2. ~bOccupied'[i] /\ (bRetired'[i] <=> last)
    BY <1>1, <1>2, <1>3, <1>4
  <2>3. Allocated \subseteq PoolSlots
    BY SlotSets DEF Pooling
  <2>4. CASE last
    <3>1. Vacant' = Vacant
      BY <1>1, <1>2, <2>1, <2>2, <2>3, <2>4 DEF Vacant
    <3>2. QED
      BY <1>3, <2>4, <3>1 DEF Pooling, FreeListSound, freeList
  <2>5. CASE ~last
    <3>1. Vacant' = Vacant \cup {i}
      BY <1>1, <1>2, <2>1, <2>2, <2>3, <2>5 DEF Vacant
    <3>2. Linked(Vacant, iPoolFreeHead, iPoolNextFree) /\ i \in PoolSlots \ Vacant
          /\ ListWalked(Vacant, iPoolFreeHead, iPoolNextFree)
      BY <1>1 DEF Pooling, FreeListSound
    <3>3. QED
      BY <1>1, <1>3, <2>5, <3>1, <3>2, SlotPushed, SlotPushedWalked DEF FreeListSound
  <2>6. QED
    BY <2>4, <2>5
<1>11. QED
  BY <1>6, <1>7, <1>8, <1>9, <1>10 DEF Pooling

-----------------------------------------------------------------------------
(* The theorems. *)

\* The invariant holds initially.
LEMMA PoolingStarts == GInit => Pooling
<1> SUFFICES ASSUME GInit PROVE Pooling
  OBVIOUS
<1>1. PoolShape
  <2>1. 0 \in 0 .. SlotLimit /\ 1 \in 1 .. LastGeneration
    BY PoolAssumption
  <2>2. QED
    BY <2>1 DEF GInit, PoolShape
<1>2. OccupiedPoolSlots = {} /\ RetiredSlots = {} /\ Vacant = {}
  BY DEF GInit, OccupiedPoolSlots, RetiredSlots, Allocated, Vacant
<1>3. SlotsSound /\ SlotsCounted
  BY <1>2, FS_EmptySet DEF GInit, SlotsSound, SlotsCounted
<1>4. HandlesSound /\ FreeListSound
  BY <1>2, NothingWalked DEF GInit, HandlesSound, FreeListSound, Linked
<1>5. QED
  BY <1>1, <1>3, <1>4 DEF Pooling

\* Every step keeps it.
LEMMA PoolingKept == Pooling /\ [GNext]_gvars => Pooling'
<1> SUFFICES ASSUME Pooling, [GNext]_gvars PROVE Pooling'
  OBVIOUS
<1>1. CASE \E n \in 0 .. SlotLimit : Pool_Init(n) \/ Pool_Reserve(n)
  BY <1>1, InitKeeps, ReserveKeeps
<1>2. CASE Pool_Shutdown
  BY <1>2, ShutdownKeeps
<1>3. CASE Pool_Clear
  BY <1>3, PoolClearKeeps
<1>4. CASE Pool_Emplace
  BY <1>4, EmplaceKeeps
<1>5. CASE Pool_GrowAndEmplace
  BY <1>5, GrowAndEmplaceKeeps
<1>6. CASE \E handle \in live \cup gone : Pool_Remove(handle)
  BY <1>6, RemoveKeeps
<1>7. CASE UNCHANGED gvars
  BY <1>7
     DEF gvars, counters, slotState, freeList, handles, Pooling, PoolShape, SlotsSound,
         SlotsCounted, HandlesSound, FreeListSound, OccupiedPoolSlots, RetiredSlots,
         Allocated, Vacant, IsLiveHandle
<1>8. QED
  BY <1>1, <1>2, <1>3, <1>4, <1>5, <1>6, <1>7 DEF GNext

\* Every operation of GenerationPool.inl keeps the slots, the counters, the handles
\* given out and the free list in agreement.
THEOREM PoolingInvariant == GSpec => []Pooling
<1>1. QED
  BY PoolingStarts, PoolingKept, PTL DEF GSpec

\* The variables keep their types; the counters stay within the allocated slots.
THEOREM PoolTypeCorrect == GSpec => []GTypeOK
<1>1. QED
  BY PoolingInvariant, PoolTypes, PTL

\* However often the slots are reused, a handle given out resolves until its record is
\* removed and never after, in a pool of any size and with any last generation.
THEOREM HandlesStayUnique == GSpec => []HandlesNameOneRecord
<1>1. QED
  BY PoolingInvariant, PoolHandles, PTL

\* Emplace and Remove never meet a free list that their local checks refuse: no call
\* on a pool that was not corrupted from outside returns CORRUPT_STATE for them.
THEOREM MutationsAlwaysTrusted == GSpec => []MutationsTrusted
<1>1. QED
  BY PoolingInvariant, PoolMutations, PTL

\* Neither does the full audit of GenerationPool_IsValid ever find anything: however
\* slots were taken, given back, retired and added, the walk from the head reaches
\* every free slot and stops, and the counters agree with the slots.
THEOREM FreeListAlwaysTrusted == GSpec => []FreeListTrusted
<1>1. Pooling => FreeListTrusted
  BY PoolMutations, PoolAudited DEF FreeListTrusted
<1>2. QED
  BY <1>1, PoolingInvariant, PTL

-----------------------------------------------------------------------------
(* The call queue. *)

\* Queue_IsValid, but for the slots outside the logical range.
IsRing(q) ==
  /\ q \in [pData : Seq(Nat), nCount : Nat, iHead : Nat]
  /\ q.nCount <= Capacity(q)
  /\ q.iHead = 0 \/ q.iHead < Capacity(q)

\* A logical position has a slot of the storage,
LEMMA IndexInStorage ==
  ASSUME NEW q, IsRing(q), NEW i \in Nat, i < Capacity(q)
  PROVE  PhysicalIndex(q, i) \in 0 .. Capacity(q) - 1
  BY DEF IsRing, PhysicalIndex, Capacity

\* and no two positions share one.
LEMMA IndicesDiffer ==
  ASSUME NEW q, IsRing(q), NEW i \in Nat, NEW j \in Nat,
         i < Capacity(q), j < Capacity(q), i # j
  PROVE  PhysicalIndex(q, i) # PhysicalIndex(q, j)
  BY DEF IsRing, PhysicalIndex, Capacity

\* What a ring shows is as long as its count says.
LEMMA QueuedCalls ==
  ASSUME NEW q, IsRing(q)
  PROVE  /\ Queued(q) \in Seq(Nat) /\ Len(Queued(q)) = q.nCount
         /\ \A i \in 1 .. q.nCount :
              Queued(q)[i] = q.pData[PhysicalIndex(q, i - 1) + 1]
<1>1. ASSUME NEW i \in 1 .. q.nCount PROVE PhysicalIndex(q, i - 1) + 1 \in 1 .. Capacity(q)
  <2>1. i - 1 \in Nat /\ i - 1 < Capacity(q) /\ Capacity(q) \in Nat
    BY DEF IsRing, Capacity
  <2>2. PhysicalIndex(q, i - 1) \in 0 .. Capacity(q) - 1
    BY <2>1, IndexInStorage
  <2>3. QED
    BY <2>1, <2>2
<1>2. \A i \in 1 .. q.nCount : q.pData[PhysicalIndex(q, i - 1) + 1] \in Nat
  BY <1>1 DEF IsRing, Capacity
<1>3. QED
  BY <1>2 DEF Queued, IsRing

\* The growth policy of the ring never returns less than was asked for.
LEMMA GrowthHasRoom ==
  ASSUME NEW capacity \in Nat, NEW required \in Nat
  PROVE  RingGrowth(capacity, required) \in Nat /\ RingGrowth(capacity, required) >= required
<1>1. \A n \in Nat : n \div 2 \in Nat
  OBVIOUS
<1>2. QED
  BY <1>1, CallQueueAssumption DEF RingGrowth

\* Moving to larger storage leaves what is queued as it was, and makes room.
LEMMA GrowthKeepsOrder ==
  ASSUME NEW q, IsRing(q)
  PROVE  /\ IsRing(Grown(q)) /\ Grown(q).nCount = q.nCount /\ q.nCount < Capacity(Grown(q))
         /\ Queued(Grown(q)) = Queued(q)
<1> DEFINE size == RingGrowth(Capacity(q), q.nCount + 1)
<1>0. Capacity(q) \in Nat /\ q.nCount \in Nat /\ q.nCount + 1 \in Nat
  BY DEF IsRing, Capacity
<1>1. size \in Nat /\ size >= q.nCount + 1
  BY <1>0, GrowthHasRoom
<1> HIDE DEF size
<1>2. Grown(q) = [pData |-> [i \in 1 .. size |-> IF i <= q.nCount THEN Queued(q)[i] ELSE NoCall],
                  nCount |-> q.nCount, iHead |-> 0]
  BY DEF Grown, CopiedInOrder, size
<1> DEFINE data == [i \in 1 .. size |-> IF i <= q.nCount THEN Queued(q)[i] ELSE NoCall]
<1>3. \A i \in 1 .. size : (IF i <= q.nCount THEN Queued(q)[i] ELSE NoCall) \in Nat
  BY QueuedCalls, <1>1 DEF IsRing, NoCall
<1>4. data \in Seq(Nat) /\ Len(data) = size
  BY <1>1, <1>3
<1>5. IsRing(Grown(q)) /\ Capacity(Grown(q)) = size /\ Grown(q).nCount = q.nCount
  BY <1>1, <1>2, <1>4 DEF IsRing, Capacity
<1>6. \A i \in 1 .. q.nCount : Queued(Grown(q))[i] = Queued(q)[i]
  <2> SUFFICES ASSUME NEW i \in 1 .. q.nCount PROVE Queued(Grown(q))[i] = Queued(q)[i]
    OBVIOUS
  <2>1. PhysicalIndex(Grown(q), i - 1) + 1 = i /\ i \in 1 .. size
    <3>1. Grown(q).iHead = 0
      BY <1>2
    <3>2. i - 1 \in Nat /\ i - 1 < size /\ i \in 1 .. size
      BY <1>0, <1>1
    <3>3. QED
      BY <1>1, <1>5, <3>1, <3>2 DEF PhysicalIndex
  <2>2. Queued(Grown(q))[i] = Grown(q).pData[i]
    BY <1>5, <2>1, QueuedCalls
  <2>3. QED
    BY <1>2, <2>1, <2>2
<1>7. Queued(q) \in Seq(Nat) /\ Len(Queued(q)) = q.nCount
  BY QueuedCalls
<1>8. Queued(Grown(q)) \in Seq(Nat) /\ Len(Queued(Grown(q))) = q.nCount
  BY <1>5, QueuedCalls
<1>9. Queued(Grown(q)) = Queued(q)
  BY <1>6, <1>7, <1>8
<1>10. QED
  BY <1>0, <1>1, <1>5, <1>9

\* The slot a push writes to is not that of a queued element.
LEMMA StoredInFront ==
  ASSUME NEW q, IsRing(q), q.nCount < Capacity(q), NEW call \in Nat
  PROVE  LET r == [q EXCEPT !.pData[PhysicalIndex(q, q.nCount) + 1] = call, !.nCount = @ + 1]
         IN  IsRing(r) /\ Queued(r) = Append(Queued(q), call)
<1> DEFINE slot == PhysicalIndex(q, q.nCount) + 1
           r == [q EXCEPT !.pData[slot] = call, !.nCount = @ + 1]
<1>1. q.nCount \in Nat /\ Capacity(q) \in Nat
  BY DEF IsRing, Capacity
<1>2. slot \in 1 .. Capacity(q)
  BY <1>1, IndexInStorage
<1> HIDE DEF slot
<1>3. /\ r.pData = [q.pData EXCEPT ![slot] = call] /\ r.nCount = q.nCount + 1
      /\ r.iHead = q.iHead
  BY DEF IsRing
<1>4. r.pData \in Seq(Nat) /\ Len(r.pData) = Capacity(q)
  BY <1>2, <1>3 DEF IsRing, Capacity
<1>5. r \in [pData : Seq(Nat), nCount : Nat, iHead : Nat]
  <2>1. r.nCount \in Nat /\ r.iHead \in Nat
    BY <1>1, <1>3 DEF IsRing
  <2>2. r = [q EXCEPT !.pData[slot] = call, !.nCount = @ + 1]
    OBVIOUS
  <2> HIDE DEF r
  <2>3. r = [pData |-> r.pData, nCount |-> r.nCount, iHead |-> r.iHead]
    BY <2>2 DEF IsRing
  <2>4. QED
    BY <1>4, <2>1, <2>3
<1>6. IsRing(r) /\ Capacity(r) = Capacity(q)
  BY <1>1, <1>3, <1>4, <1>5 DEF IsRing, Capacity
<1> HIDE DEF r
<1>7. \A i : PhysicalIndex(r, i) = PhysicalIndex(q, i)
  BY <1>3, <1>6, Zenon DEF PhysicalIndex
<1>8. Queued(r) \in Seq(Nat) /\ Len(Queued(r)) = q.nCount + 1
  BY <1>3, <1>6, QueuedCalls
<1>9. Queued(q) \in Seq(Nat) /\ Len(Queued(q)) = q.nCount
  BY QueuedCalls
<1>10. ASSUME NEW i \in 1 .. q.nCount PROVE Queued(r)[i] = Queued(q)[i]
  <2>1. i - 1 \in Nat /\ i - 1 < Capacity(q) /\ i - 1 # q.nCount
    BY <1>1 DEF IsRing
  <2>2. PhysicalIndex(q, i - 1) + 1 # slot /\ PhysicalIndex(q, i - 1) + 1 \in 1 .. Capacity(q)
    <3>1. PhysicalIndex(q, i - 1) # PhysicalIndex(q, q.nCount)
      BY <1>1, <2>1, IndicesDiffer
    <3>2. /\ PhysicalIndex(q, i - 1) \in 0 .. Capacity(q) - 1
          /\ PhysicalIndex(q, q.nCount) \in 0 .. Capacity(q) - 1
      BY <1>1, <2>1, IndexInStorage
    <3>3. QED
      BY <1>1, <3>1, <3>2 DEF slot
  <2>3. r.pData[PhysicalIndex(q, i - 1) + 1] = q.pData[PhysicalIndex(q, i - 1) + 1]
    BY <1>3, <2>2 DEF IsRing, Capacity
  <2>4. i \in 1 .. r.nCount
    BY <1>1, <1>3
  <2>5. Queued(r)[i] = r.pData[PhysicalIndex(r, i - 1) + 1]
    BY <1>6, <2>4, QueuedCalls
  <2>6. QED
    BY <1>7, <2>1, <2>3, <2>5, QueuedCalls
<1>11. Queued(r)[q.nCount + 1] = call
  <2>1. q.nCount + 1 \in 1 .. r.nCount /\ (q.nCount + 1) - 1 = q.nCount
    BY <1>1, <1>3
  <2>2. Queued(r)[q.nCount + 1] = r.pData[PhysicalIndex(r, q.nCount) + 1]
    BY <1>6, <2>1, QueuedCalls
  <2>3. PhysicalIndex(r, q.nCount) + 1 = slot
    BY <1>1, <1>7 DEF slot
  <2>4. QED
    BY <1>2, <1>3, <2>2, <2>3 DEF IsRing, Capacity
<1>12. Queued(r) = Append(Queued(q), call)
  BY <1>1, <1>8, <1>9, <1>10, <1>11
<1>13. QED
  BY <1>6, <1>12 DEF r, slot

\* Queue_Push appends, with or without growth.
LEMMA PushAppends ==
  ASSUME NEW q, IsRing(q), NEW call \in Nat
  PROVE  IsRing(RingPush(q, call)) /\ Queued(RingPush(q, call)) = Append(Queued(q), call)
<1> DEFINE room == IF q.nCount = Capacity(q) THEN Grown(q) ELSE q
<1>1. IsRing(room) /\ room.nCount < Capacity(room) /\ Queued(room) = Queued(q)
  <2>1. CASE q.nCount = Capacity(q)
    <3>1. Grown(q).nCount < Capacity(Grown(q))
      BY GrowthKeepsOrder
    <3>2. QED
      BY <2>1, <3>1, GrowthKeepsOrder
  <2>2. CASE q.nCount # Capacity(q)
    <3>1. q.nCount < Capacity(q)
      BY <2>2 DEF IsRing, Capacity
    <3>2. QED
      BY <2>2, <3>1
  <2>3. QED
    BY <2>1, <2>2
<1>2. RingPush(q, call) =
        [room EXCEPT !.pData[PhysicalIndex(room, room.nCount) + 1] = call, !.nCount = @ + 1]
  BY DEF RingPush
<1> HIDE DEF room
<1>3. QED
  BY <1>1, <1>2, StoredInFront

\* Queue_PopFront takes the first element, and moves no other one.
LEMMA PopDropsFirst ==
  ASSUME NEW q, IsRing(q), q.nCount > 0
  PROVE  /\ IsRing(RingPop(q)) /\ FirstCall(q) = Head(Queued(q))
         /\ Queued(RingPop(q)) = Tail(Queued(q))
<1> DEFINE r == RingPop(q)
           next == IF q.nCount > 1 THEN PhysicalIndex(q, 1) ELSE 0
<1>1. q.nCount \in Nat /\ Capacity(q) \in Nat /\ q.iHead \in Nat /\ q.iHead + 1 \in 1 .. Capacity(q)
  BY DEF IsRing, Capacity
<1>2. next \in Nat /\ (next = 0 \/ next < Capacity(q))
  <2>1. q.nCount > 1 => 1 < Capacity(q)
    BY <1>1 DEF IsRing
  <2>2. q.nCount > 1 => PhysicalIndex(q, 1) \in 0 .. Capacity(q) - 1
    BY <2>1, IndexInStorage
  <2>3. QED
    BY <1>1, <2>2
<1> HIDE DEF next
<1>3. /\ r = [q EXCEPT !.pData[q.iHead + 1] = NoCall, !.nCount = @ - 1, !.iHead = next]
  BY DEF RingPop, next
<1>4. /\ r.pData = [q.pData EXCEPT ![q.iHead + 1] = NoCall]
      /\ r.nCount = q.nCount - 1 /\ r.iHead = next
  BY <1>3 DEF IsRing
<1>5. r.pData \in Seq(Nat) /\ Len(r.pData) = Capacity(q)
  BY <1>1, <1>4 DEF IsRing, Capacity, NoCall
<1>6. r \in [pData : Seq(Nat), nCount : Nat, iHead : Nat]
  <2>1. r.nCount \in Nat /\ r.iHead \in Nat
    BY <1>1, <1>2, <1>4
  <2>2. r = [pData |-> r.pData, nCount |-> r.nCount, iHead |-> r.iHead]
    BY <1>3 DEF IsRing
  <2>3. QED
    BY <1>5, <2>1, <2>2
<1> HIDE DEF r
<1>7. IsRing(r) /\ Capacity(r) = Capacity(q)
  <2>1. Capacity(r) = Capacity(q) /\ q.nCount <= Capacity(q)
    BY <1>5 DEF Capacity, IsRing
  <2>2. QED
    BY <1>1, <1>2, <1>4, <1>6, <2>1 DEF IsRing
<1>8. /\ Queued(q) \in Seq(Nat) /\ Len(Queued(q)) = q.nCount
      /\ Queued(r) \in Seq(Nat) /\ Len(Queued(r)) = q.nCount - 1
  BY <1>4, <1>7, QueuedCalls
<1>9. FirstCall(q) = Head(Queued(q))
  <2>1. PhysicalIndex(q, 1 - 1) = q.iHead
    BY <1>1 DEF PhysicalIndex
  <2>2. Queued(q)[1] = q.pData[PhysicalIndex(q, 1 - 1) + 1]
    BY <1>1, QueuedCalls
  <2>3. QED
    BY <1>1, <1>8, <2>1, <2>2 DEF FirstCall
<1>10. ASSUME NEW i \in 1 .. q.nCount - 1 PROVE Queued(r)[i] = Queued(q)[i + 1]
  <2>1. /\ i \in Nat /\ i - 1 \in Nat /\ i < Capacity(q) /\ q.nCount > 1
        /\ i \in 1 .. r.nCount /\ i + 1 \in 1 .. q.nCount /\ (i + 1) - 1 = i
    BY <1>1, <1>4 DEF IsRing
  <2>2. PhysicalIndex(r, i - 1) = PhysicalIndex(q, i)
    <3>1. q.nCount <= Capacity(q) /\ (q.iHead = 0 \/ q.iHead < Capacity(q))
      BY DEF IsRing
    <3>2. PhysicalIndex(r, i - 1) = IF i - 1 < Capacity(q) - r.iHead THEN r.iHead + (i - 1)
                                    ELSE (i - 1) - (Capacity(q) - r.iHead)
      BY <1>7, Zenon DEF PhysicalIndex
    <3>3. r.iHead = PhysicalIndex(q, 1)
      BY <1>4, <2>1 DEF next
    <3>4. PhysicalIndex(q, 1) = IF 1 < Capacity(q) - q.iHead THEN q.iHead + 1
                                ELSE 1 - (Capacity(q) - q.iHead)
      BY DEF PhysicalIndex
    <3>5. PhysicalIndex(q, i) = IF i < Capacity(q) - q.iHead THEN q.iHead + i
                                ELSE i - (Capacity(q) - q.iHead)
      BY DEF PhysicalIndex
    <3> HIDE DEF next
    <3>6. CASE 1 < Capacity(q) - q.iHead
      BY <1>1, <2>1, <3>1, <3>2, <3>3, <3>4, <3>5, <3>6
    <3>7. CASE ~(1 < Capacity(q) - q.iHead)
      BY <1>1, <2>1, <3>1, <3>2, <3>3, <3>4, <3>5, <3>7
    <3>8. QED
      BY <3>6, <3>7
  <2>3. PhysicalIndex(q, i) + 1 # q.iHead + 1 /\ PhysicalIndex(q, i) + 1 \in 1 .. Capacity(q)
    BY <1>1, <2>1 DEF PhysicalIndex, IsRing
  <2>4. Queued(r)[i] = r.pData[PhysicalIndex(r, i - 1) + 1]
    BY <1>7, <2>1, QueuedCalls
  <2>5. Queued(q)[i + 1] = q.pData[PhysicalIndex(q, (i + 1) - 1) + 1]
    BY <2>1, QueuedCalls
  <2>6. r.pData[PhysicalIndex(q, i) + 1] = q.pData[PhysicalIndex(q, i) + 1]
    BY <1>4, <2>3 DEF IsRing, Capacity
  <2>7. QED
    BY <2>1, <2>2, <2>4, <2>5, <2>6
<1>11. Queued(r) = Tail(Queued(q))
  <2>1. /\ Tail(Queued(q)) \in Seq(Nat) /\ Len(Tail(Queued(q))) = q.nCount - 1
        /\ \A i \in 1 .. q.nCount - 1 : Tail(Queued(q))[i] = Queued(q)[i + 1]
    BY <1>1, <1>8
  <2>2. \A i \in 1 .. q.nCount - 1 : Queued(r)[i] = Tail(Queued(q))[i]
    BY <1>10, <2>1
  <2>3. QED
    BY <1>8, <2>1, <2>2
<1>12. QED
  BY <1>7, <1>9, <1>11 DEF r

\* The rest of Queue_IsValid: outside the logical range there are no elements, and an
\* empty ring is back at the start of its storage.
Tidy(q) ==
  /\ q.nCount = 0 => q.iHead = 0
  /\ \A i \in 0 .. Capacity(q) - 1 :
       q.pData[PhysicalIndex(q, i) + 1] # NoCall <=> i < q.nCount

\* Larger storage has its elements in front.
LEMMA GrowthTidy ==
  ASSUME NEW q, IsRing(q), Tidy(q) PROVE Tidy(Grown(q))
<1> DEFINE size == RingGrowth(Capacity(q), q.nCount + 1)
           r == Grown(q)
<1>0. Capacity(q) \in Nat /\ q.nCount \in Nat /\ q.nCount + 1 \in Nat /\ q.nCount <= Capacity(q)
  BY DEF IsRing, Capacity
<1>1. size \in Nat /\ size >= q.nCount + 1
  BY <1>0, GrowthHasRoom
<1> HIDE DEF size
<1> DEFINE data == [i \in 1 .. size |-> IF i <= q.nCount THEN Queued(q)[i] ELSE NoCall]
<1>2. r = [pData |-> data, nCount |-> q.nCount, iHead |-> 0]
  BY DEF Grown, CopiedInOrder, size
<1> HIDE DEF r
<1>3. r.pData = data /\ r.nCount = q.nCount /\ r.iHead = 0
  BY <1>2
<1>4. Len(data) = size
  BY <1>1
<1>5. Capacity(r) = size
  BY <1>3, <1>4 DEF Capacity
<1>6. ASSUME NEW i \in 0 .. size - 1
      PROVE  r.pData[PhysicalIndex(r, i) + 1] # NoCall <=> i < q.nCount
  <2>1. PhysicalIndex(r, i) = i /\ i + 1 \in 1 .. size
    BY <1>1, <1>3, <1>5 DEF PhysicalIndex
  <2>2. CASE i < q.nCount
    <3>1. i + 1 \in 1 .. q.nCount /\ (i + 1) - 1 = i /\ i \in 0 .. Capacity(q) - 1
      BY <1>0, <2>2
    <3>2. Queued(q)[i + 1] = q.pData[PhysicalIndex(q, i) + 1]
      BY <3>1, QueuedCalls
    <3>3. r.pData[i + 1] = Queued(q)[i + 1]
      BY <1>3, <2>1, <3>1
    <3> QED
      BY <2>1, <2>2, <3>1, <3>2, <3>3 DEF Tidy
  <2>3. CASE ~(i < q.nCount)
    <3>1. ~(i + 1 <= q.nCount)
      BY <1>0, <2>3
    <3> QED
      BY <1>3, <2>1, <2>3, <3>1
  <2> QED
    BY <2>2, <2>3
<1> QED
  BY <1>3, <1>5, <1>6 DEF Tidy, r

\* A push fills the first empty slot.
LEMMA StoredTidy ==
  ASSUME NEW q, IsRing(q), Tidy(q), q.nCount < Capacity(q), NEW call \in Nat \ {NoCall}
  PROVE  Tidy([q EXCEPT !.pData[PhysicalIndex(q, q.nCount) + 1] = call, !.nCount = @ + 1])
<1> DEFINE slot == PhysicalIndex(q, q.nCount) + 1
           r == [q EXCEPT !.pData[slot] = call, !.nCount = @ + 1]
<1>1. q.nCount \in Nat /\ Capacity(q) \in Nat
  BY DEF IsRing, Capacity
<1>2. slot \in 1 .. Capacity(q)
  BY <1>1, IndexInStorage
<1> HIDE DEF slot
<1>3. /\ r.pData = [q.pData EXCEPT ![slot] = call] /\ r.nCount = q.nCount + 1
      /\ r.iHead = q.iHead
  BY DEF IsRing
<1>4. Len(r.pData) = Capacity(q)
  BY <1>2, <1>3 DEF IsRing, Capacity
<1> HIDE DEF r
<1>5. Capacity(r) = Capacity(q)
  BY <1>4 DEF Capacity
<1>6. \A i : PhysicalIndex(r, i) = PhysicalIndex(q, i)
  BY <1>3, <1>5, Zenon DEF PhysicalIndex
<1>7. ASSUME NEW i \in 0 .. Capacity(q) - 1
      PROVE  r.pData[PhysicalIndex(r, i) + 1] # NoCall <=> i < q.nCount + 1
  <2>1. i \in Nat /\ i < Capacity(q)
    BY <1>1
  <2>2. CASE i = q.nCount
    <3>1. r.pData[slot] = call
      BY <1>2, <1>3 DEF IsRing, Capacity
    <3>2. PhysicalIndex(r, i) + 1 = slot
      BY <1>6, <2>2 DEF slot
    <3> QED
      BY <1>1, <2>2, <3>1, <3>2
  <2>3. CASE i # q.nCount
    <3>1. PhysicalIndex(q, i) # PhysicalIndex(q, q.nCount)
      BY <1>1, <2>1, <2>3, IndicesDiffer
    <3>2. /\ PhysicalIndex(q, i) \in 0 .. Capacity(q) - 1
          /\ PhysicalIndex(q, q.nCount) \in 0 .. Capacity(q) - 1
      BY <1>1, <2>1, IndexInStorage
    <3>3. PhysicalIndex(q, i) + 1 # slot /\ PhysicalIndex(q, i) + 1 \in 1 .. Capacity(q)
      BY <1>1, <3>1, <3>2 DEF slot
    <3>4. r.pData[PhysicalIndex(q, i) + 1] = q.pData[PhysicalIndex(q, i) + 1]
      BY <1>3, <3>3 DEF IsRing, Capacity
    <3>5. PhysicalIndex(r, i) = PhysicalIndex(q, i)
      BY <1>6
    <3>6. i < q.nCount + 1 <=> i < q.nCount
      BY <1>1, <2>1, <2>3
    <3> QED
      BY <3>4, <3>5, <3>6 DEF Tidy
  <2> QED
    BY <2>2, <2>3
<1>8. r.nCount # 0
  BY <1>1, <1>3
<1>9. Tidy(r)
  BY <1>3, <1>5, <1>7, <1>8 DEF Tidy
<1> QED
  BY <1>9 DEF r, slot

\* Growth first or not, a push keeps the ring tidy.
LEMMA PushTidy ==
  ASSUME NEW q, IsRing(q), Tidy(q), NEW call \in Nat \ {NoCall} PROVE Tidy(RingPush(q, call))
<1> DEFINE room == IF q.nCount = Capacity(q) THEN Grown(q) ELSE q
<1>1. IsRing(room) /\ Tidy(room) /\ room.nCount < Capacity(room)
  <2>1. CASE q.nCount = Capacity(q)
    <3>1. Grown(q).nCount < Capacity(Grown(q))
      BY GrowthKeepsOrder
    <3> QED
      BY <2>1, <3>1, GrowthKeepsOrder, GrowthTidy
  <2>2. CASE q.nCount # Capacity(q)
    <3>1. q.nCount < Capacity(q)
      BY <2>2 DEF IsRing, Capacity
    <3> QED
      BY <2>2, <3>1
  <2> QED
    BY <2>1, <2>2
<1>2. RingPush(q, call) =
        [room EXCEPT !.pData[PhysicalIndex(room, room.nCount) + 1] = call, !.nCount = @ + 1]
  BY DEF RingPush
<1> HIDE DEF room
<1> QED
  BY <1>1, <1>2, StoredTidy

\* A pop empties the slot of the element it takes.
LEMMA PopTidy ==
  ASSUME NEW q, IsRing(q), Tidy(q), q.nCount > 0 PROVE Tidy(RingPop(q))
<1> DEFINE r == RingPop(q)
           size == Capacity(q)
<1>1. /\ q.nCount \in Nat /\ size \in Nat /\ q.iHead \in Nat /\ q.nCount <= size
      /\ q.iHead < size /\ q.iHead + 1 \in 1 .. size
  BY DEF IsRing, Capacity
<1>2. /\ r.pData = [q.pData EXCEPT ![q.iHead + 1] = NoCall] /\ r.nCount = q.nCount - 1
      /\ r.iHead = IF q.nCount > 1 THEN PhysicalIndex(q, 1) ELSE 0
  BY DEF RingPop, IsRing
<1>3. Len(r.pData) = size
  BY <1>1, <1>2 DEF IsRing, Capacity
<1> HIDE DEF r
<1>4. Capacity(r) = size
  BY <1>3 DEF Capacity
<1>5. r.pData[q.iHead + 1] = NoCall
      /\ \A i \in 1 .. size : i # q.iHead + 1 => r.pData[i] = q.pData[i]
  BY <1>1, <1>2 DEF IsRing, Capacity
<1>6. \A i \in 0 .. size - 1 :
        PhysicalIndex(q, i) = IF i < size - q.iHead THEN q.iHead + i ELSE i - (size - q.iHead)
  BY DEF PhysicalIndex
<1>7. \A i \in 0 .. size - 1 :
        PhysicalIndex(r, i) = IF i < size - r.iHead THEN r.iHead + i ELSE i - (size - r.iHead)
  BY <1>4 DEF PhysicalIndex
<1> HIDE DEF size
<1>8. ASSUME q.nCount > 1, NEW i \in 0 .. size - 1
      PROVE  r.pData[PhysicalIndex(r, i) + 1] # NoCall <=> i < r.nCount
  <2>0. 1 \in 0 .. size - 1 /\ r.iHead = PhysicalIndex(q, 1)
    BY <1>1, <1>2, <1>8
  <2>1. r.iHead = IF 1 < size - q.iHead THEN q.iHead + 1 ELSE 1 - (size - q.iHead)
    BY <1>6, <2>0
  <2>2. CASE i = size - 1
    <3>1. PhysicalIndex(r, i) = q.iHead
      <4>1. PhysicalIndex(r, i) = IF i < size - r.iHead THEN r.iHead + i ELSE i - (size - r.iHead)
        BY <1>7
      <4> QED
        BY <1>1, <2>1, <2>2, <4>1
    <3>2. ~(i < r.nCount)
      BY <1>1, <1>2, <2>2
    <3> QED
      BY <1>5, <3>1, <3>2
  <2>3. CASE i # size - 1
    <3>1. i + 1 \in 0 .. size - 1
      BY <1>1, <2>3
    <3>2. PhysicalIndex(r, i) = PhysicalIndex(q, i + 1)
      <4>1. PhysicalIndex(r, i) = IF i < size - r.iHead THEN r.iHead + i ELSE i - (size - r.iHead)
        BY <1>7
      <4>2. PhysicalIndex(q, i + 1) = IF i + 1 < size - q.iHead THEN q.iHead + (i + 1)
                                      ELSE (i + 1) - (size - q.iHead)
        BY <1>6, <3>1
      <4>3. CASE 1 < size - q.iHead
        BY <1>1, <2>1, <3>1, <4>1, <4>2, <4>3
      <4>4. CASE ~(1 < size - q.iHead)
        BY <1>1, <2>1, <3>1, <4>1, <4>2, <4>4
      <4> QED
        BY <4>3, <4>4
    <3>3. PhysicalIndex(q, i + 1) + 1 \in 1 .. size /\ PhysicalIndex(q, i + 1) + 1 # q.iHead + 1
      <4>1. PhysicalIndex(q, i + 1) = IF i + 1 < size - q.iHead THEN q.iHead + (i + 1)
                                      ELSE (i + 1) - (size - q.iHead)
        BY <1>6, <3>1
      <4> QED
        BY <1>1, <3>1, <4>1
    <3>4. r.pData[PhysicalIndex(r, i) + 1] = q.pData[PhysicalIndex(q, i + 1) + 1]
      BY <1>5, <3>2, <3>3
    <3>5. q.pData[PhysicalIndex(q, i + 1) + 1] # NoCall <=> i + 1 < q.nCount
      BY <3>1 DEF Tidy, size
    <3>6. i + 1 < q.nCount <=> i < r.nCount
      BY <1>1, <1>2, <3>1
    <3> QED
      BY <3>4, <3>5, <3>6
  <2> QED
    BY <2>2, <2>3
<1>9. ASSUME ~(q.nCount > 1), NEW i \in 0 .. size - 1
      PROVE  r.pData[PhysicalIndex(r, i) + 1] # NoCall <=> i < r.nCount
  <2>1. q.nCount = 1 /\ r.nCount = 0 /\ r.iHead = 0
    BY <1>1, <1>2, <1>9
  <2>2. PhysicalIndex(r, i) = i
    BY <1>1, <1>7, <2>1
  <2>3. CASE i = q.iHead
    BY <1>1, <1>5, <2>1, <2>2, <2>3
  <2>4. CASE i # q.iHead
    <3> DEFINE k == IF i > q.iHead THEN i - q.iHead ELSE i + (size - q.iHead)
    <3>1. k \in 0 .. size - 1 /\ k > 0
      BY <1>1, <2>4
    <3>2. PhysicalIndex(q, k) = i
      <4>1. PhysicalIndex(q, k) = IF k < size - q.iHead THEN q.iHead + k ELSE k - (size - q.iHead)
        BY <1>6, <3>1
      <4> QED
        BY <1>1, <2>4, <4>1
    <3> HIDE DEF k
    <3>3. q.pData[i + 1] = NoCall
      <4>1. q.pData[PhysicalIndex(q, k) + 1] # NoCall <=> k < q.nCount
        BY <3>1 DEF Tidy, size
      <4> QED
        BY <2>1, <3>1, <3>2, <4>1
    <3>4. r.pData[i + 1] = q.pData[i + 1]
      BY <1>1, <1>5, <2>4
    <3> QED
      BY <2>1, <2>2, <3>3, <3>4
  <2> QED
    BY <2>3, <2>4
<1>10. r.nCount = 0 => r.iHead = 0
  BY <1>1, <1>2
<1>11. Tidy(r)
  BY <1>4, <1>8, <1>9, <1>10 DEF Tidy
<1> QED
  BY <1>11 DEF r

\* Fresh storage is tidy.
LEMMA EmptyRingTidy ==
  ASSUME NEW capacity \in Nat PROVE Tidy(EmptyRing(capacity))
<1> DEFINE r == EmptyRing(capacity)
<1>1. /\ r.pData = [i \in 1 .. capacity |-> NoCall] /\ r.nCount = 0 /\ r.iHead = 0
  BY DEF EmptyRing
<1>2. Capacity(r) = capacity
  BY <1>1 DEF Capacity
<1> HIDE DEF r
<1>3. \A i \in 0 .. capacity - 1 : PhysicalIndex(r, i) = i
  BY <1>1, <1>2 DEF PhysicalIndex
<1>4. \A i \in 0 .. capacity - 1 : r.pData[i + 1] = NoCall /\ ~(i < r.nCount)
  BY <1>1
<1> QED
  BY <1>1, <1>2, <1>3, <1>4 DEF Tidy, r

-----------------------------------------------------------------------------
(* Cancellation. *)

\* One place more, behind the others, comes last.
LEMMA PickedMore ==
  ASSUME NEW list \in Seq(Nat), NEW n \in 1 .. Len(list), NEW places, places \subseteq 1 .. n - 1
  PROVE  Picked(list, places \cup {n}) = Append(Picked(list, places), list[n])
<1> DEFINE more == places \cup {n}
           size == Cardinality(places)
<1>1. IsFiniteSet(places) /\ size \in Nat /\ places \subseteq Nat /\ n \notin places
  <2>1. IsFiniteSet(1 .. n - 1)
    BY FS_Interval
  <2>2. IsFiniteSet(places) /\ size \in Nat
    BY <2>1, FS_Subset, FS_CardinalityType
  <2> QED
    BY <2>2
<1>2. IsFiniteSet(more) /\ Cardinality(more) = size + 1 /\ more \subseteq Nat
  BY <1>1, FS_AddElement
<1>3. \A i \in places : Rank(more, i) = Rank(places, i)
  <2> SUFFICES ASSUME NEW i \in places PROVE Rank(more, i) = Rank(places, i)
    OBVIOUS
  <2>1. ~(n <= i)
    OBVIOUS
  <2>2. {j \in more : j <= i} = {j \in places : j <= i}
    BY <2>1
  <2> QED
    BY <2>2 DEF Rank
<1>4. Rank(more, n) = size + 1
  <2>1. \A j \in more : j <= n
    OBVIOUS
  <2>2. {j \in more : j <= n} = more
    BY <2>1
  <2> QED
    BY <1>2, <2>2 DEF Rank
<1> HIDE DEF more, size
<1>0. /\ \A m \in 1 .. size + 1 : \E i \in more : Rank(more, i) = m
      /\ \A i, j \in more : Rank(more, i) = Rank(more, j) => i = j
  <2>1. /\ \A m \in 1 .. Cardinality(more) : \E i \in more : Rank(more, i) = m
        /\ \A i, j \in more : Rank(more, i) = Rank(more, j) => i = j
    BY <1>2, RanksCount
  <2> QED
    BY <1>2, <2>1
<1>5. Ascending(more) = [m \in 1 .. size + 1 |-> Ascending(more)[m]]
  BY <1>2 DEF Ascending
<1>6. \A m \in 1 .. size + 1 :
        Ascending(more)[m] = CHOOSE i \in more : Rank(more, i) = m
  BY <1>2 DEF Ascending
<1>7. \A m \in 1 .. size : Ascending(places)[m] = CHOOSE i \in places : Rank(places, i) = m
  BY DEF Ascending, size
<1>8. ASSUME NEW m \in 1 .. size PROVE Ascending(more)[m] = Ascending(places)[m]
  <2>1. m \in 1 .. size + 1
    BY <1>1
  <2>2. Ascending(places)[m] \in places /\ Rank(places, Ascending(places)[m]) = m
    <3>1. \E i \in places : Rank(places, i) = m
      BY <1>1, RanksCount DEF size
    <3> QED
      BY <1>7, <3>1
  <2>3. Ascending(more)[m] \in more /\ Rank(more, Ascending(more)[m]) = m
    <3>1. \E i \in more : Rank(more, i) = m
      BY <1>0, <2>1
    <3> QED
      BY <1>6, <2>1, <3>1
  <2>4. Ascending(places)[m] \in more /\ Rank(more, Ascending(places)[m]) = m
    BY <1>3, <2>2 DEF more
  <2> QED
    <3>1. Rank(more, Ascending(more)[m]) = Rank(more, Ascending(places)[m])
      BY <2>3, <2>4
    <3> QED
      BY <1>0, <2>3, <2>4, <3>1
<1>9. Ascending(more)[size + 1] = n
  <2>1. size + 1 \in 1 .. size + 1 /\ n \in more
    BY <1>1 DEF more
  <2>2. Ascending(more)[size + 1] \in more /\ Rank(more, Ascending(more)[size + 1]) = size + 1
    BY <1>4, <1>6, <2>1
  <2> QED
    BY <1>0, <1>4, <2>1, <2>2, Zenon
<1>10. ASSUME NEW m \in 1 .. size PROVE list[Ascending(places)[m]] \in Nat
  <2>1. Ascending(places)[m] \in places
    <3>1. \E i \in places : Rank(places, i) = m
      BY <1>1, RanksCount DEF size
    <3> QED
      BY <1>7, <3>1
  <2>2. \A i \in places : list[i] \in Nat
    OBVIOUS
  <2> QED
    BY <2>1, <2>2, Zenon
<1> DEFINE picked == Picked(list, places)
           longer == Picked(list, more)
<1>11. picked = [m \in 1 .. size |-> list[Ascending(places)[m]]]
       /\ longer = [m \in 1 .. size + 1 |-> list[Ascending(more)[m]]]
  BY <1>2 DEF Picked, size
<1> HIDE DEF picked, longer
<1>12. picked \in Seq(Nat) /\ Len(picked) = size
       /\ \A m \in 1 .. size : picked[m] = list[Ascending(places)[m]]
  BY <1>1, <1>10, <1>11
<1>13. \A m \in 1 .. size + 1 : longer[m] = IF m <= size THEN picked[m] ELSE list[n]
  BY <1>1, <1>8, <1>9, <1>11, <1>12
<1>14. Append(picked, list[n]) = [m \in 1 .. size + 1 |-> IF m <= size THEN picked[m] ELSE list[n]]
  BY <1>1, <1>12
<1>15. longer = Append(picked, list[n])
  BY <1>11, <1>13, <1>14
<1> QED
  BY <1>15 DEF picked, longer, more

\* Picked takes elements of the list.
LEMMA PickedFrom ==
  ASSUME NEW T, NEW list \in Seq(T), NEW places, places \subseteq 1 .. Len(list)
  PROVE  Picked(list, places) \in Seq(T)
<1>1. IsFiniteSet(places) /\ Cardinality(places) \in Nat /\ places \subseteq Nat
  <2>1. IsFiniteSet(1 .. Len(list))
    BY FS_Interval
  <2>2. IsFiniteSet(places) /\ Cardinality(places) \in Nat
    BY <2>1, FS_Subset, FS_CardinalityType
  <2> QED
    BY <2>2
<1>2. Ascending(places) \in Seq(places) /\ Len(Ascending(places)) = Cardinality(places)
  BY <1>1, AscendingLists
<1>3. \A n \in 1 .. Cardinality(places) : Ascending(places)[n] \in places
  BY <1>2
<1>4. \A n \in 1 .. Cardinality(places) : list[Ascending(places)[n]] \in T
  <2>1. \A i \in places : list[i] \in T
    OBVIOUS
  <2> QED
    BY <1>3, <2>1, Zenon
<1> QED
  BY <1>1, <1>4 DEF Picked

\* The loop of a cancellation, turn by turn.
Turning(q, tag, last, turn) ==
  turn = [n \in 0 .. last |-> IF n = 0 THEN q ELSE FirstTurned(turn[n - 1], tag)]

\* A loop that has been through some turns can be through one more, so that there is one
\* through all.
LEMMA TurnsExist ==
  ASSUME NEW q, NEW tag, NEW last \in Nat PROVE \E turn : Turning(q, tag, last, turn)
<1> DEFINE stuck == {n \in Nat : ~\E turn : Turning(q, tag, n, turn)}
<1>1. ASSUME stuck # {} PROVE FALSE
  <2>1. PICK n \in stuck : \A m \in stuck : n <= m
    BY <1>1, LeastNumber
  <2>2. CASE n = 0
    <3> DEFINE turn == [k \in 0 .. 0 |-> q]
    <3>1. turn = [k \in 0 .. 0 |-> IF k = 0 THEN q ELSE FirstTurned(turn[k - 1], tag)]
      OBVIOUS
    <3> HIDE DEF turn
    <3>2. Turning(q, tag, 0, turn)
      BY <3>1 DEF Turning
    <3> QED
      BY <2>2, <3>2
  <2>3. CASE n # 0
    <3>1. n - 1 \in Nat /\ n - 1 \notin stuck
      BY <2>1, <2>3
    <3>2. PICK turn : Turning(q, tag, n - 1, turn)
      BY <3>1
    <3>3. turn = [k \in 0 .. n - 1 |-> IF k = 0 THEN q ELSE FirstTurned(turn[k - 1], tag)]
      BY <3>2 DEF Turning
    <3> DEFINE longer == [k \in 0 .. n |-> IF k = n THEN FirstTurned(turn[n - 1], tag) ELSE turn[k]]
    <3>4. ASSUME NEW k \in 0 .. n
          PROVE  longer[k] = IF k = 0 THEN q ELSE FirstTurned(longer[k - 1], tag)
      <4>1. k # 0 => k - 1 \in 0 .. n - 1 /\ longer[k - 1] = turn[k - 1]
        BY <2>1
      <4>2. CASE k = n
        BY <2>3, <4>1, <4>2
      <4>3. CASE k # n
        <5>1. k \in 0 .. n - 1 /\ longer[k] = turn[k]
          BY <2>1, <4>3
        <5>2. turn[k] = IF k = 0 THEN q ELSE FirstTurned(turn[k - 1], tag)
          BY <3>3, <5>1
        <5> QED
          BY <4>1, <5>1, <5>2
      <4> QED
        BY <4>2, <4>3
    <3>5. longer = [k \in 0 .. n |-> IF k = 0 THEN q ELSE FirstTurned(longer[k - 1], tag)]
      BY <3>4
    <3> HIDE DEF longer
    <3>6. Turning(q, tag, n, longer)
      BY <3>5 DEF Turning
    <3> QED
      BY <2>1, <3>6
  <2> QED
    BY <2>2, <2>3
<1> QED
  BY <1>1

\* Turned is where such a loop ends.
LEMMA TurnedEnds ==
  ASSUME NEW q, NEW tag, q.nCount \in Nat
  PROVE  \E turn : Turning(q, tag, q.nCount, turn) /\ Turned(q, tag) = turn[q.nCount]
<1> DEFINE Loop(f) == [n \in 0 .. q.nCount |-> IF n = 0 THEN q ELSE FirstTurned(f[n - 1], tag)]
           turn == CHOOSE f : f = Loop(f)
<1>1. Turned(q, tag) = turn[q.nCount]
  BY Zenon DEF Turned
<1>2. \E f : f = Loop(f)
  <2>1. PICK f : Turning(q, tag, q.nCount, f)
    BY TurnsExist
  <2>2. f = Loop(f)
    BY <2>1 DEF Turning
  <2> QED
    BY <2>2, Zenon
<1>3. turn = Loop(turn)
  BY <1>2, Zenon
<1> HIDE DEF turn
<1>4. Turning(q, tag, q.nCount, turn)
  BY <1>3 DEF Turning
<1> QED
  BY <1>1, <1>4

\* The first n calls of a list that do not have the tag.
OthersUpTo(list, tag, n) == {k \in 1 .. n : pushed[list[k]] # tag}

\* One turn takes the first call away or moves it to the end.
LEMMA FirstTurnedIs ==
  ASSUME NEW q, NEW tag, IsRing(q), Tidy(q), q.nCount > 0
  PROVE  /\ IsRing(FirstTurned(q, tag)) /\ Tidy(FirstTurned(q, tag))
         /\ pushed[Head(Queued(q))] = tag => Queued(FirstTurned(q, tag)) = Tail(Queued(q))
         /\ pushed[Head(Queued(q))] # tag =>
              Queued(FirstTurned(q, tag)) = Append(Tail(Queued(q)), Head(Queued(q)))
<1>1. /\ IsRing(RingPop(q)) /\ Tidy(RingPop(q)) /\ FirstCall(q) = Head(Queued(q))
      /\ Queued(RingPop(q)) = Tail(Queued(q))
  BY PopDropsFirst, PopTidy
<1>2. FirstCall(q) \in Nat \ {NoCall}
  <2>1. q.iHead \in Nat /\ Capacity(q) \in Nat /\ 0 \in 0 .. Capacity(q) - 1 /\ 0 < q.nCount
        /\ q.nCount \in Nat /\ q.iHead + 1 \in 1 .. Capacity(q)
    BY DEF IsRing, Capacity
  <2>2. PhysicalIndex(q, 0) = q.iHead
    BY <2>1 DEF PhysicalIndex, IsRing
  <2>3. q.pData[PhysicalIndex(q, 0) + 1] # NoCall
    BY <2>1 DEF Tidy
  <2>4. q.pData[q.iHead + 1] \in Nat
    BY <2>1 DEF IsRing, Capacity
  <2> QED
    BY <2>2, <2>3, <2>4 DEF FirstCall
<1>3. /\ IsRing(RingPush(RingPop(q), FirstCall(q))) /\ Tidy(RingPush(RingPop(q), FirstCall(q)))
      /\ Queued(RingPush(RingPop(q), FirstCall(q))) = Append(Queued(RingPop(q)), FirstCall(q))
  BY <1>1, <1>2, PushAppends, PushTidy
<1>4. CASE pushed[FirstCall(q)] = tag
  BY <1>1, <1>4 DEF FirstTurned
<1>5. CASE pushed[FirstCall(q)] # tag
  BY <1>1, <1>3, <1>5 DEF FirstTurned
<1> QED
  BY <1>4, <1>5

\* Two lists with the same elements at the same places are the same.
LEMMA SameList ==
  ASSUME NEW s \in Seq(Nat), NEW t \in Seq(Nat), Len(s) = Len(t),
         \A i \in 1 .. Len(s) : s[i] = t[i]
  PROVE  s = t
<1>1. s = [i \in 1 .. Len(s) |-> s[i]] /\ t = [i \in 1 .. Len(t) |-> t[i]]
  OBVIOUS
<1> QED
  BY <1>1

\* What is where in a concatenation.
LEMMA ConcatenationIs ==
  ASSUME NEW s \in Seq(Nat), NEW t \in Seq(Nat)
  PROVE  /\ s \o t \in Seq(Nat) /\ Len(s \o t) = Len(s) + Len(t)
         /\ \A i \in 1 .. Len(s) : (s \o t)[i] = s[i]
         /\ \A i \in 1 .. Len(t) : (s \o t)[Len(s) + i] = t[i]
<1>1. s \o t \in Seq(Nat) /\ Len(s \o t) = Len(s) + Len(t)
  OBVIOUS
<1>2. \A i \in 1 .. Len(s) : (s \o t)[i] = s[i]
  OBVIOUS
<1>3. \A i \in 1 .. Len(t) : (s \o t)[Len(s) + i] = t[i]
  OBVIOUS
<1> QED
  BY <1>1, <1>2, <1>3

\* What a sequence is after its first element is gone.
LEMMA RestOfList ==
  ASSUME NEW list \in Seq(Nat), NEW n \in 1 .. Len(list), NEW more \in Seq(Nat)
  PROVE  /\ Len(SubSeq(list, n, Len(list)) \o more) > 0
         /\ Head(SubSeq(list, n, Len(list)) \o more) = list[n]
         /\ Tail(SubSeq(list, n, Len(list)) \o more) = SubSeq(list, n + 1, Len(list)) \o more
<1> DEFINE a == SubSeq(list, n, Len(list))
           b == SubSeq(list, n + 1, Len(list))
           before == a \o more
           after == b \o more
           size == Len(list) - n + 1
<1>1. a \in Seq(Nat) /\ Len(a) = size /\ \A i \in 1 .. size : a[i] = list[n + i - 1]
  <2>1. a \in Seq(Nat) /\ Len(a) = size
    OBVIOUS
  <2>2. \A i \in 1 .. size : a[i] = list[n + i - 1]
    OBVIOUS
  <2> QED
    BY <2>1, <2>2
<1>2. b \in Seq(Nat) /\ Len(b) = size - 1 /\ \A i \in 1 .. size - 1 : b[i] = list[n + i]
  <2>1. b \in Seq(Nat) /\ Len(b) = size - 1
    OBVIOUS
  <2>2. \A i \in 1 .. size - 1 : b[i] = list[n + i]
    OBVIOUS
  <2> QED
    BY <2>1, <2>2
<1>3. size \in Nat \ {0} /\ Len(more) \in Nat
  OBVIOUS
<1> HIDE DEF a, b, size
<1>4. /\ before \in Seq(Nat) /\ Len(before) = size + Len(more)
      /\ \A i \in 1 .. size : before[i] = a[i]
      /\ \A i \in 1 .. Len(more) : before[size + i] = more[i]
  BY <1>1, ConcatenationIs
<1>5. /\ after \in Seq(Nat) /\ Len(after) = size - 1 + Len(more)
      /\ \A i \in 1 .. size - 1 : after[i] = b[i]
      /\ \A i \in 1 .. Len(more) : after[size - 1 + i] = more[i]
  <2>1. /\ after \in Seq(Nat) /\ Len(after) = Len(b) + Len(more)
        /\ \A i \in 1 .. Len(b) : after[i] = b[i]
        /\ \A i \in 1 .. Len(more) : after[Len(b) + i] = more[i]
    BY <1>2, ConcatenationIs
  <2>2. Len(b) = size - 1
    BY <1>2
  <2> QED
    BY <2>1, <2>2
<1> HIDE DEF before, after
<1>6. Len(before) > 0 /\ Head(before) = list[n]
  <2>1. 1 \in 1 .. size /\ n + 1 - 1 = n
    BY <1>3
  <2>2. before[1] = list[n]
    BY <1>1, <1>4, <2>1
  <2> QED
    BY <1>3, <1>4, <2>2
<1>7. /\ Tail(before) \in Seq(Nat) /\ Len(Tail(before)) = size - 1 + Len(more)
      /\ \A i \in 1 .. size - 1 + Len(more) : Tail(before)[i] = before[i + 1]
  <2>1. before \in Seq(Nat) /\ Len(before) = size + Len(more) /\ Len(before) > 0
    BY <1>3, <1>4
  <2>2. /\ Tail(before) \in Seq(Nat) /\ Len(Tail(before)) = Len(before) - 1
        /\ \A i \in 1 .. Len(before) - 1 : Tail(before)[i] = before[i + 1]
    BY <2>1
  <2>3. Len(before) - 1 = size - 1 + Len(more)
    BY <1>3, <2>1
  <2> QED
    BY <2>2, <2>3
<1>8. ASSUME NEW i \in 1 .. size - 1 + Len(more) PROVE Tail(before)[i] = after[i]
  <2>1. CASE i \in 1 .. size - 1
    <3>1. i + 1 \in 1 .. size /\ n + (i + 1) - 1 = n + i
      BY <1>3, <2>1
    <3>2. before[i + 1] = list[n + i]
      BY <1>1, <1>4, <3>1
    <3> QED
      BY <1>2, <1>5, <1>7, <2>1, <3>2
  <2>2. CASE i > size - 1
    <3> DEFINE k == i - (size - 1)
    <3>1. k \in 1 .. Len(more) /\ i + 1 = size + k /\ i = size - 1 + k
      BY <1>3, <2>2
    <3> HIDE DEF k
    <3> QED
      BY <1>4, <1>5, <1>7, <3>1
  <2>3. size \in Int /\ Len(more) \in Int
    BY <1>3
  <2>4. i \in Int /\ 1 <= i
    BY <2>3
  <2>5. i \in 1 .. size - 1 \/ i > size - 1
    BY <2>3, <2>4
  <2> QED
    BY <2>1, <2>2, <2>5, Zenon
<1>9. Tail(before) = after
  BY <1>5, <1>7, <1>8, SameList
<1> QED
  BY <1>6, <1>9 DEF before, after, a, b

\* Appending to a concatenation appends to its second part.
LEMMA AppendedBehind ==
  ASSUME NEW s \in Seq(Nat), NEW t \in Seq(Nat), NEW e \in Nat
  PROVE  Append(s \o t, e) = s \o Append(t, e)
<1>1. /\ Append(s \o t, e) \in Seq(Nat) /\ s \o Append(t, e) \in Seq(Nat)
      /\ Len(Append(s \o t, e)) = Len(s) + Len(t) + 1
      /\ Len(s \o Append(t, e)) = Len(s) + Len(t) + 1
  OBVIOUS
<1>2. \A i \in 1 .. Len(s) + Len(t) + 1 : Append(s \o t, e)[i] = (s \o Append(t, e))[i]
  OBVIOUS
<1> QED
  BY <1>1, <1>2, SameList

\* After n turns the calls from there on come first, and then those kept so far.
LEMMA TurnsAre ==
  ASSUME NEW q, NEW tag, IsRing(q), Tidy(q), NEW turn, Turning(q, tag, q.nCount, turn)
  PROVE  \A n \in 0 .. q.nCount :
           /\ IsRing(turn[n]) /\ Tidy(turn[n])
           /\ Queued(turn[n]) = SubSeq(Queued(q), n + 1, Len(Queued(q)))
                                  \o Picked(Queued(q), OthersUpTo(Queued(q), tag, n))
<1> DEFINE list == Queued(q)
           size == q.nCount
           Kept(n) == Picked(list, OthersUpTo(list, tag, n))
           Fits(n) == /\ IsRing(turn[n]) /\ Tidy(turn[n])
                      /\ Queued(turn[n]) = SubSeq(list, n + 1, Len(list)) \o Kept(n)
           wrong == {n \in 0 .. size : ~Fits(n)}
<1>0. size \in Nat /\ list \in Seq(Nat) /\ Len(list) = size
  BY QueuedCalls DEF IsRing
<1>1. ASSUME NEW n \in 0 .. size PROVE turn[n] = IF n = 0 THEN q ELSE FirstTurned(turn[n - 1], tag)
  BY DEF Turning
<1>2. ASSUME NEW n \in 0 .. size PROVE Kept(n) \in Seq(Nat)
  <2>1. OthersUpTo(list, tag, n) \subseteq 1 .. Len(list)
    BY <1>0 DEF OthersUpTo
  <2> HIDE DEF list
  <2> QED
    BY <1>0, <2>1, PickedFrom
<1>3. Fits(0)
  <2>1. turn[0] = q
    BY <1>0, <1>1
  <2>2. OthersUpTo(list, tag, 0) = {}
    BY DEF OthersUpTo
  <2>3. Kept(0) = << >>
    <3>1. Cardinality({}) = 0
      BY FS_EmptySet
    <3>2. Picked(list, {}) = << >>
      BY <3>1 DEF Picked
    <3> QED
      BY <2>2, <3>2
  <2>4. SubSeq(list, 1, Len(list)) \o << >> = list
    <3> HIDE DEF list
    <3>1. SubSeq(list, 1, Len(list)) = list
      BY <1>0
    <3> QED
      BY <1>0, <3>1
  <2>5. 0 + 1 = 1
    OBVIOUS
  <2>6. Queued(turn[0]) = list
    BY <2>1
  <2> HIDE DEF Kept, list
  <2> QED
    BY <2>1, <2>3, <2>4, <2>5, <2>6
<1>4. ASSUME NEW n \in 1 .. size, Fits(n - 1) PROVE Fits(n)
  <2>1. n - 1 \in 0 .. size /\ n \in 0 .. size /\ (n - 1) + 1 = n /\ n # 0
    BY <1>0
  <2> DEFINE r == turn[n - 1]
  <2>2. turn[n] = FirstTurned(r, tag)
    BY <1>1, <2>1
  <2>3. Queued(r) = SubSeq(list, n, Len(list)) \o Kept(n - 1)
    BY <1>4, <2>1
  <2> HIDE DEF list, Kept
  <2>4. /\ Len(Queued(r)) > 0 /\ Head(Queued(r)) = list[n]
        /\ Tail(Queued(r)) = SubSeq(list, n + 1, Len(list)) \o Kept(n - 1)
    <3>1. Kept(n - 1) \in Seq(Nat) /\ list \in Seq(Nat) /\ n \in 1 .. Len(list)
      BY <1>0, <1>2, <2>1
    <3> QED
      BY <2>3, <3>1, RestOfList
  <2>5. IsRing(r) /\ Tidy(r)
    BY <1>4
  <2>6. r.nCount > 0
    BY <2>4, <2>5, QueuedCalls
  <2>7. /\ IsRing(turn[n]) /\ Tidy(turn[n])
        /\ pushed[list[n]] = tag => Queued(turn[n]) = Tail(Queued(r))
        /\ pushed[list[n]] # tag => Queued(turn[n]) = Append(Tail(Queued(r)), list[n])
    BY <2>2, <2>4, <2>5, <2>6, FirstTurnedIs
  <2>8. CASE pushed[list[n]] = tag
    <3>1. OthersUpTo(list, tag, n) = OthersUpTo(list, tag, n - 1)
      BY <1>0, <2>8 DEF OthersUpTo
    <3>2. Kept(n) = Kept(n - 1)
      BY <3>1 DEF Kept
    <3> QED
      BY <2>4, <2>7, <2>8, <3>2
  <2>9. CASE pushed[list[n]] # tag
    <3>1. OthersUpTo(list, tag, n) = OthersUpTo(list, tag, n - 1) \cup {n}
          /\ OthersUpTo(list, tag, n - 1) \subseteq 1 .. n - 1
      BY <1>0, <2>9 DEF OthersUpTo
    <3>2. Kept(n) = Append(Kept(n - 1), list[n])
      BY <1>0, <3>1, PickedMore DEF Kept
    <3>4. SubSeq(list, n + 1, Len(list)) \in Seq(Nat) /\ list[n] \in Nat
      BY <1>0
    <3> QED
      BY <1>2, <2>1, <2>4, <2>7, <2>9, <3>2, <3>4, AppendedBehind
  <2> QED
    BY <2>8, <2>9
<1>5. ASSUME wrong # {} PROVE FALSE
  <2>1. wrong \subseteq Nat
    BY <1>0
  <2>2. PICK m \in wrong : \A n \in wrong : m <= n
    BY <1>5, <2>1, LeastNumber
  <2>3. m \in 0 .. size /\ ~Fits(m)
    BY <2>2
  <2> HIDE DEF Fits
  <2>4. m # 0
    BY <1>3, <2>3
  <2>5. m \in 1 .. size /\ m - 1 \in 0 .. size /\ ~(m <= m - 1)
    BY <1>0, <2>3, <2>4
  <2>6. Fits(m - 1)
    BY <2>2, <2>5
  <2> QED
    BY <1>4, <2>3, <2>5, <2>6
<1> QED
  BY <1>5

\* Cancelling a group leaves the other calls, in their order.
LEMMA CancelKeepsOthers ==
  ASSUME NEW q, NEW tag, IsRing(q), Tidy(q)
  PROVE  /\ IsRing(Turned(q, tag)) /\ Tidy(Turned(q, tag))
         /\ Queued(Turned(q, tag)) = Picked(Queued(q), OthersUpTo(Queued(q), tag, q.nCount))
<1>0. q.nCount \in Nat /\ Queued(q) \in Seq(Nat) /\ Len(Queued(q)) = q.nCount
  BY QueuedCalls DEF IsRing
<1>1. PICK turn : Turning(q, tag, q.nCount, turn) /\ Turned(q, tag) = turn[q.nCount]
  BY <1>0, TurnedEnds
<1>2. q.nCount \in 0 .. q.nCount
  BY <1>0
<1>3. /\ IsRing(Turned(q, tag)) /\ Tidy(Turned(q, tag))
      /\ Queued(Turned(q, tag)) = SubSeq(Queued(q), q.nCount + 1, q.nCount)
                                    \o Picked(Queued(q), OthersUpTo(Queued(q), tag, q.nCount))
  <2>1. \A n \in 0 .. q.nCount :
           /\ IsRing(turn[n]) /\ Tidy(turn[n])
           /\ Queued(turn[n]) = SubSeq(Queued(q), n + 1, Len(Queued(q)))
                                  \o Picked(Queued(q), OthersUpTo(Queued(q), tag, n))
    BY <1>1, TurnsAre
  <2> QED
    BY <1>0, <1>1, <1>2, <2>1
<1>4. SubSeq(Queued(q), q.nCount + 1, q.nCount) = << >>
  BY <1>0
<1>5. Picked(Queued(q), OthersUpTo(Queued(q), tag, q.nCount)) \in Seq(Nat)
  <2>1. OthersUpTo(Queued(q), tag, q.nCount) \subseteq 1 .. Len(Queued(q))
    BY <1>0 DEF OthersUpTo
  <2> QED
    BY <1>0, <2>1, PickedFrom
<1>6. \A s \in Seq(Nat) : << >> \o s = s
  OBVIOUS
<1> QED
  BY <1>3, <1>4, <1>5, <1>6

-----------------------------------------------------------------------------
(* The invariant of the queue. *)

\* What the histories say of each other, and the counters of the drain in progress.
QueueCounted ==
  /\ pushed \in Seq(Tags) /\ Len(pushed) <= PushesMax
  /\ kept \in Seq(Nat) /\ ran \in 0 .. Len(kept)
  /\ nToRun \in 0 .. PushesMax /\ inCall \in 0 .. PushesMax /\ drainEnd \in Nat
  /\ created \in BOOLEAN /\ bDraining \in BOOLEAN
  /\ \A i \in 1 .. Len(kept) : kept[i] \in 1 .. Len(pushed)

\* The calls that a drain has run and those it may still run were pushed before it.
Draining ==
  /\ bDraining => created /\ ran + nToRun <= Len(kept)
  /\ bDraining => \A i \in 1 .. ran + nToRun : kept[i] <= drainEnd
  /\ inCall # NoCall => bDraining /\ inCall <= drainEnd

\* The inductive invariant.
Ringing == /\ IsRing(entries) /\ Tidy(entries)
           /\ CallsKeepTheirOrder /\ QueueCounted /\ Draining

\* Fresh or cleared storage shows nothing.
LEMMA EmptyRingIsEmpty ==
  ASSUME NEW capacity \in Nat
  PROVE  IsRing(EmptyRing(capacity)) /\ Queued(EmptyRing(capacity)) = << >>
<1>1. IsRing(EmptyRing(capacity)) /\ EmptyRing(capacity).nCount = 0
  BY DEF IsRing, EmptyRing, Capacity, NoCall
<1>2. Queued(EmptyRing(capacity)) \in Seq(Nat) /\ Len(Queued(EmptyRing(capacity))) = 0
  BY <1>1, QueuedCalls
<1>3. QED
  BY <1>1, <1>2

\* What is left of a sequence after n elements, when an element is appended to it,
\* when it is cut there, and when its next element goes.
LEMMA RestOfKept ==
  ASSUME NEW s \in Seq(Nat), NEW n \in 0 .. Len(s), NEW call \in Nat
  PROVE  /\ SubSeq(Append(s, call), n + 1, Len(s) + 1) = Append(SubSeq(s, n + 1, Len(s)), call)
         /\ SubSeq(SubSeq(s, 1, n), n + 1, Len(SubSeq(s, 1, n))) = << >>
         /\ Len(SubSeq(s, n + 1, Len(s))) = Len(s) - n
         /\ n < Len(s) => /\ Head(SubSeq(s, n + 1, Len(s))) = s[n + 1]
                          /\ Tail(SubSeq(s, n + 1, Len(s))) = SubSeq(s, n + 2, Len(s))
<1>1. SubSeq(Append(s, call), n + 1, Len(s) + 1) = Append(SubSeq(s, n + 1, Len(s)), call)
  <2> DEFINE longer == Append(s, call)
             rest == SubSeq(s, n + 1, Len(s))
  <2>1. /\ longer \in Seq(Nat) /\ Len(longer) = Len(s) + 1 /\ longer[Len(s) + 1] = call
        /\ \A i \in 1 .. Len(s) : longer[i] = s[i]
    OBVIOUS
  <2>2. /\ rest \in Seq(Nat) /\ Len(rest) = Len(s) - n
        /\ \A i \in 1 .. Len(s) - n : rest[i] = s[n + i]
    <3>1. rest \in Seq(Nat) /\ Len(rest) = Len(s) - n
      OBVIOUS
    <3>2. \A i \in 1 .. Len(s) - n : rest[i] = s[n + i]
      OBVIOUS
    <3>3. QED
      BY <3>1, <3>2
  <2> HIDE DEF longer, rest
  <2>3. /\ SubSeq(longer, n + 1, Len(s) + 1) \in Seq(Nat)
        /\ Len(SubSeq(longer, n + 1, Len(s) + 1)) = Len(s) + 1 - n
        /\ \A i \in 1 .. Len(s) + 1 - n :
             SubSeq(longer, n + 1, Len(s) + 1)[i] = longer[n + i]
    BY <2>1
  <2>4. /\ Append(rest, call) \in Seq(Nat) /\ Len(Append(rest, call)) = Len(s) + 1 - n
        /\ Append(rest, call)[Len(s) + 1 - n] = call
        /\ \A i \in 1 .. Len(s) - n : Append(rest, call)[i] = rest[i]
    BY <2>2
  <2>5. ASSUME NEW i \in 1 .. Len(s) + 1 - n
        PROVE  SubSeq(longer, n + 1, Len(s) + 1)[i] = Append(rest, call)[i]
    <3>1. CASE i = Len(s) + 1 - n
      BY <2>1, <2>3, <2>4, <3>1
    <3>2. CASE i # Len(s) + 1 - n
      <4>1. i \in 1 .. Len(s) - n /\ n + i \in 1 .. Len(s)
        BY <3>2
      <4>2. QED
        BY <2>1, <2>2, <2>3, <2>4, <4>1
    <3>3. QED
      BY <3>1, <3>2
  <2>6. \A t, u \in Seq(Nat) :
           Len(t) = Len(u) /\ (\A i \in 1 .. Len(t) : t[i] = u[i]) => t = u
    <3>1. \A t \in Seq(Nat) : t = [i \in 1 .. Len(t) |-> t[i]]
      OBVIOUS
    <3>2. QED
      BY <3>1
  <2>7. SubSeq(longer, n + 1, Len(s) + 1) = Append(rest, call)
    BY <2>3, <2>4, <2>5, <2>6
  <2>8. QED
    BY <2>7 DEF longer, rest
<1>2. SubSeq(SubSeq(s, 1, n), n + 1, Len(SubSeq(s, 1, n))) = << >>
  <2>1. SubSeq(s, 1, n) \in Seq(Nat) /\ Len(SubSeq(s, 1, n)) = n
    OBVIOUS
  <2>2. \A t \in Seq(Nat) : SubSeq(t, n + 1, n) \in Seq(Nat) /\ Len(SubSeq(t, n + 1, n)) = 0
    OBVIOUS
  <2>3. \A t \in Seq(Nat) : Len(t) = 0 => t = << >>
    OBVIOUS
  <2>4. QED
    BY <2>1, <2>2, <2>3
<1>3. Len(SubSeq(s, n + 1, Len(s))) = Len(s) - n
  OBVIOUS
<1>4. ASSUME n < Len(s) PROVE Head(SubSeq(s, n + 1, Len(s))) = s[n + 1]
  BY <1>4
<1>5. ASSUME n < Len(s) PROVE Tail(SubSeq(s, n + 1, Len(s))) = SubSeq(s, n + 2, Len(s))
  BY <1>5
<1>6. QED
  BY <1>1, <1>2, <1>3, <1>4, <1>5

\* The count of the ring is the number of calls that still wait.
LEMMA CountIsRest ==
  ASSUME Ringing PROVE entries.nCount = Len(kept) - ran /\ entries.nCount \in Nat
<1>1. Len(Queued(entries)) = entries.nCount
  BY QueuedCalls DEF Ringing
<1>2. Len(SubSeq(kept, ran + 1, Len(kept))) = Len(kept) - ran
  BY RestOfKept DEF Ringing, QueueCounted
<1>3. QED
  BY <1>1, <1>2 DEF Ringing, CallsKeepTheirOrder, IsRing

\* There is no queue yet.
LEMMA RingingStarts == QInit => Ringing
<1> SUFFICES ASSUME QInit PROVE Ringing
  OBVIOUS
<1>1. IsRing(entries) /\ Tidy(entries) /\ Queued(entries) = << >>
  BY EmptyRingIsEmpty, EmptyRingTidy DEF QInit
<1>2. pushed = << >> /\ kept = << >> /\ ran = 0 /\ bDraining = FALSE /\ inCall = 0
      /\ nToRun = 0 /\ drainEnd = 0
  BY DEF QInit, NoCall
<1>3. QueueCounted
  <2>1. pushed \in Seq(Tags) /\ kept \in Seq(Nat) /\ Len(kept) = 0
        /\ Len(pushed) = 0
    BY <1>2
  <2>2. bDraining \in BOOLEAN /\ created \in BOOLEAN
    BY <1>2 DEF QInit
  <2>3. QED
    BY <1>2, <2>1, <2>2, CallQueueAssumption, SMT DEF QueueCounted
<1>4. Draining
  BY <1>2 DEF Draining, NoCall
<1>5. CallsKeepTheirOrder
  <2>1. /\ SubSeq(kept, ran + 1, Len(kept)) \in Seq(Nat)
        /\ Len(SubSeq(kept, ran + 1, Len(kept))) = 0
    BY <1>2, <1>3 DEF QueueCounted
  <2>2. QED
    BY <1>1, <2>1 DEF CallsKeepTheirOrder
<1>6. QED
  BY <1>1, <1>3, <1>4, <1>5 DEF Ringing

\* A push, which a callback of the drain may make, goes behind the drain's prefix.
LEMMA PushRings ==
  ASSUME Ringing, NEW tag \in Tags, CallQueue_Push(tag) PROVE Ringing'
<1> USE DEF Ringing, CallQueue_Push
<1>1. Len(pushed) + 1 \in Nat /\ pushed' \in Seq(Tags) /\ Len(pushed') = Len(pushed) + 1
  BY DEF QueueCounted
<1>2. /\ kept' \in Seq(Nat) /\ Len(kept') = Len(kept) + 1
      /\ kept'[Len(kept) + 1] = Len(pushed) + 1
      /\ \A i \in 1 .. Len(kept) : kept'[i] = kept[i]
  BY <1>1 DEF QueueCounted
<1>3. /\ IsRing(entries') /\ Tidy(entries')
      /\ Queued(entries)' = Append(Queued(entries), Len(pushed) + 1)
  <2>1. Len(pushed) + 1 \in Nat \ {NoCall}
    BY DEF QueueCounted, NoCall
  <2>2. QED
    BY <1>1, <2>1, PushAppends, PushTidy
<1>4. CallsKeepTheirOrder'
  BY <1>1, <1>2, <1>3, RestOfKept DEF CallsKeepTheirOrder, QueueCounted
<1>5. QueueCounted'
  <2>1. \A i \in 1 .. Len(kept') : kept'[i] \in 1 .. Len(pushed')
    BY <1>1, <1>2 DEF QueueCounted
  <2>2. Len(pushed') <= PushesMax
    BY <1>1, CallQueueAssumption DEF QueueCounted
  <2>3. QED
    BY <1>1, <1>2, <2>1, <2>2 DEF QueueCounted
<1>6. Draining'
  BY <1>2 DEF Draining, QueueCounted
<1>7. QED
  BY <1>3, <1>4, <1>5, <1>6

\* The drain runs the next call that waits, and it was pushed before the drain.
LEMMA DrainRings ==
  ASSUME Ringing, DrainCalls PROVE Ringing'
<1> USE DEF Ringing, DrainCalls
<1>1. ran < Len(kept) /\ entries.nCount > 0
  BY CountIsRest DEF QueueCounted
<1>2. IsRing(entries') /\ Tidy(entries') /\ FirstCall(entries) = Head(Queued(entries))
      /\ Queued(entries)' = Tail(Queued(entries))
  BY <1>1, PopDropsFirst, PopTidy
<1>3. inCall' = kept[ran + 1] /\ Queued(entries)' = SubSeq(kept, ran + 2, Len(kept))
  BY <1>1, <1>2, RestOfKept DEF CallsKeepTheirOrder, QueueCounted
<1>4. CallsKeepTheirOrder'
  BY <1>3 DEF CallsKeepTheirOrder, QueueCounted
<1>5. QueueCounted'
  <2>1. inCall' \in 0 .. PushesMax
    BY <1>1, <1>3, CallQueueAssumption DEF QueueCounted
  <2>2. ran' \in 0 .. Len(kept') /\ nToRun' \in 0 .. PushesMax
    BY <1>1, CallQueueAssumption DEF QueueCounted
  <2>3. QED
    BY <2>1, <2>2 DEF QueueCounted
<1>6. Draining'
  BY <1>1, <1>3 DEF Draining, QueueCounted
<1>7. QED
  BY <1>2, <1>4, <1>5, <1>6

\* Creating, destroying and clearing a queue leave nothing that waits.
LEMMA EmptyingRings ==
  ASSUME Ringing,
         (\E n \in 0 .. RingsMax : CallQueue_Create(n)) \/ CallQueue_Destroy \/ CallQueue_Clear
  PROVE  Ringing'
<1>1. ~bDraining' /\ ~bDraining
  BY DEF Ringing, Draining, CallQueue_Create, CallQueue_Destroy, CallQueue_Clear
<1>2. PICK capacity \in Nat : entries' = EmptyRing(capacity)
  BY CallQueueAssumption DEF CallQueue_Create, CallQueue_Destroy, CallQueue_Clear, Ringing,
     IsRing, Capacity
<1>3. IsRing(entries') /\ Tidy(entries') /\ Queued(entries)' = << >>
  BY <1>2, EmptyRingIsEmpty, EmptyRingTidy
<1>4. created' \in BOOLEAN /\ UNCHANGED <<bDraining, nToRun, inCall, pushed, drainEnd>>
  BY DEF CallQueue_Create, CallQueue_Destroy, CallQueue_Clear, Ringing, QueueCounted
<1>5. CASE kept' = << >> /\ ran' = 0
  <2>1. CallsKeepTheirOrder'
    BY <1>3, <1>5 DEF CallsKeepTheirOrder
  <2>2. kept' \in Seq(Nat) /\ Len(kept') = 0
    BY <1>5
  <2>3. QueueCounted'
    BY <1>1, <1>4, <1>5, <2>2 DEF Ringing, QueueCounted
  <2>4. Draining'
    BY <1>1, <1>4 DEF Ringing, Draining
  <2>5. QED
    BY <1>3, <2>1, <2>3, <2>4 DEF Ringing
<1>6. CASE kept' = SubSeq(kept, 1, ran) /\ ran' = ran
  <2>1. CallsKeepTheirOrder'
    BY <1>3, <1>6, RestOfKept DEF CallsKeepTheirOrder, Ringing, QueueCounted
  <2>2. /\ kept' \in Seq(Nat) /\ Len(kept') = ran
        /\ \A i \in 1 .. ran : kept'[i] = kept[i]
    BY <1>6 DEF Ringing, QueueCounted
  <2>3. QueueCounted'
    BY <1>1, <1>4, <1>6, <2>2 DEF Ringing, QueueCounted
  <2>4. Draining'
    BY <1>1, <1>4 DEF Ringing, Draining
  <2>5. QED
    BY <1>3, <2>1, <2>3, <2>4 DEF Ringing
<1>7. QED
  BY <1>5, <1>6 DEF CallQueue_Create, CallQueue_Destroy, CallQueue_Clear

\* A drain that begins covers no more than what waits.
LEMMA DrainBeginRings ==
  ASSUME Ringing, NEW n \in 1 .. PushesMax, DrainBegins(n) PROVE Ringing'
<1> USE DEF Ringing, DrainBegins
<1>1. nToRun' \in 0 .. PushesMax /\ ran + nToRun' <= Len(kept)
  BY CountIsRest, CallQueueAssumption DEF DrainLimit, QueueCounted
<1>2. IsRing(entries') /\ Tidy(entries') /\ CallsKeepTheirOrder'
  BY DEF CallsKeepTheirOrder
<1>3. QueueCounted' /\ Draining'
  BY <1>1 DEF QueueCounted, Draining
<1>4. QED
  BY <1>2, <1>3

\* A cancellation takes the calls with the tag out of the ring and of the history.
LEMMA CancelRings ==
  ASSUME Ringing, NEW tag \in Tags, CallQueue_CancelTag(tag) PROVE Ringing'
<1> DEFINE waiting == SubSeq(kept, ran + 1, Len(kept))
           others == {n \in DOMAIN waiting : pushed[waiting[n]] # tag}
           rest == Picked(waiting, others)
           done == SubSeq(kept, 1, ran)
<1>1. /\ IsRing(entries) /\ Tidy(entries) /\ Queued(entries) = waiting
      /\ kept \in Seq(Nat) /\ ran \in 0 .. Len(kept)
      /\ \A i \in 1 .. Len(kept) : kept[i] \in 1 .. Len(pushed)
  BY DEF Ringing, CallsKeepTheirOrder, QueueCounted
<1>2. /\ entries' = Turned(entries, tag) /\ kept' = done \o rest
      /\ ~bDraining /\ UNCHANGED <<created, bDraining, nToRun, inCall, pushed, ran, drainEnd>>
  BY DEF CallQueue_CancelTag, KeptWithout
<1>3. waiting \in Seq(Nat) /\ Len(waiting) = Len(kept) - ran /\ DOMAIN waiting = 1 .. Len(waiting)
  BY <1>1
<1>4. waiting \in Seq(1 .. Len(pushed)) /\ done \in Seq(1 .. Len(pushed)) /\ Len(done) = ran
  <2>1. kept \in Seq(1 .. Len(pushed))
    BY <1>1
  <2> QED
    BY <1>1, <2>1
<1> HIDE DEF waiting, done
<1>5. others = OthersUpTo(waiting, tag, entries.nCount)
  <2>1. Len(waiting) = entries.nCount
    BY <1>1, QueuedCalls
  <2> QED
    BY <1>3, <2>1 DEF OthersUpTo
<1>6. IsRing(entries') /\ Tidy(entries') /\ Queued(entries)' = rest
  BY <1>1, <1>2, <1>5, CancelKeepsOthers
<1>7. rest \in Seq(1 .. Len(pushed))
  BY <1>3, <1>4, PickedFrom
<1> HIDE DEF rest
<1>8. /\ kept' \in Seq(1 .. Len(pushed)) /\ Len(kept') = ran + Len(rest)
      /\ Len(rest) \in Nat
  <2>1. \A S : \A s, t \in Seq(S) : s \o t \in Seq(S) /\ Len(s \o t) = Len(s) + Len(t)
                                       /\ Len(t) \in Nat
    OBVIOUS
  <2> QED
    BY <1>2, <1>4, <1>7, <2>1
<1>9. SubSeq(kept', ran + 1, Len(kept')) = rest
  <2>1. done \in Seq(Nat) /\ rest \in Seq(Nat) /\ ran \in Nat
    BY <1>1, <1>4, <1>7
  <2>2. /\ kept' \in Seq(Nat) /\ \A i \in 1 .. Len(rest) : kept'[ran + i] = rest[i]
    BY <1>2, <1>4, <2>1, ConcatenationIs
  <2>3. /\ SubSeq(kept', ran + 1, Len(kept')) \in Seq(Nat)
        /\ Len(SubSeq(kept', ran + 1, Len(kept'))) = Len(rest)
    BY <1>1, <1>8, <2>1, <2>2
  <2>4. \A i \in 1 .. Len(rest) : SubSeq(kept', ran + 1, Len(kept'))[i] = kept'[ran + i]
    <3>1. \A s \in Seq(Nat) : \A i \in 1 .. Len(s) - ran :
            SubSeq(s, ran + 1, Len(s))[i] = s[ran + i]
      BY <2>1
    <3>2. \A i \in 1 .. Len(kept') - ran :
            SubSeq(kept', ran + 1, Len(kept'))[i] = kept'[ran + i]
      BY <2>2, <3>1, Zenon
    <3>3. Len(kept') - ran = Len(rest)
      BY <1>8, <2>1
    <3> QED
      BY <3>2, <3>3
  <2> QED
    BY <2>1, <2>2, <2>3, <2>4, SameList
<1>10. CallsKeepTheirOrder'
  BY <1>2, <1>6, <1>9 DEF CallsKeepTheirOrder
<1>11. QueueCounted'
  <2>1. kept' \in Seq(Nat) /\ ran' \in 0 .. Len(kept')
        /\ \A i \in 1 .. Len(kept') : kept'[i] \in 1 .. Len(pushed)
    <3>1. \A i \in 1 .. Len(kept') : kept'[i] \in 1 .. Len(pushed)
      BY <1>8
    <3>2. Len(kept') \in Nat /\ ran \in 0 .. Len(kept')
      BY <1>1, <1>8
    <3>3. kept' = [i \in 1 .. Len(kept') |-> kept'[i]]
      BY <1>8
    <3>4. kept' \in Seq(Nat)
      BY <3>1, <3>2, <3>3
    <3> QED
      BY <1>2, <3>1, <3>2, <3>4
  <2> QED
    BY <1>2, <2>1 DEF Ringing, QueueCounted
<1>12. Draining'
  BY <1>2 DEF Ringing, Draining
<1> QED
  BY <1>6, <1>10, <1>11, <1>12 DEF Ringing

\* Every step keeps the invariant.
LEMMA RingingKept == Ringing /\ [QNext]_qvars => Ringing'
<1> SUFFICES ASSUME Ringing, [QNext]_qvars PROVE Ringing'
  OBVIOUS
<1>1. CASE \E tag \in Tags : CallQueue_Push(tag)
  BY <1>1, PushRings
<1>2. CASE (\E n \in 0 .. RingsMax : CallQueue_Create(n)) \/ CallQueue_Destroy
           \/ CallQueue_Clear
  BY <1>2, EmptyingRings
<1>3. CASE \E n \in 1 .. PushesMax : DrainBegins(n)
  BY <1>3, DrainBeginRings
<1>4. CASE DrainCalls
  BY <1>4, DrainRings
<1>5. CASE CallReturns \/ DrainEnds \/ UNCHANGED qvars
  <2>1. UNCHANGED <<created, entries, pushed, kept, ran, drainEnd>>
    BY <1>5 DEF CallReturns, DrainEnds, qvars
  <2>2. /\ nToRun' \in {nToRun, 0} /\ inCall' \in {inCall, NoCall}
        /\ bDraining' => bDraining /\ nToRun' = nToRun
        /\ inCall' # NoCall => inCall' = inCall /\ (bDraining => bDraining')
    BY <1>5 DEF CallReturns, DrainEnds, qvars
  <2>6. bDraining' \in BOOLEAN
    BY <1>5, Zenon DEF CallReturns, DrainEnds, qvars, Ringing, QueueCounted
  <2>3. IsRing(entries') /\ Tidy(entries') /\ CallsKeepTheirOrder'
    BY <2>1 DEF Ringing, CallsKeepTheirOrder, Queued, PhysicalIndex, Capacity
  <2>4. QueueCounted'
    <3>1. nToRun' \in 0 .. PushesMax /\ inCall' \in 0 .. PushesMax
      BY <2>2, CallQueueAssumption DEF Ringing, QueueCounted, NoCall
    <3> QED
      BY <2>1, <2>6, <3>1 DEF Ringing, QueueCounted
  <2>5. Draining'
    BY <2>1, <2>2 DEF Ringing, QueueCounted, Draining, NoCall
  <2>7. QED
    BY <2>3, <2>4, <2>5 DEF Ringing
<1>6. CASE \E tag \in Tags : CallQueue_CancelTag(tag)
  BY <1>6, CancelRings
<1>7. QED
  BY <1>1, <1>2, <1>3, <1>4, <1>5, <1>6 DEF QNext

\* The ring always shows what was pushed, was not cancelled and has not run, and the
\* drain in progress is confined to what was pushed before it.
THEOREM RingingInvariant == QSpec => []Ringing
  BY RingingStarts, RingingKept, PTL DEF QSpec

\* Queue_IsValid never fails: elements are in the logical range of the storage and
\* nowhere else, however often the ring wraps, grows, empties and is turned over.
THEOREM QueueTyped == QSpec => []QTypeOK
<1>1. Ringing => QTypeOK
  <2> SUFFICES ASSUME Ringing PROVE QTypeOK
    OBVIOUS
  <2>1. /\ entries.nCount \in 0 .. Capacity(entries)
        /\ entries.iHead = 0 \/ entries.iHead < Capacity(entries)
    BY DEF Ringing, IsRing, Capacity
  <2>2. /\ entries.nCount = 0 => entries.iHead = 0
        /\ \A i \in 0 .. Capacity(entries) - 1 :
             entries.pData[PhysicalIndex(entries, i) + 1] # NoCall <=> i < entries.nCount
    BY DEF Ringing, Tidy
  <2> QED
    BY <2>1, <2>2 DEF Ringing, QueueCounted, QTypeOK
<1>2. QED
  BY <1>1, RingingInvariant, PTL

\* Calls run in the order of their pushes, through wraps, growth, cancellations and
\* pushes made by the callbacks, and a drain runs none that was pushed after it began.
THEOREM CallsStayInTurn == QSpec => []CallsRunInTurn
<1>1. Ringing => CallsRunInTurn
  BY DEF Ringing, Draining, CallsRunInTurn, DrainRunsItsPrefix
<1>2. QED
  BY <1>1, RingingInvariant, PTL

=============================================================================

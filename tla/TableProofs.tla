----------------------------- MODULE TableProofs -----------------------------
(***************************************************************************)
(* The tables in the resource manager's block provide the index that the   *)
(* manager relies on, for every number of records, every set of identities *)
(* and every hash of them.                                                 *)
(*                                                                         *)
(* Tabled is the inductive invariant: the lookup table has each record in  *)
(* use once, no bucket that probing passes before it reaches an entry is   *)
(* empty, and the links are two lists.  The hard part is RemoveLookup,     *)
(* which breaks the second conjunct when it clears a bucket.  Mending says *)
(* how far it is broken while the cluster is inserted again: the bucket    *)
(* that is missing lies behind the one the code is at, and the entry that  *)
(* needs it still lies ahead.  At the empty bucket that ends the cluster   *)
(* nothing can be missing any more, since an entry beyond it would need    *)
(* that bucket too.                                                        *)
(***************************************************************************)
EXTENDS MCResourceRegistry, CypherResourceProofs, Counting

-----------------------------------------------------------------------------
(* Iteration. *)

\* The turns that an iteration takes.
Turning(step, x, last, turn) ==
  turn = [k \in 0 .. last |-> IF k = 0 THEN x ELSE step[turn[k - 1]]]

\* Every number of turns can be taken.
LEMMA TurningExists ==
  ASSUME NEW step, NEW x, NEW last \in Nat PROVE \E turn : Turning(step, x, last, turn)
<1> DEFINE stuck == {n \in Nat : ~\E turn : Turning(step, x, n, turn)}
<1>1. ASSUME stuck # {} PROVE FALSE
  <2>1. PICK n \in stuck : \A m \in stuck : n <= m
    BY <1>1, LeastNumber
  <2>2. CASE n = 0
    <3> DEFINE turn == [k \in 0 .. 0 |-> x]
    <3>1. turn = [k \in 0 .. 0 |-> IF k = 0 THEN x ELSE step[turn[k - 1]]]
      OBVIOUS
    <3> HIDE DEF turn
    <3>2. Turning(step, x, 0, turn)
      BY <3>1 DEF Turning
    <3> QED
      BY <2>2, <3>2
  <2>3. CASE n # 0
    <3>1. n - 1 \in Nat /\ n - 1 \notin stuck
      BY <2>1, <2>3
    <3>2. PICK turn : Turning(step, x, n - 1, turn)
      BY <3>1
    <3>3. turn = [k \in 0 .. n - 1 |-> IF k = 0 THEN x ELSE step[turn[k - 1]]]
      BY <3>2 DEF Turning
    <3> DEFINE longer == [k \in 0 .. n |-> IF k = n THEN step[turn[n - 1]] ELSE turn[k]]
    <3>4. ASSUME NEW k \in 0 .. n
          PROVE  longer[k] = IF k = 0 THEN x ELSE step[longer[k - 1]]
      <4>1. k # 0 => k - 1 \in 0 .. n - 1 /\ longer[k - 1] = turn[k - 1]
        BY <2>1
      <4>2. CASE k = n
        BY <2>3, <4>1, <4>2
      <4>3. CASE k # n
        <5>1. k \in 0 .. n - 1 /\ longer[k] = turn[k]
          BY <2>1, <4>3
        <5>2. turn[k] = IF k = 0 THEN x ELSE step[turn[k - 1]]
          BY <3>3, <5>1
        <5> QED
          BY <4>1, <5>1, <5>2
      <4> QED
        BY <4>2, <4>3
    <3>5. longer = [k \in 0 .. n |-> IF k = 0 THEN x ELSE step[longer[k - 1]]]
      BY <3>4
    <3> HIDE DEF longer
    <3>6. Turning(step, x, n, longer)
      BY <3>5 DEF Turning
    <3> QED
      BY <2>1, <3>6
  <2> QED
    BY <2>2, <2>3
<1> QED
  BY <1>1

\* What an iteration starts with, and each of its turns.
LEMMA IterationIs ==
  ASSUME NEW step, NEW x, NEW last \in Nat
  PROVE  /\ Iterates(step, x, last)[0] = x
         /\ \A k \in 1 .. last :
              Iterates(step, x, last)[k] = step[Iterates(step, x, last)[k - 1]]
<1> DEFINE Turns(f) == [k \in 0 .. last |-> IF k = 0 THEN x ELSE step[f[k - 1]]]
           turn == CHOOSE f : f = Turns(f)
<1>1. Iterates(step, x, last) = turn
  BY Zenon DEF Iterates
<1>2. \E f : f = Turns(f)
  <2>1. PICK f : Turning(step, x, last, f)
    BY TurningExists
  <2>2. f = Turns(f)
    BY <2>1 DEF Turning
  <2> QED
    BY <2>2, Zenon
<1>3. turn = Turns(turn)
  BY <1>2, Zenon
<1> HIDE DEF turn
<1>4. \A k \in 0 .. last : turn[k] = IF k = 0 THEN x ELSE step[turn[k - 1]]
  BY <1>3
<1>5. 0 \in 0 .. last /\ \A k \in 1 .. last : k \in 0 .. last /\ k # 0
  OBVIOUS
<1>6. turn[0] = x
  BY <1>4, <1>5
<1>7. \A k \in 1 .. last : turn[k] = step[turn[k - 1]]
  BY <1>4, <1>5
<1> QED
  BY <1>1, <1>6, <1>7

\* An iteration of a function on a set stays in the set.
LEMMA IterationStays ==
  ASSUME NEW S, NEW step \in [S -> S], NEW x \in S, NEW last \in Nat
  PROVE  \A k \in 0 .. last : Iterates(step, x, last)[k] \in S
<1> DEFINE turn == Iterates(step, x, last)
           out == {k \in 0 .. last : turn[k] \notin S}
<1>1. turn[0] = x /\ \A k \in 1 .. last : turn[k] = step[turn[k - 1]]
  BY IterationIs
<1> HIDE DEF turn
<1>2. ASSUME out # {} PROVE FALSE
  <2>1. out \subseteq Nat
    OBVIOUS
  <2>2. PICK k \in out : \A m \in out : k <= m
    <3> HIDE DEF out
    <3> QED
      BY <1>2, <2>1, LeastNumber
  <2>3. k \in 1 .. last /\ k - 1 \in 0 .. last /\ k - 1 \notin out
    BY <1>1, <2>2
  <2> QED
    BY <1>1, <2>2, <2>3
<1> QED
  BY <1>2 DEF turn

-----------------------------------------------------------------------------
(* The lookup table. *)

\* Twice as many buckets as records, at least.
LEMMA HalfFull ==
  /\ cLookupCapacity \in Nat /\ cLookupCapacity >= 2 * SlotCount
  /\ cLookupCapacity > SlotCount /\ SlotCount \in Nat \ {0}
<1> DEFINE last == 2 * SlotCount
           double == [c \in Nat |-> 2 * c]
           turn == Iterates(double, 1, last)
           enough == {k \in 0 .. last : turn[k] >= last}
           chosen == CHOOSE k \in 0 .. last :
                       turn[k] >= last /\ \A j \in 0 .. k - 1 : turn[j] < last
<1>1. SlotCount \in Nat \ {0} /\ last \in Nat
  BY TableAssumption
<1>2. cLookupCapacity = turn[chosen]
  BY DEF cLookupCapacity, LookupCapacityFor
<1>3. double \in [Nat -> Nat]
  OBVIOUS
<1>4. turn[0] = 1 /\ \A k \in 1 .. last : turn[k] = double[turn[k - 1]]
  <2> HIDE DEF double, last
  <2> QED
    BY <1>1, IterationIs
<1>5. \A k \in 0 .. last : turn[k] \in Nat
  <2> HIDE DEF double, last
  <2> QED
    BY <1>1, <1>3, IterationStays
<1> HIDE DEF turn
<1>6. \A k \in 0 .. last : turn[k] >= k + 1
  <2> DEFINE low == {k \in 0 .. last : ~(turn[k] >= k + 1)}
  <2>1. ASSUME low # {} PROVE FALSE
    <3>1. low \subseteq Nat
      BY <1>1
    <3>2. PICK k \in low : \A m \in low : k <= m
      <4> HIDE DEF low
      <4> QED
        BY <2>1, <3>1, LeastNumber
    <3>3. k \in 1 .. last /\ k - 1 \in 0 .. last /\ k - 1 \notin low
      BY <1>1, <1>4, <3>2
    <3>4. turn[k - 1] \in Nat /\ turn[k - 1] >= k
      BY <1>1, <1>5, <3>3
    <3>5. turn[k] = 2 * turn[k - 1]
      BY <1>4, <3>3, <3>4
    <3> QED
      BY <3>2, <3>3, <3>4, <3>5
  <2> QED
    BY <2>1
<1>7. enough # {} /\ enough \subseteq Nat
  <2>1. last \in 0 .. last /\ turn[last] >= last + 1 /\ turn[last] \in Nat
    BY <1>1, <1>5, <1>6
  <2> QED
    BY <1>1, <2>1
<1>8. PICK k \in enough : \A m \in enough : k <= m
  <2> HIDE DEF enough
  <2> QED
    BY <1>7, LeastNumber
<1>9. \A j \in 0 .. k - 1 : turn[j] < last
  <2> SUFFICES ASSUME NEW j \in 0 .. k - 1 PROVE turn[j] < last
    OBVIOUS
  <2>1. j \in 0 .. last /\ j \notin enough
    BY <1>1, <1>8
  <2> QED
    BY <1>1, <1>5, <2>1
<1>10. chosen \in 0 .. last /\ turn[chosen] >= last
  BY <1>8, <1>9
<1> HIDE DEF chosen
<1> QED
  BY <1>1, <1>2, <1>5, <1>10

\* Probing steps forward, and around the end of the table.
LEMMA Probing ==
  ASSUME NEW home \in Buckets, NEW b \in Buckets
  PROVE  /\ ProbesTo(home, b) \in 0 .. cLookupCapacity - 1
         /\ ProbesTo(home, home) = 0
         /\ \A c \in Buckets : ProbesTo(home, b) = ProbesTo(home, c) => b = c
         /\ NextBucket(b) \in Buckets
         /\ ProbesTo(home, b) + 1 < cLookupCapacity =>
              ProbesTo(home, NextBucket(b)) = ProbesTo(home, b) + 1
         /\ ProbesTo(b, NextBucket(b)) = 1
  BY HalfFull DEF Buckets, ProbesTo, NextBucket

\* Whatever lies between two buckets as seen from `from` and is passed on the way from
\* one to the other lies between them as seen from the home.
LEMMA Passing ==
  ASSUME NEW home \in Buckets, NEW from \in Buckets,
         NEW b \in Buckets, NEW c \in Buckets, NEW e \in Buckets,
         ProbesTo(home, b) < ProbesTo(home, c),
         \/ /\ ProbesTo(from, b) < ProbesTo(from, e)
            /\ ProbesTo(from, e) < ProbesTo(from, c)
         \/ /\ ProbesTo(from, c) < ProbesTo(from, b)
            /\ ProbesTo(from, b) < ProbesTo(from, e)
  PROVE  ProbesTo(home, e) < ProbesTo(home, c)
  BY HalfFull DEF Buckets, ProbesTo

\* The first bucket that probing meets is one of those asked for.
LEMMA FirstIsMet ==
  ASSUME NEW home \in Buckets, NEW buckets \in SUBSET Buckets, buckets # {}
  PROVE  /\ FirstProbed(home, buckets) \in buckets
         /\ \A c \in buckets : ProbesTo(home, FirstProbed(home, buckets)) <= ProbesTo(home, c)
<1> DEFINE probes == {ProbesTo(home, b) : b \in buckets}
<1>1. \A b \in buckets : ProbesTo(home, b) \in Nat
  BY Probing
<1>2. probes \subseteq Nat /\ probes # {}
  BY <1>1
<1> HIDE DEF probes
<1>3. PICK p \in probes : \A q \in probes : p <= q
  BY <1>2, LeastNumber
<1>4. PICK b \in buckets : p = ProbesTo(home, b)
  BY DEF probes
<1>5. \A c \in buckets : ProbesTo(home, b) <= ProbesTo(home, c)
  BY <1>3, <1>4 DEF probes
<1> QED
  BY <1>5, Zenon DEF FirstProbed

\* The buckets that the identities have for a home, and the ids of the records.
Homes == [Identities -> Buckets]
RecordIds == [RecordSlots -> Identities \union {NoRecord}]
UsedSlots(ids) == {s \in RecordSlots : ids[s] # NoRecord}

\* The table has an entry for each of the records and no other.
Lists(table, slots) ==
  /\ \A b \in Buckets : table[b] # 0 => table[b] - 1 \in slots
  /\ \A s \in slots : \E b \in Buckets : table[b] = s + 1
  /\ \A b, c \in Buckets : table[b] # 0 /\ table[b] = table[c] => b = c

\* Probing for the entry in bucket c stops at bucket b, which is empty, before.
Missing(h, ids, table, b, c) ==
  /\ table[b] = 0 /\ table[c] # 0
  /\ ProbesTo(h[ids[table[c] - 1]], b) < ProbesTo(h[ids[table[c] - 1]], c)

\* The records in use have different ids and probing finds them.
Exact(h, ids, table) ==
  /\ h \in Homes /\ ids \in RecordIds /\ table \in Tables
  /\ \A s, t \in UsedSlots(ids) : ids[s] = ids[t] => s = t
  /\ Lists(table, UsedSlots(ids))
  /\ \A b, c \in Buckets : ~Missing(h, ids, table, b, c)

\* An entry is a record of the table, and has an id and a home.
LEMMA EntryIs ==
  ASSUME NEW h \in Homes, NEW ids \in RecordIds, NEW table \in Tables,
         NEW slots \in SUBSET UsedSlots(ids), Lists(table, slots),
         NEW b \in Buckets, table[b] # 0
  PROVE  /\ table[b] - 1 \in slots /\ table[b] - 1 \in RecordSlots /\ table[b] \in Nat
         /\ ids[table[b] - 1] \in Identities
         /\ h[ids[table[b] - 1]] \in Buckets
<1>1. table[b] - 1 \in slots
  BY DEF Lists
<1>2. table[b] - 1 \in RecordSlots /\ ids[table[b] - 1] \in Identities
  BY <1>1 DEF UsedSlots, RecordIds
<1>3. table[b] \in 0 .. SlotCount
  BY DEF Tables
<1>4. table[b] \in Nat
  BY <1>3, HalfFull
<1> QED
  BY <1>1, <1>2, <1>4 DEF Homes

\* There are more buckets than records, so one is empty.
LEMMA EmptyBucket ==
  ASSUME NEW table \in Tables, NEW slots \in SUBSET RecordSlots, Lists(table, slots)
  PROVE  \E e \in Buckets : table[e] = 0
<1> SUFFICES ASSUME \A b \in Buckets : table[b] # 0 PROVE FALSE
  OBVIOUS
<1>1. cLookupCapacity \in Nat /\ SlotCount \in Nat \ {0} /\ cLookupCapacity > SlotCount
  BY HalfFull
<1>2. IsFiniteSet(Buckets) /\ Cardinality(Buckets) = cLookupCapacity
  <2>1. 0 \in Int /\ cLookupCapacity - 1 \in Int /\ ~(0 > cLookupCapacity - 1)
    BY <1>1
  <2>2. /\ IsFiniteSet(0 .. cLookupCapacity - 1)
        /\ Cardinality(0 .. cLookupCapacity - 1) = cLookupCapacity - 1 - 0 + 1
    BY <2>1, FS_Interval
  <2> QED
    BY <1>1, <2>2 DEF Buckets
<1>3. IsFiniteSet(RecordSlots) /\ Cardinality(RecordSlots) = SlotCount
  <2>1. 0 \in Int /\ SlotCount - 1 \in Int /\ ~(0 > SlotCount - 1)
    BY <1>1
  <2>2. /\ IsFiniteSet(0 .. SlotCount - 1)
        /\ Cardinality(0 .. SlotCount - 1) = SlotCount - 1 - 0 + 1
    BY <2>1, FS_Interval
  <2> QED
    BY <1>1, <2>2 DEF RecordSlots
<1> DEFINE entry == [b \in Buckets |-> table[b] - 1]
<1>4. entry \in [Buckets -> RecordSlots]
  BY DEF Lists
<1>5. PICK b \in Buckets, c \in Buckets : b # c /\ entry[b] = entry[c]
  <2> HIDE DEF entry
  <2> QED
    BY <1>1, <1>2, <1>3, <1>4, FS_PigeonHole
<1>6. table[b] \in Nat /\ table[c] \in Nat
  BY <1>1 DEF Tables
<1>7. table[b] = table[c]
  BY <1>5, <1>6
<1> QED
  BY <1>5, <1>7 DEF Lists

\* What LookupRecord answers for given tables.
Found(h, ids, table, id) ==
  LET stops == {b \in Buckets : table[b] = 0 \/ ids[table[b] - 1] = id}
      b == FirstProbed(h[id], stops)
  IN  IF stops = {} \/ table[b] = 0 THEN NoRecord ELSE table[b] - 1

\* Probing for an id that is in use finds its record.
LEMMA HitFound ==
  ASSUME NEW h, NEW ids, NEW table, Exact(h, ids, table), NEW id \in Identities,
         NEW s \in RecordSlots, ids[s] = id
  PROVE  Found(h, ids, table, id) = s
<1> DEFINE stops == {b \in Buckets : table[b] = 0 \/ ids[table[b] - 1] = id}
           first == FirstProbed(h[id], stops)
<1>1. s \in UsedSlots(ids) /\ h[id] \in Buckets
  BY TableAssumption DEF UsedSlots, Exact, Homes
<1>2. PICK at \in Buckets : table[at] = s + 1
  BY <1>1 DEF Exact, Lists
<1>3. s \in Nat /\ table[at] # 0 /\ table[at] - 1 = s
  BY <1>2 DEF RecordSlots
<1>4. at \in stops /\ stops \in SUBSET Buckets
  BY <1>3
<1>5. first \in stops /\ ProbesTo(h[id], first) <= ProbesTo(h[id], at)
  <2> HIDE DEF stops
  <2> QED
    BY <1>1, <1>4, FirstIsMet
<1> HIDE DEF first
<1>6. table[first] # 0
  <2> SUFFICES ASSUME table[first] = 0 PROVE FALSE
    OBVIOUS
  <2>1. first \in Buckets /\ first # at
    BY <1>3, <1>5
  <2>2. ProbesTo(h[id], first) # ProbesTo(h[id], at)
    BY <1>1, <2>1, Probing
  <2>3. ProbesTo(h[id], first) \in Nat /\ ProbesTo(h[id], at) \in Nat
    BY <1>1, <2>1, Probing
  <2>4. ProbesTo(h[id], first) < ProbesTo(h[id], at)
    BY <1>5, <2>2, <2>3
  <2>5. Missing(h, ids, table, first, at)
    BY <1>3, <2>4 DEF Missing
  <2> QED
    BY <2>1, <2>5 DEF Exact
<1>7. table[first] - 1 = s
  <2>1. table[first] - 1 \in UsedSlots(ids) /\ ids[table[first] - 1] = id
    BY <1>5, <1>6 DEF Exact, Lists
  <2> QED
    BY <1>1, <2>1 DEF Exact
<1>8. stops # {}
  BY <1>4
<1>9. Found(h, ids, table, id) = table[first] - 1
  BY <1>6, <1>8 DEF Found, first
<1> QED
  BY <1>7, <1>9

\* Probing for an id that is not in use finds none.
LEMMA MissFound ==
  ASSUME NEW h, NEW ids, NEW table, Exact(h, ids, table), NEW id \in Identities,
         \A s \in RecordSlots : ids[s] # id
  PROVE  Found(h, ids, table, id) = NoRecord
<1> DEFINE stops == {b \in Buckets : table[b] = 0 \/ ids[table[b] - 1] = id}
           first == FirstProbed(h[id], stops)
<1>1. \A b \in stops : b \in Buckets /\ table[b] = 0
  BY DEF Exact, Lists, UsedSlots
<1>2. stops = {} \/ first \in stops
  <2>1. h[id] \in Buckets /\ stops \in SUBSET Buckets
    BY DEF Exact, Homes
  <2> HIDE DEF stops
  <2> QED
    BY <2>1, FirstIsMet
<1>3. stops = {} \/ table[first] = 0
  BY <1>1, <1>2
<1> HIDE DEF stops
<1>4. Found(h, ids, table, id) =
        IF stops = {} \/ table[first] = 0 THEN NoRecord ELSE table[first] - 1
  BY DEF Found, stops
<1> QED
  BY <1>3, <1>4

\* An entry goes to the first empty bucket that probing meets.
LEMMA InsertedThere ==
  ASSUME hash \in Homes, NEW table \in Tables, NEW id \in Identities, NEW s \in RecordSlots,
         NEW e \in Buckets, table[e] = 0
  PROVE  \E f \in Buckets :
           /\ table[f] = 0 /\ ProbesTo(hash[id], f) <= ProbesTo(hash[id], e)
           /\ InsertLookup(table, id, s) = [table EXCEPT ![f] = s + 1]
           /\ \A b \in Buckets : ProbesTo(hash[id], b) < ProbesTo(hash[id], f) => table[b] # 0
<1> DEFINE empty == {b \in Buckets : table[b] = 0}
           f == FirstProbed(hash[id], empty)
<1>1. hash[id] \in Buckets /\ e \in empty /\ empty \in SUBSET Buckets
  BY DEF Homes
<1>2. f \in empty /\ \A c \in empty : ProbesTo(hash[id], f) <= ProbesTo(hash[id], c)
  <2> HIDE DEF empty
  <2> QED
    BY <1>1, FirstIsMet
<1>3. InsertLookup(table, id, s) = [table EXCEPT ![f] = s + 1]
  <2>1. empty # {}
    BY <1>1
  <2> QED
    BY <2>1 DEF InsertLookup
<1> HIDE DEF f
<1>4. ASSUME NEW b \in Buckets, ProbesTo(hash[id], b) < ProbesTo(hash[id], f), table[b] = 0
      PROVE  FALSE
  <2>1. ProbesTo(hash[id], f) <= ProbesTo(hash[id], b)
    BY <1>2, <1>4
  <2>2. ProbesTo(hash[id], f) \in Nat /\ ProbesTo(hash[id], b) \in Nat
    BY <1>1, <1>2, Probing
  <2> QED
    BY <1>4, <2>1, <2>2
<1> QED
  BY <1>1, <1>2, <1>3, <1>4

\* A record that is put into the table where its list of entries lacks it.
LEMMA ListedToo ==
  ASSUME NEW table \in Tables, NEW slots \in SUBSET RecordSlots, Lists(table, slots),
         NEW s \in RecordSlots \ slots, NEW f \in Buckets, table[f] = 0
  PROVE  /\ [table EXCEPT ![f] = s + 1] \in Tables
         /\ Lists([table EXCEPT ![f] = s + 1], slots \union {s})
<1> DEFINE more == [table EXCEPT ![f] = s + 1]
<1>1. s \in Nat /\ s + 1 \in 0 .. SlotCount /\ s + 1 # 0 /\ s + 1 - 1 = s
  BY HalfFull DEF RecordSlots
<1>2. more \in Tables
  BY <1>1 DEF Tables
<1>3. more[f] = s + 1 /\ \A b \in Buckets \ {f} : more[b] = table[b]
  BY DEF Tables
<1> HIDE DEF more
<1>4. \A b \in Buckets : table[b] # s + 1
  BY <1>1 DEF Lists
<1>5. \A b \in Buckets : more[b] # 0 => more[b] - 1 \in slots \union {s}
  BY <1>1, <1>3 DEF Lists
<1>6. ASSUME NEW r \in slots \union {s} PROVE \E b \in Buckets : more[b] = r + 1
  <2>1. CASE r = s
    BY <1>3, <2>1
  <2>2. CASE r # s
    <3>1. PICK b \in Buckets : table[b] = r + 1
      BY <2>2 DEF Lists
    <3>2. r \in Nat
      BY <2>2 DEF RecordSlots
    <3>3. b # f
      BY <3>1, <3>2
    <3> QED
      BY <1>3, <3>1, <3>3
  <2> QED
    BY <2>1, <2>2
<1>7. \A b, c \in Buckets : more[b] # 0 /\ more[b] = more[c] => b = c
  BY <1>3, <1>4 DEF Lists
<1> QED
  BY <1>2, <1>5, <1>6, <1>7 DEF Lists, more

\* AllocateRecord and InsertLookup keep the table exact.
LEMMA InsertionExact ==
  ASSUME Exact(hash, recId, pLookup), NEW id \in Identities, NEW s \in RecordSlots,
         recId[s] = NoRecord, \A r \in RecordSlots : recId[r] # id
  PROVE  Exact(hash, [recId EXCEPT ![s] = id], InsertLookup(pLookup, id, s))
<1> DEFINE ids == [recId EXCEPT ![s] = id]
           used == UsedSlots(recId)
<1>1. hash \in Homes /\ recId \in RecordIds /\ pLookup \in Tables /\ Lists(pLookup, used)
  BY DEF Exact
<1>2. used \in SUBSET RecordSlots /\ s \notin used
  BY DEF UsedSlots
<1>3. PICK e \in Buckets : pLookup[e] = 0
  BY <1>1, <1>2, EmptyBucket
<1>4. PICK f \in Buckets :
        /\ pLookup[f] = 0
        /\ InsertLookup(pLookup, id, s) = [pLookup EXCEPT ![f] = s + 1]
        /\ \A b \in Buckets : ProbesTo(hash[id], b) < ProbesTo(hash[id], f) => pLookup[b] # 0
  BY <1>1, <1>3, InsertedThere
<1> DEFINE more == [pLookup EXCEPT ![f] = s + 1]
<1>5. more \in Tables /\ Lists(more, used \union {s})
  <2> HIDE DEF used
  <2> QED
    BY <1>1, <1>2, <1>4, ListedToo
<1>6. /\ ids \in RecordIds /\ ids[s] = id /\ id # NoRecord
      /\ \A r \in RecordSlots \ {s} : ids[r] = recId[r]
  BY <1>1, TableAssumption DEF RecordIds
<1>7. more[f] = s + 1 /\ \A b \in Buckets \ {f} : more[b] = pLookup[b]
  BY <1>1 DEF Tables
<1> HIDE DEF ids, more
<1>8. UsedSlots(ids) = used \union {s}
  BY <1>6 DEF UsedSlots
<1>9. \A r, t \in UsedSlots(ids) : ids[r] = ids[t] => r = t
  BY <1>6, <1>8 DEF Exact, UsedSlots
<1>10. ASSUME NEW b \in Buckets, NEW c \in Buckets, Missing(hash, ids, more, b, c) PROVE FALSE
  <2>1. b # f /\ pLookup[b] = 0
    <3>1. s + 1 # 0
      BY DEF RecordSlots
    <3> QED
      BY <1>7, <1>10, <3>1 DEF Missing
  <2>2. CASE c = f
    <3>1. more[c] - 1 = s /\ ids[more[c] - 1] = id
      BY <1>6, <1>7, <2>2 DEF RecordSlots
    <3> QED
      BY <1>4, <1>10, <2>1, <2>2, <3>1 DEF Missing
  <2>3. CASE c # f
    <3>1. more[c] = pLookup[c] /\ pLookup[c] # 0
      BY <1>7, <1>10, <2>3 DEF Missing
    <3>2. pLookup[c] - 1 \in used
      BY <1>1, <3>1 DEF Lists
    <3>3. ids[more[c] - 1] = recId[pLookup[c] - 1]
      BY <1>2, <1>6, <3>1, <3>2
    <3>4. Missing(hash, recId, pLookup, b, c)
      BY <1>10, <2>1, <3>1, <3>3 DEF Missing
    <3> QED
      BY <3>4 DEF Exact
  <2> QED
    BY <2>2, <2>3
<1>11. Exact(hash, ids, more)
  BY <1>1, <1>5, <1>6, <1>8, <1>9, <1>10 DEF Exact
<1> QED
  BY <1>4, <1>11 DEF ids, more

-----------------------------------------------------------------------------
(* Taking a record out of the lookup table. *)

Positions == [table : Tables, at : Buckets]

\* Where the reinsertion of a cluster is, seen from the bucket that was cleared: what
\* lies ahead is as it was, and only an entry ahead misses a bucket, one behind.
Mending(slots, cleared, from, x) ==
  /\ x \in Positions
  /\ Lists(x.table, slots)
  /\ \A b \in Buckets : ProbesTo(from, x.at) <= ProbesTo(from, b) => x.table[b] = cleared[b]
  /\ \A b, c \in Buckets : Missing(hash, recId, x.table, b, c) =>
       ProbesTo(from, b) < ProbesTo(from, x.at) /\ ProbesTo(from, x.at) <= ProbesTo(from, c)

\* An entry is taken out of the table.
LEMMA ListedLess ==
  ASSUME NEW table \in Tables, NEW slots \in SUBSET RecordSlots, Lists(table, slots),
         NEW s \in slots, NEW at \in Buckets, table[at] = s + 1
  PROVE  /\ [table EXCEPT ![at] = 0] \in Tables
         /\ Lists([table EXCEPT ![at] = 0], slots \ {s})
<1> DEFINE less == [table EXCEPT ![at] = 0]
<1>1. s \in Nat /\ s + 1 # 0 /\ SlotCount \in Nat
  BY HalfFull DEF RecordSlots
<1>2. less \in Tables /\ less[at] = 0 /\ \A b \in Buckets \ {at} : less[b] = table[b]
  BY <1>1 DEF Tables
<1>3. \A b \in Buckets : table[b] \in Nat
  BY <1>1 DEF Tables
<1> HIDE DEF less
<1>4. ASSUME NEW b \in Buckets, less[b] # 0 PROVE less[b] - 1 \in slots \ {s}
  <2>1. b # at /\ less[b] = table[b]
    BY <1>2, <1>4
  <2>2. table[b] - 1 \in slots
    BY <1>4, <2>1 DEF Lists
  <2>3. table[b] # table[at]
    BY <1>4, <2>1 DEF Lists
  <2>4. table[b] - 1 # s
    BY <1>1, <1>3, <2>3
  <2> QED
    BY <2>1, <2>2, <2>4
<1>5. ASSUME NEW r \in slots \ {s} PROVE \E b \in Buckets : less[b] = r + 1
  <2>1. PICK b \in Buckets : table[b] = r + 1
    BY DEF Lists
  <2>2. r \in Nat /\ r # s
    BY DEF RecordSlots
  <2>3. b # at
    BY <1>1, <2>1, <2>2
  <2> QED
    BY <1>2, <2>1, <2>3
<1>6. \A b, c \in Buckets : less[b] # 0 /\ less[b] = less[c] => b = c
  BY <1>2 DEF Lists
<1> QED
  BY <1>2, <1>4, <1>5, <1>6 DEF Lists, less

\* Clearing a bucket is the start of the reinsertion.
LEMMA ClearingStarts ==
  ASSUME Exact(hash, recId, pLookup), NEW s \in UsedSlots(recId),
         NEW from \in Buckets, pLookup[from] = s + 1
  PROVE  LET cleared == [pLookup EXCEPT ![from] = 0]
         IN  Mending(UsedSlots(recId) \ {s}, cleared, from,
                     [table |-> cleared, at |-> NextBucket(from)])
<1> DEFINE cleared == [pLookup EXCEPT ![from] = 0]
           x == [table |-> cleared, at |-> NextBucket(from)]
           slots == UsedSlots(recId) \ {s}
<1>1. pLookup \in Tables /\ Lists(pLookup, UsedSlots(recId)) /\ s \in RecordSlots
      /\ UsedSlots(recId) \in SUBSET RecordSlots
  BY DEF Exact, UsedSlots
<1>2. cleared \in Tables /\ Lists(cleared, slots)
  BY <1>1, ListedLess
<1>3. cleared[from] = 0 /\ \A b \in Buckets \ {from} : cleared[b] = pLookup[b]
  BY <1>1 DEF Tables
<1>4. NextBucket(from) \in Buckets /\ ProbesTo(from, NextBucket(from)) = 1
      /\ ProbesTo(from, from) = 0
  BY Probing
<1> HIDE DEF cleared, slots
<1>5. x.table = cleared /\ x.at = NextBucket(from) /\ x \in Positions
  BY <1>2, <1>4 DEF Positions
<1> HIDE DEF x
<1>6. ASSUME NEW b \in Buckets, NEW c \in Buckets, Missing(hash, recId, cleared, b, c)
      PROVE  ProbesTo(from, b) < 1 /\ 1 <= ProbesTo(from, c)
  <2>1. c # from /\ cleared[c] = pLookup[c]
    BY <1>3, <1>6 DEF Missing
  <2>2. b = from
    <3> SUFFICES ASSUME b # from PROVE FALSE
      OBVIOUS
    <3>1. Missing(hash, recId, pLookup, b, c)
      BY <1>3, <1>6, <2>1 DEF Missing
    <3> QED
      BY <3>1 DEF Exact
  <2>3. ProbesTo(from, c) # 0
    BY <1>4, <2>1, Probing
  <2>4. ProbesTo(from, c) \in Nat
    BY Probing
  <2> QED
    BY <1>4, <2>2, <2>3, <2>4
<1>7. Mending(slots, cleared, from, x)
  BY <1>2, <1>4, <1>5, <1>6 DEF Mending
<1> QED
  BY <1>7 DEF x, slots, cleared

\* Taking one entry of the cluster out and inserting it again goes one bucket on.
LEMMA TurnMends ==
  ASSUME hash \in Homes, recId \in RecordIds, NEW slots \in SUBSET UsedSlots(recId),
         NEW cleared \in Tables, NEW from \in Buckets, NEW e \in Buckets, cleared[e] = 0,
         NEW x, Mending(slots, cleared, from, x), x.table[x.at] # 0,
         ProbesTo(from, x.at) <= ProbesTo(from, e)
  PROVE  /\ Mending(slots, cleared, from, Reinserted[x])
         /\ ProbesTo(from, Reinserted[x].at) = ProbesTo(from, x.at) + 1
         /\ ProbesTo(from, x.at) + 1 <= ProbesTo(from, e)
<1> DEFINE table == x.table
           at == x.at
           s == table[at] - 1
           home == hash[recId[s]]
           out == [table EXCEPT ![at] = 0]
<1>1. x \in Positions /\ table \in Tables /\ at \in Buckets /\ Lists(table, slots)
  BY DEF Mending, Positions
<1>2. /\ s \in slots /\ s \in RecordSlots /\ recId[s] \in Identities /\ home \in Buckets
      /\ s \in Nat /\ table[at] = s + 1
  <2>1. /\ s \in slots /\ s \in RecordSlots /\ table[at] \in Nat
        /\ recId[s] \in Identities /\ home \in Buckets
    BY <1>1, EntryIs
  <2> QED
    BY <2>1 DEF RecordSlots
<1>3. slots \in SUBSET RecordSlots
  BY DEF UsedSlots
<1> DEFINE P(b) == ProbesTo(from, b)
<1>4. \A b \in Buckets : P(b) \in 0 .. cLookupCapacity - 1 /\ P(b) \in Nat
  BY Probing
<1>5. \A b, c \in Buckets : P(b) = P(c) => b = c
  BY Probing
<1>6. /\ \A b \in Buckets : P(at) <= P(b) => table[b] = cleared[b]
      /\ \A b, c \in Buckets : Missing(hash, recId, table, b, c) =>
           P(b) < P(at) /\ P(at) <= P(c)
  BY DEF Mending
<1>7. Reinserted[x] = [table |-> InsertLookup(out, recId[s], s), at |-> NextBucket(at)]
  BY <1>1 DEF Reinserted, Positions
<1> HIDE DEF table, at, s, home, P
<1>8. table[at] # 0 /\ P(at) <= P(e)
  BY DEF table, at, P
<1>9. out \in Tables /\ Lists(out, slots \ {s})
  BY <1>1, <1>2, <1>3, ListedLess
<1>10. out[at] = 0 /\ \A b \in Buckets \ {at} : out[b] = table[b]
  BY <1>1 DEF Tables
<1> HIDE DEF out
<1>11. PICK f \in Buckets :
         /\ out[f] = 0 /\ ProbesTo(home, f) <= ProbesTo(home, at)
         /\ InsertLookup(out, recId[s], s) = [out EXCEPT ![f] = s + 1]
         /\ \A b \in Buckets : ProbesTo(home, b) < ProbesTo(home, f) => out[b] # 0
  <2> DEFINE id == recId[s]
  <2>1. id \in Identities /\ home = hash[id]
    BY <1>2 DEF home
  <2> HIDE DEF id
  <2>2. \E f \in Buckets :
          /\ out[f] = 0 /\ ProbesTo(hash[id], f) <= ProbesTo(hash[id], at)
          /\ InsertLookup(out, id, s) = [out EXCEPT ![f] = s + 1]
          /\ \A b \in Buckets : ProbesTo(hash[id], b) < ProbesTo(hash[id], f) => out[b] # 0
    <3>1. out \in Tables /\ at \in Buckets /\ out[at] = 0 /\ s \in RecordSlots
      BY <1>1, <1>2, <1>9, <1>10
    <3> QED
      BY <2>1, <3>1, InsertedThere
  <2> QED
    BY <2>1, <2>2 DEF id
<1> DEFINE in == [out EXCEPT ![f] = s + 1]
<1>12. in \in Tables /\ Lists(in, slots)
  <2>1. s \in RecordSlots \ (slots \ {s}) /\ slots \ {s} \in SUBSET RecordSlots
    BY <1>2, <1>3
  <2>2. in \in Tables /\ Lists(in, (slots \ {s}) \union {s})
    BY <1>9, <1>11, <2>1, ListedToo
  <2>3. (slots \ {s}) \union {s} = slots
    BY <1>2
  <2> QED
    BY <2>2, <2>3
<1>13. in[f] = s + 1 /\ \A b \in Buckets \ {f} : in[b] = out[b]
  BY <1>9 DEF Tables
<1> HIDE DEF in
\* The entry does not go ahead.
<1>14. P(f) <= P(at)
  <2>1. CASE f = at
    BY <1>1, <1>4, <2>1
  <2>2. CASE f # at
    <3>1. table[f] = 0
      BY <1>10, <1>11, <2>2
    <3>2. ProbesTo(home, f) < ProbesTo(home, at)
      <4>1. /\ ProbesTo(home, f) # ProbesTo(home, at)
            /\ ProbesTo(home, f) \in Nat /\ ProbesTo(home, at) \in Nat
        BY <1>1, <1>2, <2>2, Probing
      <4> QED
        BY <1>11, <4>1
    <3>3. table[at] - 1 = s
      BY <1>2
    <3>4. Missing(hash, recId, table, f, at)
      BY <1>8, <3>1, <3>2, <3>3 DEF Missing, home
    <3>5. P(f) < P(at)
      BY <1>1, <1>6, <3>4
    <3> QED
      BY <1>1, <1>4, <3>5
  <2> QED
    BY <2>1, <2>2
\* The cluster does not end here.
<1>15. table[e] = 0 /\ P(at) < P(e)
  <2>1. table[e] = 0
    BY <1>6, <1>8
  <2>2. e # at
    BY <1>8, <2>1
  <2>3. P(e) # P(at) /\ P(e) \in Nat /\ P(at) \in Nat
    BY <1>1, <1>4, <1>5, <2>2
  <2> QED
    BY <1>8, <2>1, <2>3
<1>16. P(at) + 1 < cLookupCapacity /\ P(at) + 1 <= P(e)
  BY <1>1, <1>4, <1>15, HalfFull
<1>17. NextBucket(at) \in Buckets /\ P(NextBucket(at)) = P(at) + 1
  BY <1>1, <1>16, Probing DEF P
<1>18. ASSUME NEW b \in Buckets, P(at) + 1 <= P(b) PROVE in[b] = cleared[b]
  <2>1. P(b) \in Nat /\ P(at) \in Nat /\ P(f) \in Nat
    BY <1>1, <1>4
  <2>2. b # at /\ b # f /\ P(at) <= P(b)
    BY <1>14, <1>18, <2>1
  <2> QED
    BY <1>6, <1>10, <1>13, <2>2
<1>19. ASSUME NEW b \in Buckets, NEW c \in Buckets, Missing(hash, recId, in, b, c)
       PROVE  P(b) < P(at) + 1 /\ P(at) + 1 <= P(c)
  <2>1. b # f /\ in[b] = out[b] /\ out[b] = 0
    BY <1>2, <1>13, <1>19 DEF Missing
  <2>2. c # f
    <3> SUFFICES ASSUME c = f PROVE FALSE
      OBVIOUS
    <3>1. in[c] - 1 = s
      BY <1>2, <1>13
    <3>2. ProbesTo(home, b) < ProbesTo(home, f)
      BY <1>19, <3>1 DEF Missing, home
    <3> QED
      BY <1>11, <2>1, <3>2
  <2>3. c # at /\ in[c] = table[c] /\ table[c] # 0
    BY <1>10, <1>13, <1>19, <2>2 DEF Missing
  <2>4. P(b) \in Nat /\ P(c) \in Nat /\ P(at) \in Nat /\ P(e) \in Nat /\ P(c) # P(at)
    BY <1>1, <1>4, <1>5, <2>3
  <2> DEFINE other == hash[recId[table[c] - 1]]
  <2>5. other \in Buckets
    BY <1>1, <2>3, EntryIs
  <2>6. ProbesTo(other, b) < ProbesTo(other, c)
    BY <1>19, <2>3 DEF Missing
  <2>7. CASE b # at
    <3>1. table[b] = 0
      BY <1>10, <2>1, <2>7
    <3>2. Missing(hash, recId, table, b, c)
      BY <2>3, <2>6, <3>1 DEF Missing
    <3>3. P(b) < P(at) /\ P(at) <= P(c)
      BY <1>6, <3>2
    <3> QED
      BY <2>4, <3>3
  \* The bucket where the code is may be missing now, but not behind it.
  <2>8. CASE b = at
    <3>1. ASSUME P(c) < P(at) PROVE FALSE
      <4>1. ProbesTo(other, e) < ProbesTo(other, c)
        <5>1. P(c) < P(b) /\ P(b) < P(e)
          BY <1>15, <2>8, <3>1
        <5> HIDE DEF other
        <5> QED
          BY <2>5, <2>6, <5>1, Passing DEF P
      <4>2. Missing(hash, recId, table, e, c)
        BY <1>15, <2>3, <4>1 DEF Missing
      <4>3. P(e) < P(at)
        BY <1>6, <4>2
      <4> QED
        BY <1>15, <2>4, <4>3
    <3> QED
      BY <2>4, <2>8, <3>1
  <2> QED
    BY <2>7, <2>8
<1> DEFINE y == [table |-> in, at |-> NextBucket(at)]
<1>20. y.table = in /\ y.at = NextBucket(at) /\ y \in Positions
  BY <1>12, <1>17 DEF Positions
<1>21. Reinserted[x] = y
  BY <1>7, <1>11 DEF in
<1> HIDE DEF y
<1>22. \A b \in Buckets : P(y.at) <= P(b) => y.table[b] = cleared[b]
  BY <1>17, <1>18, <1>20
<1>23. \A b, c \in Buckets : Missing(hash, recId, y.table, b, c) =>
         P(b) < P(y.at) /\ P(y.at) <= P(c)
  BY <1>17, <1>19, <1>20
<1>24. Mending(slots, cleared, from, y)
  BY <1>12, <1>20, <1>22, <1>23 DEF Mending, P
<1> QED
  BY <1>16, <1>17, <1>20, <1>21, <1>24 DEF P, at

\* At an empty bucket nothing is missing any more.
LEMMA MendingEnds ==
  ASSUME hash \in Homes, recId \in RecordIds, NEW slots \in SUBSET UsedSlots(recId),
         NEW cleared, NEW from \in Buckets,
         NEW x, Mending(slots, cleared, from, x), x.table[x.at] = 0,
         NEW b \in Buckets, NEW c \in Buckets, Missing(hash, recId, x.table, b, c)
  PROVE  FALSE
<1> DEFINE home == hash[recId[x.table[c] - 1]]
<1>1. x.table \in Tables /\ x.at \in Buckets /\ Lists(x.table, slots)
  BY DEF Mending, Positions
<1>2. x.table[c] # 0 /\ ProbesTo(home, b) < ProbesTo(home, c)
  BY DEF Missing
<1>3. home \in Buckets
  BY <1>1, <1>2, EntryIs
<1>4. ProbesTo(from, b) < ProbesTo(from, x.at) /\ ProbesTo(from, x.at) <= ProbesTo(from, c)
  BY DEF Mending
<1>5. /\ ProbesTo(from, b) \in Nat /\ ProbesTo(from, c) \in Nat
      /\ ProbesTo(from, x.at) \in Nat /\ ProbesTo(from, c) # ProbesTo(from, x.at)
  <2>1. c # x.at
    BY <1>2
  <2> QED
    BY <1>1, <2>1, Probing
<1>6. ProbesTo(from, x.at) < ProbesTo(from, c)
  BY <1>4, <1>5
<1>7. ProbesTo(home, x.at) < ProbesTo(home, c)
  <2> HIDE DEF home
  <2> QED
    BY <1>1, <1>2, <1>3, <1>4, <1>6, Passing
<1>8. Missing(hash, recId, x.table, x.at, c)
  BY <1>2, <1>7 DEF Missing
<1>9. ProbesTo(from, x.at) < ProbesTo(from, x.at)
  BY <1>1, <1>8 DEF Mending
<1> QED
  BY <1>5, <1>9

\* The whole reinsertion: it comes to an empty bucket before it is back where it began.
LEMMA ReinsertionMends ==
  ASSUME Exact(hash, recId, pLookup), NEW s \in UsedSlots(recId),
         NEW from \in Buckets, pLookup[from] = s + 1
  PROVE  LET table == ReinsertCluster([pLookup EXCEPT ![from] = 0], NextBucket(from))
         IN  /\ table \in Tables /\ Lists(table, UsedSlots(recId) \ {s})
             /\ \A b, c \in Buckets : ~Missing(hash, recId, table, b, c)
<1> DEFINE cleared == [pLookup EXCEPT ![from] = 0]
           slots == UsedSlots(recId) \ {s}
           start == [table |-> cleared, at |-> NextBucket(from)]
           turn == Iterates(Reinserted, start, cLookupCapacity)
           P(b) == ProbesTo(from, b)
<1>1. /\ hash \in Homes /\ recId \in RecordIds /\ pLookup \in Tables
      /\ Lists(pLookup, UsedSlots(recId)) /\ slots \in SUBSET UsedSlots(recId)
      /\ UsedSlots(recId) \in SUBSET RecordSlots /\ cLookupCapacity \in Nat
  BY HalfFull DEF Exact, UsedSlots
<1>2. PICK e \in Buckets : pLookup[e] = 0
  BY <1>1, EmptyBucket
<1> DEFINE Fine(x, k) ==
             /\ Mending(slots, cleared, from, x) /\ P(x.at) <= P(e)
             /\ x.table[x.at] = 0 \/ P(x.at) >= k + 1
<1>3. cleared \in Tables /\ cleared[e] = 0 /\ e # from
  <2>1. s + 1 # 0
    BY <1>1 DEF RecordSlots
  <2> QED
    BY <1>1, <1>2, <2>1 DEF Tables
<1>4. Mending(slots, cleared, from, start)
  BY ClearingStarts
<1>5. P(NextBucket(from)) = 1 /\ P(from) = 0 /\ P(e) # 0
  <2>1. P(NextBucket(from)) = 1 /\ P(from) = 0 /\ (P(e) = P(from) => e = from)
    BY <1>2, Probing
  <2> QED
    BY <1>3, <2>1
<1>6. \A b \in Buckets : P(b) \in Nat /\ P(b) < cLookupCapacity
  <2> SUFFICES ASSUME NEW b \in Buckets PROVE P(b) \in Nat /\ P(b) < cLookupCapacity
    OBVIOUS
  <2>1. P(b) \in 0 .. cLookupCapacity - 1
    BY Probing
  <2> HIDE DEF P
  <2> QED
    BY <1>1, <2>1
<1>7. turn[0] = start /\ \A k \in 1 .. cLookupCapacity : turn[k] = Reinserted[turn[k - 1]]
  <2> HIDE DEF start
  <2> QED
    BY <1>1, IterationIs
<1>8. start.at = NextBucket(from)
  OBVIOUS
<1> HIDE DEF turn, start, cleared, slots, P
<1>9. Fine(turn[0], 0)
  <2>1. P(start.at) <= P(e) /\ P(start.at) >= 0 + 1
    BY <1>2, <1>5, <1>6, <1>8
  <2> QED
    BY <1>4, <1>7, <2>1
<1>10. ASSUME NEW k \in 1 .. cLookupCapacity, Fine(turn[k - 1], k - 1) PROVE Fine(turn[k], k)
  <2> DEFINE x == turn[k - 1]
  <2>1. turn[k] = Reinserted[x]
    BY <1>7
  <2>2. Mending(slots, cleared, from, x) /\ P(x.at) <= P(e)
    BY <1>10
  <2>3. x.table[x.at] = 0 \/ P(x.at) >= k
    BY <1>10
  <2> HIDE DEF x
  <2>4. x \in Positions /\ x.at \in Buckets /\ P(x.at) \in Nat
    BY <1>6, <2>2 DEF Mending, Positions
  <2>5. CASE x.table[x.at] = 0
    <3>1. Reinserted[x] = x
      BY <2>4, <2>5 DEF Reinserted, Positions
    <3> QED
      BY <2>1, <2>2, <2>5, <3>1
  <2>6. CASE x.table[x.at] # 0
    <3>1. /\ Mending(slots, cleared, from, Reinserted[x])
          /\ P(Reinserted[x].at) = P(x.at) + 1
          /\ P(x.at) + 1 <= P(e)
      BY <1>1, <1>2, <1>3, <2>2, <2>6, TurnMends DEF P
    <3>2. P(Reinserted[x].at) <= P(e) /\ P(Reinserted[x].at) >= k + 1
      BY <2>3, <2>4, <2>6, <3>1
    <3> QED
      BY <2>1, <3>1, <3>2
  <2> QED
    BY <2>5, <2>6
<1> HIDE DEF Fine
<1>11. Fine(turn[cLookupCapacity], cLookupCapacity)
  <2> DEFINE bad == {k \in 0 .. cLookupCapacity : ~Fine(turn[k], k)}
  <2>1. ASSUME bad # {} PROVE FALSE
    <3>1. bad \subseteq Nat
      BY <1>1
    <3>2. PICK k \in bad : \A m \in bad : k <= m
      <4> HIDE DEF bad
      <4> QED
        BY <2>1, <3>1, LeastNumber
    <3>3. k # 0
      BY <1>9, <3>2
    <3>4. k \in 1 .. cLookupCapacity /\ k - 1 \in 0 .. cLookupCapacity /\ k - 1 \notin bad
      BY <1>1, <3>2, <3>3
    <3>5. Fine(turn[k - 1], k - 1)
      BY <3>4
    <3>6. Fine(turn[k], k)
      BY <1>10, <3>4, <3>5
    <3> QED
      BY <3>2, <3>6
  <2>2. cLookupCapacity \in 0 .. cLookupCapacity
    BY <1>1
  <2> QED
    BY <2>1, <2>2
<1> DEFINE last == turn[cLookupCapacity]
<1> HIDE DEF last
<1>12. Mending(slots, cleared, from, last) /\ last.table[last.at] = 0
  <2>1. /\ Mending(slots, cleared, from, last)
        /\ last.table[last.at] = 0 \/ P(last.at) >= cLookupCapacity + 1
    BY <1>11 DEF Fine, last
  <2>2. last.at \in Buckets
    BY <2>1 DEF Mending, Positions
  <2>3. P(last.at) \in Nat /\ P(last.at) < cLookupCapacity
    BY <1>6, <2>2
  <2> QED
    BY <1>1, <2>1, <2>3
<1>13. last.table \in Tables /\ Lists(last.table, slots)
  BY <1>12 DEF Mending, Positions
<1>14. \A b, c \in Buckets : ~Missing(hash, recId, last.table, b, c)
  BY <1>1, <1>12, MendingEnds
<1>15. ReinsertCluster(cleared, NextBucket(from)) = last.table
  BY DEF ReinsertCluster, last, turn, start
<1> QED
  BY <1>13, <1>14, <1>15 DEF cleared, slots

\* RemoveLookup finds the entry of its record.
LEMMA EntryFound ==
  ASSUME Exact(hash, recId, pLookup), NEW s \in UsedSlots(recId)
  PROVE  \E from \in Buckets :
           /\ pLookup[from] = s + 1
           /\ LookupRemoved(s) =
                ReinsertCluster([pLookup EXCEPT ![from] = 0], NextBucket(from))
<1> DEFINE home == hash[recId[s]]
           stops == {b \in Buckets : pLookup[b] \in {0, s + 1}}
           first == FirstProbed(home, stops)
<1>1. PICK from \in Buckets : pLookup[from] = s + 1
  BY DEF Exact, Lists
<1>2. home \in Buckets /\ s \in Nat /\ s + 1 # 0 /\ s + 1 - 1 = s
  BY DEF Exact, Homes, RecordIds, UsedSlots, RecordSlots
<1>3. from \in stops /\ stops \in SUBSET Buckets
  BY <1>1
<1>4. first \in stops /\ ProbesTo(home, first) <= ProbesTo(home, from)
  <2> HIDE DEF stops, home
  <2> QED
    BY <1>2, <1>3, FirstIsMet
<1>5. LookupRemoved(s) = IF stops = {} \/ pLookup[first] = 0 THEN pLookup
                         ELSE ReinsertCluster([pLookup EXCEPT ![first] = 0], NextBucket(first))
  BY DEF LookupRemoved
<1> HIDE DEF first
<1>6. pLookup[first] # 0
  <2> SUFFICES ASSUME pLookup[first] = 0 PROVE FALSE
    OBVIOUS
  <2>1. first \in Buckets /\ first # from
    BY <1>1, <1>2, <1>4
  <2>2. /\ ProbesTo(home, first) # ProbesTo(home, from)
        /\ ProbesTo(home, first) \in Nat /\ ProbesTo(home, from) \in Nat
    <3> HIDE DEF home
    <3> QED
      BY <1>2, <2>1, Probing
  <2>3. ProbesTo(home, first) < ProbesTo(home, from)
    BY <1>4, <2>2
  <2>4. pLookup[from] - 1 = s /\ pLookup[from] # 0
    BY <1>1, <1>2
  <2>5. Missing(hash, recId, pLookup, first, from)
    BY <2>3, <2>4 DEF Missing
  <2> QED
    BY <2>1, <2>5 DEF Exact
<1>7. first \in Buckets /\ pLookup[first] = s + 1 /\ stops # {}
  BY <1>4, <1>6
<1> HIDE DEF stops
<1>8. LookupRemoved(s) = ReinsertCluster([pLookup EXCEPT ![first] = 0], NextBucket(first))
  BY <1>5, <1>6, <1>7
<1> QED
  BY <1>7, <1>8

\* RemoveLookup and RecycleRecord keep the table exact.
LEMMA RemovalExact ==
  ASSUME Exact(hash, recId, pLookup), NEW s \in UsedSlots(recId)
  PROVE  Exact(hash, [recId EXCEPT ![s] = NoRecord], LookupRemoved(s))
<1> DEFINE ids == [recId EXCEPT ![s] = NoRecord]
           slots == UsedSlots(recId) \ {s}
<1>1. PICK from \in Buckets :
        /\ pLookup[from] = s + 1
        /\ LookupRemoved(s) = ReinsertCluster([pLookup EXCEPT ![from] = 0], NextBucket(from))
  BY EntryFound
<1> DEFINE table == LookupRemoved(s)
<1>2. /\ table \in Tables /\ Lists(table, slots)
      /\ \A b, c \in Buckets : ~Missing(hash, recId, table, b, c)
  BY <1>1, ReinsertionMends
<1>3. /\ ids \in RecordIds /\ s \in RecordSlots /\ ids[s] = NoRecord
      /\ \A r \in RecordSlots \ {s} : ids[r] = recId[r]
  BY DEF Exact, RecordIds, UsedSlots
<1> HIDE DEF ids, table
<1>4. UsedSlots(ids) = slots
  BY <1>3 DEF UsedSlots
<1>5. \A r \in slots : ids[r] = recId[r]
  BY <1>3 DEF UsedSlots
<1>6. \A r, t \in UsedSlots(ids) : ids[r] = ids[t] => r = t
  BY <1>4, <1>5 DEF Exact
<1>7. ASSUME NEW b \in Buckets, NEW c \in Buckets, Missing(hash, ids, table, b, c) PROVE FALSE
  <2>1. table[c] - 1 \in slots
    BY <1>2, <1>7 DEF Missing, Lists
  <2>2. ids[table[c] - 1] = recId[table[c] - 1]
    BY <1>5, <2>1
  <2>3. Missing(hash, recId, table, b, c)
    BY <1>7, <2>2 DEF Missing
  <2> QED
    BY <1>2, <2>3
<1>8. Exact(hash, ids, table)
  <2>1. hash \in Homes
    BY DEF Exact
  <2> HIDE DEF slots
  <2> QED
    BY <1>2, <1>3, <1>4, <1>6, <1>7, <2>1 DEF Exact
<1> QED
  BY <1>8 DEF ids, table

-----------------------------------------------------------------------------
(* The lists. *)

\* The links from head lead through the list and end there.
Chain(links, head, list) ==
  /\ head = IF Len(list) = 0 THEN NoRecord ELSE list[1]
  /\ \A k \in 1 .. Len(list) :
       links[list[k]] = IF k = Len(list) THEN NoRecord ELSE list[k + 1]

\* What a list of records holds.
LEMMA ListIs ==
  ASSUME NEW list \in Seq(RecordSlots)
  PROVE  /\ Len(list) \in Nat /\ DOMAIN list = 1 .. Len(list)
         /\ \A k \in 1 .. Len(list) :
              list[k] \in RecordSlots /\ list[k] # NoRecord /\ list[k] \in Members(list)
<1>1. Len(list) \in Nat /\ DOMAIN list = 1 .. Len(list)
  BY LenProperties
<1>2. \A k \in 1 .. Len(list) : list[k] \in RecordSlots
  BY ElementOfSeq
<1> QED
  BY <1>1, <1>2, TableAssumption DEF Members

\* A list that names no record twice is no longer than there are records.
LEMMA ListsEnd ==
  ASSUME NEW list \in Seq(RecordSlots), Injective(list)
  PROVE  Len(list) <= SlotCount
<1>1. Len(list) \in Nat /\ DOMAIN list = 1 .. Len(list) /\ list \in [1 .. Len(list) -> RecordSlots]
  BY LenProperties
<1>2. SlotCount \in Nat \ {0}
  BY HalfFull
<1> SUFFICES ASSUME Len(list) > SlotCount PROVE FALSE
  BY <1>1, <1>2
<1>3. IsFiniteSet(1 .. Len(list)) /\ Cardinality(1 .. Len(list)) = Len(list)
  <2>1. 1 \in Int /\ Len(list) \in Int /\ ~(1 > Len(list))
    BY <1>1, <1>2
  <2>2. /\ IsFiniteSet(1 .. Len(list))
        /\ Cardinality(1 .. Len(list)) = Len(list) - 1 + 1
    BY <2>1, FS_Interval
  <2> QED
    BY <1>1, <2>2
<1>4. IsFiniteSet(RecordSlots) /\ Cardinality(RecordSlots) = SlotCount
  <2>1. 0 \in Int /\ SlotCount - 1 \in Int /\ ~(0 > SlotCount - 1)
    BY <1>2
  <2>2. /\ IsFiniteSet(0 .. SlotCount - 1)
        /\ Cardinality(0 .. SlotCount - 1) = SlotCount - 1 - 0 + 1
    BY <2>1, FS_Interval
  <2> QED
    BY <1>2, <2>2 DEF RecordSlots
<1>5. \E i, j \in 1 .. Len(list) : i # j /\ list[i] = list[j]
  BY <1>1, <1>2, <1>3, <1>4, FS_PigeonHole
<1> QED
  BY <1>1, <1>5 DEF Injective

\* Following the links of a list yields the list.
LEMMA WalkIs ==
  ASSUME NEW links, NEW head, NEW list \in Seq(RecordSlots), Injective(list),
         Chain(links, head, list)
  PROVE  Walk(links, head) = list
<1> DEFINE follow == [t \in RecordSlots \union {NoRecord} |->
                        IF t = NoRecord THEN NoRecord ELSE links[t]]
           at == Iterates(follow, head, SlotCount)
           n == Len(list)
           ends == {k \in 0 .. SlotCount : at[k] = NoRecord}
           length == IF ends = {} THEN SlotCount + 1
                     ELSE CHOOSE k \in ends : \A m \in ends : k <= m
<1>1. /\ n \in Nat /\ n <= SlotCount /\ SlotCount \in Nat /\ DOMAIN list = 1 .. n
      /\ \A k \in 1 .. n : list[k] \in RecordSlots /\ list[k] # NoRecord
  BY ListIs, ListsEnd, HalfFull
<1>2. /\ head = IF n = 0 THEN NoRecord ELSE list[1]
      /\ \A k \in 1 .. n : links[list[k]] = IF k = n THEN NoRecord ELSE list[k + 1]
  BY DEF Chain
<1>3. at[0] = head /\ \A k \in 1 .. SlotCount : at[k] = follow[at[k - 1]]
  <2> HIDE DEF follow
  <2> QED
    BY <1>1, IterationIs
<1>4. /\ follow[NoRecord] = NoRecord
      /\ \A k \in 1 .. n : follow[list[k]] = IF k = n THEN NoRecord ELSE list[k + 1]
  BY <1>1, <1>2
<1> HIDE DEF at, follow, n
<1> DEFINE Right(k) == at[k] = IF k < n THEN list[k + 1] ELSE NoRecord
<1>5. Right(0)
  BY <1>1, <1>2, <1>3
<1>6. ASSUME NEW k \in 1 .. SlotCount, Right(k - 1) PROVE Right(k)
  <2>1. at[k] = follow[at[k - 1]]
    BY <1>3
  <2>2. CASE k - 1 < n
    <3>1. k \in 1 .. n /\ at[k - 1] = list[k]
      BY <1>1, <1>6, <2>2
    <3>2. at[k] = IF k = n THEN NoRecord ELSE list[k + 1]
      BY <1>4, <2>1, <3>1
    <3> QED
      BY <1>1, <3>1, <3>2
  <2>3. CASE ~(k - 1 < n)
    <3>1. at[k - 1] = NoRecord /\ ~(k < n)
      BY <1>1, <1>6, <2>3
    <3> QED
      BY <1>4, <2>1, <3>1
  <2> QED
    BY <2>2, <2>3
<1> HIDE DEF Right
<1>7. \A k \in 0 .. SlotCount : Right(k)
  <2> DEFINE wrong == {k \in 0 .. SlotCount : ~Right(k)}
  <2>1. ASSUME wrong # {} PROVE FALSE
    <3>1. wrong \subseteq Nat
      BY <1>1
    <3>2. PICK k \in wrong : \A m \in wrong : k <= m
      <4> HIDE DEF wrong
      <4> QED
        BY <2>1, <3>1, LeastNumber
    <3>3. k \in 1 .. SlotCount /\ k - 1 \in 0 .. SlotCount /\ k - 1 \notin wrong
      BY <1>1, <1>5, <3>2
    <3>4. Right(k)
      BY <1>6, <3>3
    <3> QED
      BY <3>2, <3>4
  <2> QED
    BY <2>1
<1>8. n \in ends /\ \A m \in ends : n <= m
  <2>1. n \in ends
    BY <1>1, <1>7 DEF Right
  <2>2. ASSUME NEW m \in ends PROVE n <= m
    <3>1. m \in 0 .. SlotCount /\ at[m] = NoRecord
      OBVIOUS
    <3>2. ASSUME m < n PROVE FALSE
      <4>1. m + 1 \in 1 .. n /\ at[m] = list[m + 1]
        BY <1>1, <1>7, <3>1, <3>2 DEF Right
      <4> QED
        BY <1>1, <3>1, <4>1
    <3> QED
      BY <1>1, <3>1, <3>2
  <2> QED
    BY <2>1, <2>2
<1>9. length = n
  <2>1. \A k \in ends : k \in Nat
    BY <1>1
  <2>2. \A k \in ends : (\A m \in ends : k <= m) => k = n
    BY <1>1, <1>8, <2>1
  <2> HIDE DEF ends
  <2> QED
    BY <1>8, <2>2
<1>10. Walk(links, head) = [k \in 1 .. length |-> at[k - 1]]
  BY DEF Walk, at, follow
<1> HIDE DEF length
<1>11. \A k \in 1 .. n : at[k - 1] = list[k]
  BY <1>1, <1>7 DEF Right
<1>12. list = [k \in 1 .. n |-> list[k]]
  BY <1>1
<1> QED
  BY <1>9, <1>10, <1>11, <1>12

Links == [RecordSlots -> RecordSlots \union {NoRecord}]

\* The free list names the records that are not in use.
FreeSound(ids, head, next, list) ==
  /\ next \in Links /\ list \in Seq(RecordSlots) /\ Injective(list)
  /\ Members(list) = RecordSlots \ UsedSlots(ids)
  /\ Chain(next, head, list)

\* The live list names records in use, and can be followed from either end.
LiveSound(ids, head, tail, previous, next, list) ==
  /\ previous \in Links /\ next \in Links
  /\ list \in Seq(RecordSlots) /\ Injective(list)
  /\ Members(list) \subseteq UsedSlots(ids)
  /\ Chain(next, head, list)
  /\ tail = IF Len(list) = 0 THEN NoRecord ELSE list[Len(list)]
  /\ \A k \in 1 .. Len(list) : previous[list[k]] = IF k = 1 THEN NoRecord ELSE list[k - 1]
  /\ \A s \in RecordSlots \ Members(list) : previous[s] = NoRecord

\* AllocateRecord takes the head of the free list.
LEMMA FreeTaken ==
  ASSUME NEW ids \in RecordIds, NEW head, NEW next, NEW list,
         FreeSound(ids, head, next, list), list # <<>>, NEW id \in Identities
  PROVE  /\ head = Head(list) /\ head \in RecordSlots /\ ids[head] = NoRecord
         /\ FreeSound([ids EXCEPT ![head] = id], next[head],
                      [next EXCEPT ![head] = NoRecord], Tail(list))
<1> DEFINE rest == Tail(list)
           n == Len(list)
           more == [ids EXCEPT ![head] = id]
           links == [next EXCEPT ![head] = NoRecord]
<1>1. /\ list \in Seq(RecordSlots) /\ Injective(list) /\ next \in Links
      /\ Members(list) = RecordSlots \ UsedSlots(ids)
  BY DEF FreeSound
<1>2. n \in Nat \ {0} /\ DOMAIN list = 1 .. n
  BY <1>1, EmptySeq, LenProperties
<1>3. /\ head = list[1] /\ Head(list) = list[1]
      /\ \A k \in 1 .. n : next[list[k]] = IF k = n THEN NoRecord ELSE list[k + 1]
  <2>1. head = list[1]
    BY <1>2 DEF FreeSound, Chain
  <2>2. Head(list) = list[1]
    BY <1>1, HeadTailProperties
  <2> QED
    BY <2>1, <2>2 DEF FreeSound, Chain
<1>4. \A k \in 1 .. n : list[k] \in RecordSlots /\ list[k] \in Members(list)
  BY <1>1, ListIs
<1>5. head \in RecordSlots /\ head \notin UsedSlots(ids)
  <2>1. 1 \in 1 .. n
    BY <1>2
  <2>2. head \in Members(list)
    BY <1>3, <1>4, <2>1
  <2> QED
    BY <1>1, <2>2
<1>6. /\ rest \in Seq(RecordSlots) /\ Injective(rest)
      /\ Members(rest) = Members(list) \ {head}
  BY <1>1, <1>3, TailedList
<1>7. Len(rest) = n - 1 /\ \A i \in 1 .. n - 1 : rest[i] = list[i + 1]
  BY <1>1, HeadTailProperties
<1>8. links \in Links /\ \A s \in RecordSlots \ {head} : links[s] = next[s]
  BY <1>1 DEF Links
<1>9. UsedSlots(more) = UsedSlots(ids) \union {head}
  <2>1. id # NoRecord
    BY TableAssumption
  <2> QED
    BY <1>5, <2>1 DEF UsedSlots, RecordIds
<1> HIDE DEF rest, more, n
<1>10. Chain(links, next[head], rest)
  <2>1. next[head] = IF n - 1 = 0 THEN NoRecord ELSE list[2]
    BY <1>2, <1>3
  <2>2. next[head] = IF Len(rest) = 0 THEN NoRecord ELSE rest[1]
    BY <1>2, <1>7, <2>1
  <2>3. ASSUME NEW k \in 1 .. n - 1
        PROVE  links[rest[k]] = IF k = n - 1 THEN NoRecord ELSE rest[k + 1]
    <3>1. k + 1 \in 1 .. n /\ rest[k] = list[k + 1] /\ k + 1 # 1 /\ 1 \in 1 .. n
      BY <1>2, <1>7
    <3>2. list[k + 1] # head
      BY <1>1, <1>2, <1>3, <3>1 DEF Injective
    <3>3. links[rest[k]] = next[list[k + 1]]
      BY <1>4, <1>8, <3>1, <3>2
    <3>4. next[list[k + 1]] = IF k + 1 = n THEN NoRecord ELSE list[k + 2]
      BY <1>3, <3>1
    <3>5. k # n - 1 => rest[k + 1] = list[k + 2]
      BY <1>2, <1>7
    <3> QED
      BY <1>2, <3>3, <3>4, <3>5
  <2> HIDE DEF links
  <2> QED
    BY <1>7, <2>2, <2>3 DEF Chain
<1>11. Members(rest) = RecordSlots \ UsedSlots(more)
  BY <1>1, <1>6, <1>9
<1>12. FreeSound(more, next[head], links, rest)
  BY <1>6, <1>8, <1>10, <1>11 DEF FreeSound
<1>13. ids[head] = NoRecord
  BY <1>5 DEF UsedSlots
<1> QED
  BY <1>3, <1>5, <1>12, <1>13 DEF rest, more

\* RecycleRecord puts a record at the head of the free list.
LEMMA FreeGiven ==
  ASSUME NEW ids \in RecordIds, NEW head, NEW next, NEW list,
         FreeSound(ids, head, next, list), NEW s \in UsedSlots(ids)
  PROVE  FreeSound([ids EXCEPT ![s] = NoRecord], s, [next EXCEPT ![s] = head], <<s>> \o list)
<1> DEFINE more == <<s>> \o list
           n == Len(list)
           less == [ids EXCEPT ![s] = NoRecord]
           links == [next EXCEPT ![s] = head]
<1>1. /\ list \in Seq(RecordSlots) /\ Injective(list) /\ next \in Links
      /\ Members(list) = RecordSlots \ UsedSlots(ids)
  BY DEF FreeSound
<1>2. n \in Nat /\ DOMAIN list = 1 .. n
      /\ \A k \in 1 .. n : list[k] \in RecordSlots /\ list[k] \in Members(list)
  BY <1>1, ListIs
<1>3. /\ head = IF n = 0 THEN NoRecord ELSE list[1]
      /\ \A k \in 1 .. n : next[list[k]] = IF k = n THEN NoRecord ELSE list[k + 1]
  BY DEF FreeSound, Chain
<1>4. s \in RecordSlots /\ s \notin Members(list)
  BY <1>1 DEF UsedSlots
<1>5. /\ more \in Seq(RecordSlots) /\ Injective(more)
      /\ Members(more) = Members(list) \union {s}
  BY <1>1, <1>4, ConsedList
<1>6. /\ Len(more) = n + 1 /\ more[1] = s
      /\ \A k \in 1 .. n : more[k + 1] = list[k]
  <2>1. <<s>> \in Seq(RecordSlots) /\ Len(<<s>>) = 1 /\ <<s>>[1] = s
    BY <1>4
  <2>2. /\ Len(more) = 1 + n
        /\ \A i \in 1 .. 1 + n : more[i] = IF i <= 1 THEN <<s>>[i] ELSE list[i - 1]
    BY <1>1, <2>1, ConcatProperties
  <2> HIDE DEF more
  <2>3. more[1] = s
    BY <1>2, <2>1, <2>2
  <2>4. ASSUME NEW k \in 1 .. n PROVE more[k + 1] = list[k]
    <3>1. k + 1 \in 1 .. 1 + n /\ ~(k + 1 <= 1) /\ k + 1 - 1 = k
      BY <1>2
    <3> QED
      BY <2>2, <3>1
  <2> QED
    BY <1>2, <2>2, <2>3, <2>4
<1>7. head \in RecordSlots \union {NoRecord}
  BY <1>2, <1>3
<1>8. links \in Links /\ links[s] = head /\ \A t \in RecordSlots \ {s} : links[t] = next[t]
  BY <1>1, <1>4, <1>7 DEF Links
<1>9. UsedSlots(less) = UsedSlots(ids) \ {s}
  BY <1>4 DEF UsedSlots, RecordIds
<1> HIDE DEF more, less, links, n
<1>10. Chain(links, s, more)
  <2>1. ASSUME NEW k \in 1 .. n + 1
        PROVE  links[more[k]] = IF k = n + 1 THEN NoRecord ELSE more[k + 1]
    <3>1. CASE k = 1
      <4>1. links[more[k]] = head
        BY <1>6, <1>8, <3>1
      <4>2. n # 0 => more[k + 1] = list[1]
        BY <1>2, <1>6, <3>1
      <4> QED
        BY <1>2, <1>3, <3>1, <4>1, <4>2
    <3>2. CASE k # 1
      <4>1. k - 1 \in 1 .. n /\ more[k] = list[k - 1]
        <5>1. k - 1 \in 1 .. n /\ (k - 1) + 1 = k
          BY <1>2, <3>2
        <5> QED
          BY <1>6, <5>1
      <4>2. links[more[k]] = next[list[k - 1]]
        BY <1>2, <1>4, <1>8, <4>1
      <4>3. next[list[k - 1]] = IF k - 1 = n THEN NoRecord ELSE list[k]
        BY <1>2, <1>3, <4>1
      <4>4. k # n + 1 => more[k + 1] = list[k]
        BY <1>2, <1>6
      <4> QED
        BY <1>2, <4>2, <4>3, <4>4
    <3> QED
      BY <3>1, <3>2
  <2> QED
    BY <1>2, <1>6, <2>1 DEF Chain
<1>11. Members(more) = RecordSlots \ UsedSlots(less)
  BY <1>1, <1>4, <1>5, <1>9 DEF UsedSlots
<1> QED
  BY <1>5, <1>8, <1>10, <1>11 DEF FreeSound, more, less, links

\* IsLive asks whether a record is in the live list.
LEMMA LiveAsked ==
  ASSUME NEW list,
         LiveSound(recId, iLiveHead, iLiveTail, iPreviousLive, iNextLive, list),
         NEW s \in RecordSlots
  PROVE  IsLive(s) <=> s \in Members(list)
<1>1. /\ Len(list) \in Nat /\ DOMAIN list = 1 .. Len(list)
      /\ \A k \in 1 .. Len(list) :
           list[k] \in RecordSlots /\ list[k] # NoRecord /\ list[k] \in Members(list)
  BY ListIs DEF LiveSound
<1>2. /\ iLiveHead = IF Len(list) = 0 THEN NoRecord ELSE list[1]
      /\ \A k \in 1 .. Len(list) :
           iPreviousLive[list[k]] = IF k = 1 THEN NoRecord ELSE list[k - 1]
      /\ \A t \in RecordSlots \ Members(list) : iPreviousLive[t] = NoRecord
  BY DEF LiveSound, Chain
<1>3. ASSUME s \in Members(list) PROVE IsLive(s)
  <2>1. PICK k \in 1 .. Len(list) : list[k] = s
    BY <1>1, <1>3 DEF Members
  <2>2. CASE k = 1
    BY <1>1, <1>2, <2>1, <2>2 DEF IsLive
  <2>3. CASE k # 1
    <3>1. k - 1 \in 1 .. Len(list)
      BY <1>1, <2>3
    <3>2. iPreviousLive[s] = list[k - 1]
      BY <1>2, <2>1, <2>3
    <3>3. iPreviousLive[s] # NoRecord
      BY <1>1, <3>1, <3>2
    <3> QED
      BY <3>3 DEF IsLive
  <2> QED
    BY <2>2, <2>3
<1>4. ASSUME s \notin Members(list) PROVE ~IsLive(s)
  <2>1. iPreviousLive[s] = NoRecord
    BY <1>2, <1>4
  <2>2. iLiveHead # s
    <3>1. Len(list) # 0 => 1 \in 1 .. Len(list)
      BY <1>1
    <3>2. Len(list) # 0 => list[1] \in Members(list)
      BY <1>1, <3>1
    <3>3. s # NoRecord
      BY TableAssumption
    <3> QED
      BY <1>2, <1>4, <3>2, <3>3
  <2> QED
    BY <2>1, <2>2 DEF IsLive
<1> QED
  BY <1>3, <1>4

\* AppendLiveRecord puts a record at the end of the live list.
LEMMA LiveAppended ==
  ASSUME recId \in RecordIds, NEW list,
         LiveSound(recId, iLiveHead, iLiveTail, iPreviousLive, iNextLive, list),
         NEW s \in UsedSlots(recId), s \notin Members(list), AppendLiveRecord(s)
  PROVE  LiveSound(recId, iLiveHead', iLiveTail', iPreviousLive', iNextLive', Append(list, s))
<1> DEFINE more == Append(list, s)
           n == Len(list)
<1>1. /\ list \in Seq(RecordSlots) /\ Injective(list) /\ s \in RecordSlots
      /\ Members(list) \subseteq UsedSlots(recId)
      /\ iPreviousLive \in Links /\ iNextLive \in Links
  BY DEF LiveSound, UsedSlots
<1>2. n \in Nat /\ DOMAIN list = 1 .. n
      /\ \A k \in 1 .. n :
           list[k] \in RecordSlots /\ list[k] # NoRecord /\ list[k] \in Members(list)
  BY <1>1, ListIs
<1>3. /\ iLiveHead = IF n = 0 THEN NoRecord ELSE list[1]
      /\ iLiveTail = IF n = 0 THEN NoRecord ELSE list[n]
      /\ \A k \in 1 .. n : iNextLive[list[k]] = IF k = n THEN NoRecord ELSE list[k + 1]
      /\ \A k \in 1 .. n : iPreviousLive[list[k]] = IF k = 1 THEN NoRecord ELSE list[k - 1]
      /\ \A t \in RecordSlots \ Members(list) : iPreviousLive[t] = NoRecord
  BY DEF LiveSound, Chain
<1>4. /\ more \in Seq(RecordSlots) /\ Injective(more)
      /\ Members(more) = Members(list) \union {s}
  BY <1>1, AppendedList
<1>5. /\ Len(more) = n + 1 /\ more[n + 1] = s
      /\ \A k \in 1 .. n : more[k] = list[k]
  BY <1>1, AppendedSeq
<1>6. /\ iPreviousLive' = [iPreviousLive EXCEPT ![s] = iLiveTail]
      /\ iNextLive' = [t \in RecordSlots |-> IF t = s THEN NoRecord
                                       ELSE IF t = iLiveTail THEN s ELSE iNextLive[t]]
      /\ iLiveHead' = IF iLiveTail = NoRecord THEN s ELSE iLiveHead
      /\ iLiveTail' = s
  BY DEF AppendLiveRecord
<1>7. iLiveTail \in RecordSlots \union {NoRecord}
  <2>1. n # 0 => n \in 1 .. n
    BY <1>2
  <2> QED
    BY <1>2, <1>3, <2>1
<1>8. iPreviousLive' \in Links /\ iNextLive' \in Links
  BY <1>1, <1>6, <1>7 DEF Links
<1>9. /\ iPreviousLive'[s] = iLiveTail
      /\ \A t \in RecordSlots \ {s} : iPreviousLive'[t] = iPreviousLive[t]
      /\ iNextLive'[s] = NoRecord
      /\ \A t \in RecordSlots \ {s} : iNextLive'[t] = IF t = iLiveTail THEN s ELSE iNextLive[t]
  BY <1>1, <1>6 DEF Links
<1> HIDE DEF more, n
<1>10. \A k \in 1 .. n : list[k] # s
  BY <1>2
<1>11. \A k \in 1 .. n : list[k] = iLiveTail <=> k = n
  <2> SUFFICES ASSUME NEW k \in 1 .. n PROVE list[k] = iLiveTail <=> k = n
    OBVIOUS
  <2>1. n \in 1 .. n /\ iLiveTail = list[n]
    BY <1>2, <1>3
  <2> QED
    BY <1>1, <1>2, <2>1 DEF Injective
<1>12. iLiveHead' = more[1]
  <2>1. CASE n = 0
    BY <1>3, <1>5, <1>6, <2>1
  <2>2. CASE n # 0
    <3>1. n \in 1 .. n /\ 1 \in 1 .. n
      BY <1>2, <2>2
    <3>2. iLiveTail # NoRecord
      BY <1>2, <1>3, <2>2, <3>1
    <3> QED
      BY <1>3, <1>5, <1>6, <2>2, <3>1, <3>2
  <2> QED
    BY <2>1, <2>2
<1>13. ASSUME NEW k \in 1 .. n + 1
       PROVE  iNextLive'[more[k]] = IF k = n + 1 THEN NoRecord ELSE more[k + 1]
  <2>1. CASE k = n + 1
    BY <1>5, <1>9, <2>1
  <2>2. CASE k = n
    <3>1. k \in 1 .. n /\ k # n + 1
      BY <1>2, <2>2
    <3>2. more[k] = list[k] /\ list[k] \in RecordSlots \ {s} /\ list[k] = iLiveTail
      BY <1>2, <1>5, <1>10, <1>11, <2>2, <3>1
    <3> QED
      BY <1>5, <1>9, <2>2, <3>1, <3>2
  <2>3. CASE k # n /\ k # n + 1
    <3>1. k \in 1 .. n /\ k + 1 \in 1 .. n
      BY <1>2, <2>3
    <3>2. more[k] = list[k] /\ list[k] \in RecordSlots \ {s} /\ list[k] # iLiveTail
      BY <1>2, <1>5, <1>10, <1>11, <2>3, <3>1
    <3>3. iNextLive'[more[k]] = list[k + 1]
      BY <1>3, <1>9, <2>3, <3>1, <3>2
    <3> QED
      BY <1>5, <2>3, <3>1, <3>3
  <2> QED
    BY <2>1, <2>2, <2>3
<1>14. ASSUME NEW k \in 1 .. n + 1
       PROVE  iPreviousLive'[more[k]] = IF k = 1 THEN NoRecord ELSE more[k - 1]
  <2>1. CASE k = n + 1
    <3>1. iPreviousLive'[more[k]] = iLiveTail
      BY <1>5, <1>9, <2>1
    <3>2. n # 0 => k - 1 = n /\ n \in 1 .. n
      BY <1>2, <2>1
    <3>3. n = 0 <=> k = 1
      BY <1>2, <2>1
    <3> QED
      BY <1>3, <1>5, <3>1, <3>2, <3>3
  <2>2. CASE k # n + 1
    <3>1. k \in 1 .. n /\ (k # 1 => k - 1 \in 1 .. n)
      BY <1>2, <2>2
    <3>2. more[k] = list[k] /\ list[k] \in RecordSlots \ {s}
      BY <1>2, <1>5, <1>10, <3>1
    <3>3. iPreviousLive'[more[k]] = IF k = 1 THEN NoRecord ELSE list[k - 1]
      BY <1>3, <1>9, <3>1, <3>2
    <3>4. k # 1 => more[k - 1] = list[k - 1]
      BY <1>5, <3>1
    <3> QED
      BY <3>3, <3>4
  <2> QED
    BY <2>1, <2>2
<1>15. \A t \in RecordSlots \ Members(more) : iPreviousLive'[t] = NoRecord
  BY <1>3, <1>4, <1>9
<1>16. Members(more) \subseteq UsedSlots(recId)
  BY <1>1, <1>4
<1>17. Chain(iNextLive', iLiveHead', more)
  BY <1>2, <1>5, <1>12, <1>13 DEF Chain
<1>18. iLiveTail' = IF Len(more) = 0 THEN NoRecord ELSE more[Len(more)]
  BY <1>2, <1>5, <1>6
<1>19. \A k \in 1 .. Len(more) :
         iPreviousLive'[more[k]] = IF k = 1 THEN NoRecord ELSE more[k - 1]
  BY <1>5, <1>14
<1> QED
  BY <1>4, <1>8, <1>15, <1>16, <1>17, <1>18, <1>19 DEF LiveSound, more

\* RemoveLiveRecord takes a record out of the live list, wherever it is.
LEMMA LiveRemoved ==
  ASSUME recId \in RecordIds, NEW list,
         LiveSound(recId, iLiveHead, iLiveTail, iPreviousLive, iNextLive, list),
         NEW k \in DOMAIN list, RemoveLiveRecord(list[k])
  PROVE  LiveSound(recId, iLiveHead', iLiveTail', iPreviousLive', iNextLive', RemoveAt(list, k))
<1> DEFINE less == RemoveAt(list, k)
           n == Len(list)
           s == list[k]
           before == iPreviousLive[s]
           after == iNextLive[s]
<1>1. /\ list \in Seq(RecordSlots) /\ Injective(list)
      /\ Members(list) \subseteq UsedSlots(recId)
      /\ iPreviousLive \in Links /\ iNextLive \in Links
  BY DEF LiveSound
<1>2. n \in Nat /\ k \in 1 .. n /\ DOMAIN list = 1 .. n
      /\ \A j \in 1 .. n :
           list[j] \in RecordSlots /\ list[j] # NoRecord /\ list[j] \in Members(list)
  BY <1>1, ListIs
<1>3. /\ iLiveHead = IF n = 0 THEN NoRecord ELSE list[1]
      /\ iLiveTail = IF n = 0 THEN NoRecord ELSE list[n]
      /\ \A j \in 1 .. n : iNextLive[list[j]] = IF j = n THEN NoRecord ELSE list[j + 1]
      /\ \A j \in 1 .. n : iPreviousLive[list[j]] = IF j = 1 THEN NoRecord ELSE list[j - 1]
      /\ \A t \in RecordSlots \ Members(list) : iPreviousLive[t] = NoRecord
  BY DEF LiveSound, Chain
<1>4. \A i, j \in 1 .. n : list[i] = list[j] => i = j
  BY <1>1, <1>2 DEF Injective
<1>5. /\ less \in Seq(RecordSlots) /\ Len(less) = n - 1 /\ DOMAIN less = 1 .. n - 1
      /\ \A j \in 1 .. n - 1 : less[j] = IF j < k THEN list[j] ELSE list[j + 1]
  BY <1>1, RemovedSeq
<1>6. Injective(less) /\ Members(less) = Members(list) \ {s}
  <2>1. s \in Members(list)
    BY <1>2
  <2>2. (CHOOSE i \in DOMAIN list : list[i] = s) = k
    BY <1>2, <1>4
  <2>3. Without(list, s) = less
    BY <2>2 DEF Without
  <2>4. Injective(Without(list, s)) /\ Members(Without(list, s)) = Members(list) \ {s}
    <3> HIDE DEF s
    <3> QED
      BY <1>1, <2>1, WithoutList
  <2> QED
    BY <2>3, <2>4
<1>7. /\ iNextLive' = [t \in RecordSlots |-> IF t = s THEN NoRecord
                                       ELSE IF t = before THEN after ELSE iNextLive[t]]
      /\ iPreviousLive' = [t \in RecordSlots |-> IF t = s THEN NoRecord
                                       ELSE IF t = after THEN before ELSE iPreviousLive[t]]
      /\ iLiveHead' = IF before = NoRecord THEN after ELSE iLiveHead
      /\ iLiveTail' = IF after = NoRecord THEN before ELSE iLiveTail
  BY DEF RemoveLiveRecord
<1>8. /\ before = IF k = 1 THEN NoRecord ELSE list[k - 1]
      /\ after = IF k = n THEN NoRecord ELSE list[k + 1]
  <2>1. k \in 1 .. n
    BY <1>2
  <2>2. /\ iPreviousLive[list[k]] = IF k = 1 THEN NoRecord ELSE list[k - 1]
        /\ iNextLive[list[k]] = IF k = n THEN NoRecord ELSE list[k + 1]
    <3> HIDE DEF n
    <3> QED
      BY <1>3, <2>1
  <2> QED
    BY <2>2
<1>9. s \in RecordSlots
  BY <1>2
<1> HIDE DEF less, n, s, before, after
<1>10. before \in RecordSlots \union {NoRecord} /\ after \in RecordSlots \union {NoRecord}
  <2>1. (k # 1 => k - 1 \in 1 .. n) /\ (k # n => k + 1 \in 1 .. n)
    BY <1>2
  <2> QED
    BY <1>2, <1>8, <2>1
<1>11. iPreviousLive' \in Links /\ iNextLive' \in Links
  BY <1>1, <1>7, <1>10 DEF Links
<1>12. \A j \in 1 .. n : (list[j] = s <=> j = k)
  BY <1>2, <1>4 DEF s
<1>13. \A j \in 1 .. n : (list[j] = before <=> j = k - 1) /\ (list[j] = after <=> j = k + 1)
  <2> SUFFICES ASSUME NEW j \in 1 .. n
               PROVE  (list[j] = before <=> j = k - 1) /\ (list[j] = after <=> j = k + 1)
    OBVIOUS
  <2>1. list[j] = before <=> j = k - 1
    <3>1. CASE k = 1
      BY <1>2, <1>8, <3>1
    <3>2. CASE k # 1
      <4>1. k - 1 \in 1 .. n /\ before = list[k - 1]
        BY <1>2, <1>8, <3>2
      <4> QED
        BY <1>4, <4>1
    <3> QED
      BY <3>1, <3>2
  <2>2. list[j] = after <=> j = k + 1
    <3>1. CASE k = n
      BY <1>2, <1>8, <3>1
    <3>2. CASE k # n
      <4>1. k + 1 \in 1 .. n /\ after = list[k + 1]
        BY <1>2, <1>8, <3>2
      <4> QED
        BY <1>4, <4>1
    <3> QED
      BY <3>1, <3>2
  <2> QED
    BY <2>1, <2>2
\* The links of the records that stay.
<1>14. ASSUME NEW j \in 1 .. n, j # k
       PROVE  /\ iNextLive'[list[j]] = IF j = k - 1 THEN after
                                       ELSE IF j = n THEN NoRecord ELSE list[j + 1]
              /\ iPreviousLive'[list[j]] = IF j = k + 1 THEN before
                                           ELSE IF j = 1 THEN NoRecord ELSE list[j - 1]
  <2>1. list[j] \in RecordSlots /\ list[j] # s
    BY <1>2, <1>12, <1>14
  <2>2. iNextLive'[list[j]] = IF list[j] = before THEN after ELSE iNextLive[list[j]]
    BY <1>7, <2>1
  <2>3. iPreviousLive'[list[j]] = IF list[j] = after THEN before ELSE iPreviousLive[list[j]]
    BY <1>7, <2>1
  <2> QED
    BY <1>3, <1>13, <2>2, <2>3
<1>15. ASSUME NEW j \in 1 .. n - 1
       PROVE  iNextLive'[less[j]] = IF j = n - 1 THEN NoRecord ELSE less[j + 1]
  <2>1. CASE j < k - 1
    <3>1. j \in 1 .. n /\ j # k /\ j # k - 1 /\ j # n /\ j # n - 1 /\ j < k
      BY <1>2, <2>1
    <3>2. j + 1 \in 1 .. n - 1 /\ j + 1 < k
      BY <1>2, <2>1
    <3> QED
      BY <1>5, <1>14, <3>1, <3>2
  <2>2. CASE j = k - 1
    <3>1. j \in 1 .. n /\ j # k /\ j < k
      BY <1>2, <2>2
    <3>2. iNextLive'[less[j]] = after
      BY <1>5, <1>14, <2>2, <3>1
    <3>3. j = n - 1 <=> k = n
      BY <1>2, <2>2
    <3>4. k # n => j + 1 \in 1 .. n - 1 /\ ~(j + 1 < k) /\ j + 1 + 1 = k + 1
      BY <1>2, <2>2
    <3> QED
      BY <1>5, <1>8, <3>2, <3>3, <3>4
  <2>3. CASE j >= k
    <3>1. j + 1 \in 1 .. n /\ j + 1 # k /\ j + 1 # k - 1 /\ ~(j < k)
      BY <1>2, <2>3
    <3>2. iNextLive'[less[j]] = IF j + 1 = n THEN NoRecord ELSE list[j + 1 + 1]
      BY <1>5, <1>14, <3>1
    <3>3. j = n - 1 <=> j + 1 = n
      BY <1>2
    <3>4. j # n - 1 => j + 1 \in 1 .. n - 1 /\ ~(j + 1 < k)
      BY <1>2, <2>3
    <3> QED
      BY <1>5, <3>2, <3>3, <3>4
  <2> QED
    BY <1>2, <2>1, <2>2, <2>3
<1>16. ASSUME NEW j \in 1 .. n - 1
       PROVE  iPreviousLive'[less[j]] = IF j = 1 THEN NoRecord ELSE less[j - 1]
  <2>1. CASE j < k
    <3>1. j \in 1 .. n /\ j # k /\ j # k + 1
      BY <1>2, <2>1
    <3>2. iPreviousLive'[less[j]] = IF j = 1 THEN NoRecord ELSE list[j - 1]
      BY <1>5, <1>14, <2>1, <3>1
    <3>3. j # 1 => j - 1 \in 1 .. n - 1 /\ j - 1 < k
      BY <1>2, <2>1
    <3> QED
      BY <1>5, <3>2, <3>3
  <2>2. CASE j = k
    <3>1. j + 1 \in 1 .. n /\ j + 1 # k /\ j + 1 = k + 1 /\ ~(j < k)
      BY <1>2, <2>2
    <3>2. iPreviousLive'[less[j]] = before
      BY <1>5, <1>14, <3>1
    <3>3. j # 1 => j - 1 \in 1 .. n - 1 /\ j - 1 < k
      BY <1>2, <2>2
    <3> QED
      BY <1>5, <1>8, <2>2, <3>2, <3>3
  <2>3. CASE j > k
    <3>1. /\ j + 1 \in 1 .. n /\ j + 1 # k /\ j + 1 # k + 1 /\ j + 1 # 1 /\ ~(j < k)
          /\ (j + 1) - 1 = j
      BY <1>2, <2>3
    <3>2. iPreviousLive'[less[j]] = list[j]
      BY <1>5, <1>14, <3>1
    <3>3. j # 1 /\ j - 1 \in 1 .. n - 1 /\ ~(j - 1 < k) /\ (j - 1) + 1 = j
      BY <1>2, <2>3
    <3> QED
      BY <1>5, <3>2, <3>3
  <2> QED
    BY <1>2, <2>1, <2>2, <2>3
<1>17. iLiveHead' = IF n - 1 = 0 THEN NoRecord ELSE less[1]
  <2>1. CASE k = 1
    <3>1. iLiveHead' = after
      BY <1>7, <1>8, <2>1
    <3>2. n - 1 = 0 <=> k = n
      BY <1>2, <2>1
    <3>3. k # n => 1 \in 1 .. n - 1 /\ ~(1 < k)
      BY <1>2, <2>1
    <3> QED
      BY <1>5, <1>8, <2>1, <3>1, <3>2, <3>3
  <2>2. CASE k # 1
    <3>1. k - 1 \in 1 .. n /\ 1 \in 1 .. n - 1 /\ 1 < k /\ n # 0
      BY <1>2, <2>2
    <3>2. before # NoRecord
      BY <1>2, <1>8, <2>2, <3>1
    <3> QED
      BY <1>2, <1>3, <1>5, <1>7, <3>1, <3>2
  <2> QED
    BY <2>1, <2>2
<1>18. iLiveTail' = IF n - 1 = 0 THEN NoRecord ELSE less[n - 1]
  <2>1. CASE k = n
    <3>1. iLiveTail' = before
      BY <1>7, <1>8, <2>1
    <3>2. n - 1 = 0 <=> k = 1
      BY <1>2, <2>1
    <3>3. k # 1 => n - 1 \in 1 .. n - 1 /\ n - 1 < k
      BY <1>2, <2>1
    <3> QED
      BY <1>5, <1>8, <2>1, <3>1, <3>2, <3>3
  <2>2. CASE k # n
    <3>1. k + 1 \in 1 .. n /\ n - 1 \in 1 .. n - 1 /\ ~(n - 1 < k) /\ n # 0 /\ (n - 1) + 1 = n
      BY <1>2, <2>2
    <3>2. after # NoRecord
      BY <1>2, <1>8, <2>2, <3>1
    <3> QED
      BY <1>2, <1>3, <1>5, <1>7, <3>1, <3>2
  <2> QED
    BY <2>1, <2>2
<1>19. ASSUME NEW t \in RecordSlots \ Members(less) PROVE iPreviousLive'[t] = NoRecord
  <2>1. CASE t = s
    BY <1>7, <1>9, <2>1
  <2>2. CASE t # s
    <3>1. t \notin Members(list)
      BY <1>6, <2>2
    <3>2. t # after
      <4>1. k # n => after \in Members(list)
        <5>1. k # n => k + 1 \in 1 .. n
          BY <1>2
        <5> QED
          BY <1>2, <1>8, <5>1
      <4>2. t # NoRecord
        BY TableAssumption
      <4> QED
        BY <1>8, <3>1, <4>1, <4>2
    <3>3. iPreviousLive[t] = NoRecord
      BY <1>3, <3>1
    <3> QED
      BY <1>7, <2>2, <3>2, <3>3
  <2> QED
    BY <2>1, <2>2
<1>20. Members(less) \subseteq UsedSlots(recId)
  BY <1>1, <1>6
<1>21. Chain(iNextLive', iLiveHead', less)
  BY <1>5, <1>15, <1>17 DEF Chain
<1>22. iLiveTail' = IF Len(less) = 0 THEN NoRecord ELSE less[Len(less)]
  BY <1>5, <1>18
<1>23. \A j \in 1 .. Len(less) :
         iPreviousLive'[less[j]] = IF j = 1 THEN NoRecord ELSE less[j - 1]
  BY <1>5, <1>16
<1> QED
  BY <1>5, <1>6, <1>11, <1>19, <1>20, <1>21, <1>22, <1>23 DEF LiveSound, less

-----------------------------------------------------------------------------
(* The invariant, and the steps of the index. *)

Tabled ==
  /\ Exact(hash, recId, pLookup)
  /\ \E list : FreeSound(recId, iFreeHead, iNextFree, list)
  /\ \E list : LiveSound(recId, iLiveHead, iLiveTail, iPreviousLive, iNextLive, list)

\* What the refinement mapping shows, in any state: the record of each id, and the
\* two lists.
LEMMA IndexShown ==
  ASSUME NEW h, NEW ids, NEW table, Exact(h, ids, table), NEW id \in Identities
  PROVE  /\ Found(h, ids, table, id) = NoRecord <=> \A s \in RecordSlots : ids[s] # id
         /\ \A s \in RecordSlots : Found(h, ids, table, id) = s <=> ids[s] = id
<1>1. \A s \in RecordSlots : s # NoRecord
  BY TableAssumption
<1>2. \A s \in RecordSlots : ids[s] = id => Found(h, ids, table, id) = s
  BY HitFound
<1>3. (\A s \in RecordSlots : ids[s] # id) => Found(h, ids, table, id) = NoRecord
  BY MissFound
<1> QED
  BY <1>1, <1>2, <1>3

\* LookupRecord is Found of the tables.
LEMMA FoundNow ==
  \A id : LookupRecord(id) = Found(hash, recId, pLookup, id)
  BY DEF LookupRecord, Found

\* The same after a step.
LEMMA FoundNext ==
  \A id : LookupRecord(id)' = Found(hash', recId', pLookup', id)
  BY DEF LookupRecord, Found

\* The index that the tables show.
ShownIndex(h, ids, table) == [i \in Identities |-> Found(h, ids, table, i)]

\* And so is the index that the refinement mapping shows.
LEMMA ShownNow == [i \in Identities |-> LookupRecord(i)] = ShownIndex(hash, recId, pLookup)
  BY FoundNow DEF ShownIndex

\* The same after a step.
LEMMA ShownNext == [i \in Identities |-> LookupRecord(i)]' = ShownIndex(hash', recId', pLookup')
  BY FoundNext DEF ShownIndex

\* The index with a record that was put into the table.
LEMMA OneMore ==
  ASSUME NEW h, NEW ids, NEW table, Exact(h, ids, table),
         NEW id \in Identities, \A r \in RecordSlots : ids[r] # id,
         NEW s \in RecordSlots, ids[s] = NoRecord,
         NEW after, Exact(h, [ids EXCEPT ![s] = id], after)
  PROVE  ShownIndex(h, [ids EXCEPT ![s] = id], after) = [ShownIndex(h, ids, table) EXCEPT ![id] = s]
<1> DEFINE more == [ids EXCEPT ![s] = id]
<1>0. Exact(h, more, after)
  OBVIOUS
<1>1. more[s] = id /\ \A r \in RecordSlots \ {s} : more[r] = ids[r]
  BY DEF Exact, RecordIds
<1> HIDE DEF more
<1>2. Found(h, more, after, id) = s
  BY <1>1, <1>0, IndexShown
<1>3. ASSUME NEW i \in Identities, i # id PROVE Found(h, more, after, i) = Found(h, ids, table, i)
  <2>1. CASE \A r \in RecordSlots : ids[r] # i
    <3>1. \A r \in RecordSlots : more[r] # i
      BY <1>1, <1>3, <2>1
    <3>2. Found(h, more, after, i) = NoRecord
      BY <3>1, <1>0, IndexShown
    <3>3. Found(h, ids, table, i) = NoRecord
      BY <2>1, IndexShown
    <3> QED
      BY <3>2, <3>3
  <2>2. CASE \E r \in RecordSlots : ids[r] = i
    <3>1. PICK r \in RecordSlots : ids[r] = i
      BY <2>2
    <3>2. r # s
      BY <3>1, TableAssumption
    <3>3. more[r] = i
      BY <1>1, <3>1, <3>2
    <3>4. Found(h, more, after, i) = r
      BY <3>3, <1>0, IndexShown
    <3>5. Found(h, ids, table, i) = r
      BY <3>1, IndexShown
    <3> QED
      BY <3>4, <3>5
  <2> QED
    BY <2>1, <2>2
<1>4. ShownIndex(h, more, after) = [ShownIndex(h, ids, table) EXCEPT ![id] = s]
  BY <1>2, <1>3 DEF ShownIndex
<1> QED
  BY <1>4 DEF more

\* The index without a record that was taken out of the table.
LEMMA OneLess ==
  ASSUME NEW h, NEW ids, NEW table, Exact(h, ids, table), NEW s \in UsedSlots(ids),
         NEW after, Exact(h, [ids EXCEPT ![s] = NoRecord], after)
  PROVE  /\ ids[s] \in Identities /\ ShownIndex(h, ids, table)[ids[s]] = s
         /\ ShownIndex(h, [ids EXCEPT ![s] = NoRecord], after)
              = [ShownIndex(h, ids, table) EXCEPT ![ids[s]] = NoRecord]
<1> DEFINE less == [ids EXCEPT ![s] = NoRecord]
           id == ids[s]
<1>0. Exact(h, less, after)
  OBVIOUS
<1>1. /\ s \in RecordSlots /\ less[s] = NoRecord /\ id \in Identities
      /\ \A r \in RecordSlots \ {s} : less[r] = ids[r]
  BY DEF Exact, RecordIds, UsedSlots
<1>2. \A r \in RecordSlots : ids[r] = id => r = s
  BY <1>1, TableAssumption DEF Exact, UsedSlots
<1> HIDE DEF less
<1>3. Found(h, less, after, id) = NoRecord
  <2>1. \A r \in RecordSlots : less[r] # id
    BY <1>1, <1>2, TableAssumption
  <2> HIDE DEF id
  <2> QED
    BY <1>1, <2>1, <1>0, IndexShown
<1>4. ASSUME NEW i \in Identities, i # id PROVE Found(h, less, after, i) = Found(h, ids, table, i)
  <2>1. CASE \A r \in RecordSlots : ids[r] # i
    <3>1. \A r \in RecordSlots : less[r] # i
      BY <1>1, <2>1, TableAssumption
    <3>2. Found(h, less, after, i) = NoRecord
      BY <3>1, <1>0, IndexShown
    <3>3. Found(h, ids, table, i) = NoRecord
      BY <2>1, IndexShown
    <3> QED
      BY <3>2, <3>3
  <2>2. CASE \E r \in RecordSlots : ids[r] = i
    <3>1. PICK r \in RecordSlots : ids[r] = i
      BY <2>2
    <3>2. r # s
      BY <1>4, <3>1
    <3>3. less[r] = i
      BY <1>1, <3>1, <3>2
    <3>4. Found(h, less, after, i) = r
      BY <3>3, <1>0, IndexShown
    <3>5. Found(h, ids, table, i) = r
      BY <3>1, IndexShown
    <3> QED
      BY <3>4, <3>5
  <2> QED
    BY <2>1, <2>2
<1>5. ShownIndex(h, less, after) = [ShownIndex(h, ids, table) EXCEPT ![id] = NoRecord]
  BY <1>1, <1>3, <1>4 DEF ShownIndex
<1>6. ShownIndex(h, ids, table)[id] = s
  <2>1. Found(h, ids, table, id) = s
    <3> HIDE DEF id
    <3>1. ids[s] = id
      BY DEF id
    <3> QED
      BY <1>1, <3>1, IndexShown
  <2> QED
    BY <1>1, <2>1 DEF ShownIndex
<1> QED
  BY <1>1, <1>5, <1>6 DEF less

\* The tables at the start: every record is free, in the order of their numbers.
LEMMA TablesStart ==
  ASSUME TInit PROVE Tabled /\ TableIndex!Init
<1> DEFINE list == [n \in 1 .. SlotCount |-> n - 1]
<1>1. SlotCount \in Nat \ {0}
  BY HalfFull
<1>2. /\ hash \in Homes /\ recId \in RecordIds /\ UsedSlots(recId) = {}
      /\ pLookup \in Tables /\ \A b \in Buckets : pLookup[b] = 0
      /\ \A s \in RecordSlots : recId[s] = NoRecord
  BY <1>1, TableAssumption DEF TInit, Homes, RecordIds, UsedSlots, Tables
<1>3. Exact(hash, recId, pLookup)
  BY <1>2 DEF Exact, Lists, Missing
<1>4. /\ list \in Seq(RecordSlots) /\ Len(list) = SlotCount
      /\ \A n \in 1 .. SlotCount : list[n] = n - 1
  <2>1. list \in [1 .. SlotCount -> RecordSlots]
    BY <1>1 DEF RecordSlots
  <2>2. list \in Seq(RecordSlots)
    BY <1>1, <2>1, SeqDef
  <2>3. Len(list) = SlotCount
    BY <1>1, <2>1, <2>2, LenProperties
  <2> QED
    BY <2>2, <2>3
<1> HIDE DEF list
<1>5. DOMAIN list = 1 .. SlotCount
  BY <1>4, LenProperties
<1>6. Injective(list)
  BY <1>1, <1>4, <1>5 DEF Injective
<1>7. Members(list) = RecordSlots
  <2>1. \A i \in DOMAIN list : list[i] \in RecordSlots
    BY <1>1, <1>4, <1>5 DEF RecordSlots
  <2>2. ASSUME NEW s \in RecordSlots PROVE s \in Members(list)
    <3>1. s + 1 \in 1 .. SlotCount /\ (s + 1) - 1 = s
      BY <1>1 DEF RecordSlots
    <3>2. s + 1 \in DOMAIN list /\ list[s + 1] = s
      BY <1>4, <1>5, <3>1
    <3> QED
      BY <3>2 DEF Members
  <2> QED
    BY <2>1, <2>2 DEF Members
<1>8. /\ iFreeHead = 0 /\ iNextFree \in Links
      /\ \A s \in RecordSlots : iNextFree[s] = IF s + 1 < SlotCount THEN s + 1 ELSE NoRecord
  <2>1. iNextFree = [s \in RecordSlots |-> IF s + 1 < SlotCount THEN s + 1 ELSE NoRecord]
    BY DEF TInit
  <2>2. iNextFree \in Links
    BY <1>1, <2>1 DEF Links, RecordSlots
  <2> QED
    BY <2>1, <2>2 DEF TInit
<1>9. Chain(iNextFree, iFreeHead, list)
  <2>1. iFreeHead = IF Len(list) = 0 THEN NoRecord ELSE list[1]
    <3>1. 1 \in 1 .. SlotCount
      BY <1>1
    <3>2. list[1] = 0
      BY <1>4, <3>1
    <3> QED
      BY <1>1, <1>4, <1>8, <3>2
  <2>2. ASSUME NEW k \in 1 .. Len(list)
        PROVE  iNextFree[list[k]] = IF k = Len(list) THEN NoRecord ELSE list[k + 1]
    <3>1. k \in 1 .. SlotCount /\ list[k] = k - 1 /\ k - 1 \in RecordSlots /\ (k - 1) + 1 = k
      BY <1>1, <1>4 DEF RecordSlots
    <3>2. iNextFree[k - 1] = IF k < SlotCount THEN k ELSE NoRecord
      BY <1>8, <3>1
    <3>3. k # SlotCount => k < SlotCount /\ k + 1 \in 1 .. SlotCount /\ (k + 1) - 1 = k
      BY <1>1, <3>1
    <3>4. k # SlotCount => list[k + 1] = k
      BY <1>4, <3>3
    <3> QED
      BY <1>1, <1>4, <3>1, <3>2, <3>3, <3>4
  <2> QED
    BY <2>1, <2>2 DEF Chain
<1>10. FreeSound(recId, iFreeHead, iNextFree, list)
  BY <1>2, <1>4, <1>6, <1>7, <1>8, <1>9 DEF FreeSound
<1> DEFINE none == <<>>
<1>11. /\ none \in Seq(RecordSlots) /\ Len(none) = 0 /\ Injective(none) /\ Members(none) = {}
  BY DEF Injective, Members
<1>12. /\ iLiveHead = NoRecord /\ iLiveTail = NoRecord
       /\ iPreviousLive \in Links /\ iNextLive \in Links
       /\ \A s \in RecordSlots : iPreviousLive[s] = NoRecord
  BY DEF TInit, Links
<1> HIDE DEF none
<1>13. LiveSound(recId, iLiveHead, iLiveTail, iPreviousLive, iNextLive, none)
  BY <1>11, <1>12 DEF LiveSound, Chain
<1>14. Tabled
  BY <1>3, <1>10, <1>13 DEF Tabled
<1>15. FreeList = list /\ LiveList = none
  <2>1. FreeList = list
    BY <1>10, WalkIs DEF FreeSound, FreeList
  <2>2. LiveList = none
    BY <1>13, WalkIs DEF LiveSound, LiveList
  <2> QED
    BY <2>1, <2>2
<1>16. [i \in Identities |-> LookupRecord(i)] = [i \in Identities |-> NoRecord]
  <2>1. \A i \in Identities : LookupRecord(i) = NoRecord
    <3> SUFFICES ASSUME NEW i \in Identities PROVE LookupRecord(i) = NoRecord
      OBVIOUS
    <3>1. \A s \in RecordSlots : recId[s] # i
      BY <1>2, TableAssumption
    <3> QED
      BY <1>3, <3>1, FoundNow, MissFound
  <2> QED
    BY <2>1
<1> QED
  BY <1>14, <1>15, <1>16 DEF TableIndex!Init, list, none

\* What an action sees of the two lists.
LEMMA ListsShown ==
  \A list :
    /\ FreeSound(recId, iFreeHead, iNextFree, list) => FreeList = list
    /\ LiveSound(recId, iLiveHead, iLiveTail, iPreviousLive, iNextLive, list) => LiveList = list
  BY WalkIs DEF FreeSound, LiveSound, FreeList, LiveList

\* And after its step.
LEMMA ListsShownNext ==
  \A list :
    /\ FreeSound(recId', iFreeHead', iNextFree', list) => FreeList' = list
    /\ LiveSound(recId', iLiveHead', iLiveTail', iPreviousLive', iNextLive', list)
         => LiveList' = list
  BY WalkIs DEF FreeSound, LiveSound, FreeList, LiveList

\* A record enters the table from the free list.
LEMMA ReserveShown ==
  ASSUME Tabled, NEW id \in Identities, Reserve(id)
  PROVE  Tabled' /\ TableIndex!Reserve(id)
<1> DEFINE s == iFreeHead
           ids == [recId EXCEPT ![s] = id]
<1>1. Exact(hash, recId, pLookup) /\ recId \in RecordIds
  BY DEF Tabled, Exact
<1>2. PICK list : FreeSound(recId, iFreeHead, iNextFree, list)
  BY DEF Tabled
<1>3. PICK shown : LiveSound(recId, iLiveHead, iLiveTail, iPreviousLive, iNextLive, shown)
  BY DEF Tabled
<1>4. /\ LookupRecord(id) = NoRecord /\ s # NoRecord
      /\ iFreeHead' = iNextFree[s] /\ iNextFree' = [iNextFree EXCEPT ![s] = NoRecord]
      /\ recId' = ids /\ pLookup' = InsertLookup(pLookup, id, s)
      /\ hash' = hash /\ UNCHANGED liveLinks
  BY DEF Reserve
<1>5. list # <<>>
  <2>1. Len(list) # 0
    BY <1>2, <1>4 DEF FreeSound, Chain
  <2> QED
    BY <2>1
<1>6. /\ s = Head(list) /\ s \in RecordSlots /\ recId[s] = NoRecord
      /\ FreeSound(ids, iNextFree[s], [iNextFree EXCEPT ![s] = NoRecord], Tail(list))
  BY <1>1, <1>2, <1>5, FreeTaken
<1>7. \A r \in RecordSlots : recId[r] # id
  BY <1>1, <1>4, FoundNow, IndexShown
<1>8. Exact(hash, ids, InsertLookup(pLookup, id, s))
  BY <1>1, <1>6, <1>7, InsertionExact
<1> HIDE DEF s
<1>9. UsedSlots(recId) \subseteq UsedSlots(ids)
  <2>1. id # NoRecord
    BY TableAssumption
  <2>2. \A r \in RecordSlots : recId[r] # NoRecord => ids[r] # NoRecord
    BY <1>1, <2>1 DEF RecordIds
  <2> QED
    BY <2>2 DEF UsedSlots
<1>10. LiveSound(ids, iLiveHead, iLiveTail, iPreviousLive, iNextLive, shown)
  <2> HIDE DEF ids
  <2> QED
    BY <1>3, <1>9 DEF LiveSound
<1>11. /\ iLiveHead' = iLiveHead /\ iLiveTail' = iLiveTail
       /\ iPreviousLive' = iPreviousLive /\ iNextLive' = iNextLive
  BY <1>4 DEF liveLinks
<1>12. ShownIndex(hash, ids, InsertLookup(pLookup, id, s))
         = [ShownIndex(hash, recId, pLookup) EXCEPT ![id] = s]
  BY <1>1, <1>6, <1>7, <1>8, OneMore
<1> HIDE DEF ids
<1>13. Exact(hash', recId', pLookup')
  BY <1>4, <1>8
<1>14. FreeSound(recId', iFreeHead', iNextFree', Tail(list))
  BY <1>4, <1>6
<1>15. LiveSound(recId', iLiveHead', iLiveTail', iPreviousLive', iNextLive', shown)
  BY <1>4, <1>10, <1>11
<1>16. Tabled'
  BY <1>13, <1>14, <1>15 DEF Tabled
<1>17. FreeList = list /\ FreeList' = Tail(list) /\ LiveList = shown /\ LiveList' = shown
  BY <1>2, <1>3, <1>14, <1>15, ListsShown, ListsShownNext
<1> DEFINE now == [i \in Identities |-> LookupRecord(i)]
<1>18. now[id] = NoRecord
  BY <1>4
<1>19. now' = [now EXCEPT ![id] = s]
  BY <1>4, <1>12, ShownNow, ShownNext
<1>20. TableIndex!Reserve(id)
  BY <1>5, <1>6, <1>17, <1>18, <1>19 DEF TableIndex!Reserve
<1> QED
  BY <1>16, <1>20

\* A record leaves the table for the free list.
LEMMA RecycleShown ==
  ASSUME Tabled, NEW s \in RecordSlots, RecycleRecord(s)
  PROVE  Tabled' /\ \E id \in Identities : TableIndex!Recycle(id)
<1> DEFINE ids == [recId EXCEPT ![s] = NoRecord]
           id == recId[s]
<1>1. Exact(hash, recId, pLookup) /\ recId \in RecordIds
  BY DEF Tabled, Exact
<1>2. PICK list : FreeSound(recId, iFreeHead, iNextFree, list)
  BY DEF Tabled
<1>3. PICK shown : LiveSound(recId, iLiveHead, iLiveTail, iPreviousLive, iNextLive, shown)
  BY DEF Tabled
<1>4. /\ recId[s] # NoRecord /\ ~IsLive(s)
      /\ pLookup' = LookupRemoved(s) /\ recId' = ids
      /\ iNextFree' = [iNextFree EXCEPT ![s] = iFreeHead] /\ iFreeHead' = s
      /\ hash' = hash /\ UNCHANGED liveLinks
  BY DEF RecycleRecord
<1>5. s \in UsedSlots(recId)
  BY <1>4 DEF UsedSlots
<1>6. FreeSound(ids, s, [iNextFree EXCEPT ![s] = iFreeHead], <<s>> \o list)
  BY <1>1, <1>2, <1>5, FreeGiven
<1>7. Exact(hash, ids, LookupRemoved(s))
  BY <1>1, <1>5, RemovalExact
<1>8. /\ id \in Identities /\ ShownIndex(hash, recId, pLookup)[id] = s
      /\ ShownIndex(hash, ids, LookupRemoved(s))
           = [ShownIndex(hash, recId, pLookup) EXCEPT ![id] = NoRecord]
  BY <1>1, <1>5, <1>7, OneLess
<1>9. s \notin Members(shown)
  BY <1>3, <1>4, LiveAsked
<1>10. LiveSound(ids, iLiveHead, iLiveTail, iPreviousLive, iNextLive, shown)
  <2>1. \A r \in UsedSlots(recId) : r # s => r \in UsedSlots(ids)
    BY <1>1 DEF UsedSlots, RecordIds
  <2>2. Members(shown) \subseteq UsedSlots(ids)
    BY <1>3, <1>9, <2>1 DEF LiveSound
  <2> HIDE DEF ids
  <2> QED
    BY <1>3, <2>2 DEF LiveSound
<1>11. /\ iLiveHead' = iLiveHead /\ iLiveTail' = iLiveTail
       /\ iPreviousLive' = iPreviousLive /\ iNextLive' = iNextLive
  BY <1>4 DEF liveLinks
<1> HIDE DEF ids, id
<1>12. Exact(hash', recId', pLookup')
  BY <1>4, <1>7
<1>13. FreeSound(recId', iFreeHead', iNextFree', <<s>> \o list)
  BY <1>4, <1>6
<1>14. LiveSound(recId', iLiveHead', iLiveTail', iPreviousLive', iNextLive', shown)
  BY <1>4, <1>10, <1>11
<1>15. Tabled'
  BY <1>12, <1>13, <1>14 DEF Tabled
<1>16. FreeList = list /\ FreeList' = <<s>> \o list /\ LiveList = shown /\ LiveList' = shown
  BY <1>2, <1>3, <1>13, <1>14, ListsShown, ListsShownNext
<1> DEFINE now == [i \in Identities |-> LookupRecord(i)]
<1>17. now = ShownIndex(hash, recId, pLookup) /\ now' = ShownIndex(hash', recId', pLookup')
  BY ShownNow, ShownNext
<1> HIDE DEF now
<1>18. now[id] = s /\ now' = [now EXCEPT ![id] = NoRecord]
  BY <1>4, <1>8, <1>17
<1>19. s # NoRecord
  BY TableAssumption
<1>20. \A n \in DOMAIN shown : shown[n] # s
  BY <1>9 DEF Members
<1>21. TableIndex!Recycle(id)
  BY <1>16, <1>18, <1>19, <1>20 DEF TableIndex!Recycle, TableIndex!Listed, now
<1> QED
  BY <1>8, <1>15, <1>21

\* A step of the live list leaves the index and the free list alone.
LEMMA TablesKept ==
  ASSUME Tabled, UNCHANGED <<hash, pLookup, recId, freeLinks>>
  PROVE  /\ Exact(hash', recId', pLookup')
         /\ \E list : FreeSound(recId', iFreeHead', iNextFree', list)
         /\ FreeList' = FreeList
         /\ UNCHANGED [i \in Identities |-> LookupRecord(i)]
<1>1. /\ hash' = hash /\ pLookup' = pLookup /\ recId' = recId
      /\ iFreeHead' = iFreeHead /\ iNextFree' = iNextFree
  BY DEF freeLinks
<1>2. FreeList' = FreeList
  BY <1>1 DEF FreeList
<1>3. [i \in Identities |-> LookupRecord(i)]' = [i \in Identities |-> LookupRecord(i)]
  BY <1>1, ShownNow, ShownNext
<1> QED
  BY <1>1, <1>2, <1>3 DEF Tabled

\* A record enters the live list.
LEMMA PublishShown ==
  ASSUME Tabled, NEW s \in RecordSlots, AppendLiveRecord(s)
  PROVE  Tabled' /\ TableIndex!Publish(s)
<1>1. Exact(hash, recId, pLookup) /\ recId \in RecordIds
  BY DEF Tabled, Exact
<1>2. PICK shown : LiveSound(recId, iLiveHead, iLiveTail, iPreviousLive, iNextLive, shown)
  BY DEF Tabled
<1>3. /\ recId[s] # NoRecord /\ ~IsLive(s)
      /\ UNCHANGED <<hash, pLookup, recId, freeLinks>>
  BY DEF AppendLiveRecord
<1>4. s \in UsedSlots(recId) /\ s \notin Members(shown)
  BY <1>2, <1>3, LiveAsked DEF UsedSlots
<1>5. LiveSound(recId, iLiveHead', iLiveTail', iPreviousLive', iNextLive', Append(shown, s))
  BY <1>1, <1>2, <1>4, LiveAppended
<1>6. LiveSound(recId', iLiveHead', iLiveTail', iPreviousLive', iNextLive', Append(shown, s))
  BY <1>3, <1>5
<1>7. /\ Exact(hash', recId', pLookup')
      /\ \E list : FreeSound(recId', iFreeHead', iNextFree', list)
      /\ FreeList' = FreeList
      /\ UNCHANGED [i \in Identities |-> LookupRecord(i)]
  BY <1>3, TablesKept
<1>8. Tabled'
  BY <1>6, <1>7 DEF Tabled
<1>9. LiveList = shown /\ LiveList' = Append(shown, s)
  BY <1>2, <1>6, ListsShown, ListsShownNext
<1>10. TableIndex!Used(s)
  <2>1. recId[s] \in Identities
    BY <1>1, <1>3 DEF RecordIds
  <2>2. LookupRecord(recId[s]) = s
    BY <1>1, <2>1, FoundNow, HitFound
  <2> QED
    BY <2>1, <2>2 DEF TableIndex!Used
<1>11. ~TableIndex!Listed(s)
  BY <1>4, <1>9 DEF Members, TableIndex!Listed
<1>12. TableIndex!Publish(s)
  BY <1>7, <1>9, <1>10, <1>11 DEF TableIndex!Publish
<1> QED
  BY <1>8, <1>12

\* A record leaves the live list.
LEMMA RetireShown ==
  ASSUME Tabled, NEW s \in RecordSlots, RemoveLiveRecord(s)
  PROVE  Tabled' /\ \E n \in DOMAIN LiveList : TableIndex!Retire(n)
<1>1. Exact(hash, recId, pLookup) /\ recId \in RecordIds
  BY DEF Tabled, Exact
<1>2. PICK shown : LiveSound(recId, iLiveHead, iLiveTail, iPreviousLive, iNextLive, shown)
  BY DEF Tabled
<1>3. IsLive(s) /\ UNCHANGED <<hash, pLookup, recId, freeLinks>>
  BY DEF RemoveLiveRecord
<1>4. PICK n \in DOMAIN shown : shown[n] = s
  BY <1>2, <1>3, LiveAsked DEF Members
<1>5. LiveSound(recId, iLiveHead', iLiveTail', iPreviousLive', iNextLive', RemoveAt(shown, n))
  BY <1>1, <1>2, <1>4, LiveRemoved
<1>6. LiveSound(recId', iLiveHead', iLiveTail', iPreviousLive', iNextLive', RemoveAt(shown, n))
  BY <1>3, <1>5
<1>7. /\ Exact(hash', recId', pLookup')
      /\ \E list : FreeSound(recId', iFreeHead', iNextFree', list)
      /\ FreeList' = FreeList
      /\ UNCHANGED [i \in Identities |-> LookupRecord(i)]
  BY <1>3, TablesKept
<1>8. Tabled'
  BY <1>6, <1>7 DEF Tabled
<1>9. LiveList = shown /\ LiveList' = RemoveAt(shown, n)
  BY <1>2, <1>6, ListsShown, ListsShownNext
<1>10. RemoveAt(shown, n) = SubSeq(shown, 1, n - 1) \o SubSeq(shown, n + 1, Len(shown))
  BY <1>2, GapClosed DEF LiveSound
<1>11. TableIndex!Retire(n)
  BY <1>7, <1>9, <1>10 DEF TableIndex!Retire
<1> QED
  BY <1>4, <1>8, <1>9, <1>11

\* Every step keeps the invariant and is a step of the index, or none.
LEMMA StepShown == Tabled /\ [TNext]_tvars => Tabled' /\ [TableIndex!Next]_(TableIndex!ivars)
<1> SUFFICES ASSUME Tabled, [TNext]_tvars
             PROVE  Tabled' /\ [TableIndex!Next]_(TableIndex!ivars)
  OBVIOUS
<1>1. ASSUME NEW id \in Identities, Reserve(id)
      PROVE  Tabled' /\ TableIndex!Next
  BY <1>1, ReserveShown DEF TableIndex!Next
<1>2. ASSUME NEW s \in RecordSlots, AppendLiveRecord(s)
      PROVE  Tabled' /\ TableIndex!Next
  <2>1. Tabled' /\ TableIndex!Publish(s)
    BY <1>2, PublishShown
  <2>2. s \in TableIndex!Slots
    BY DEF TableIndex!Slots, RecordSlots
  <2> QED
    BY <2>1, <2>2 DEF TableIndex!Next
<1>3. ASSUME NEW s \in RecordSlots, RemoveLiveRecord(s)
      PROVE  Tabled' /\ TableIndex!Next
  BY <1>3, RetireShown DEF TableIndex!Next
<1>4. ASSUME NEW s \in RecordSlots, RecycleRecord(s)
      PROVE  Tabled' /\ TableIndex!Next
  BY <1>4, RecycleShown DEF TableIndex!Next
<1>5. CASE UNCHANGED tvars
  <2>1. /\ UNCHANGED <<hash, pLookup, recId, freeLinks>>
        /\ iLiveHead' = iLiveHead /\ iLiveTail' = iLiveTail
        /\ iPreviousLive' = iPreviousLive /\ iNextLive' = iNextLive
    BY <1>5 DEF tvars, liveLinks
  <2>2. /\ Exact(hash', recId', pLookup')
        /\ \E list : FreeSound(recId', iFreeHead', iNextFree', list)
        /\ FreeList' = FreeList
        /\ UNCHANGED [i \in Identities |-> LookupRecord(i)]
    BY <2>1, TablesKept
  <2>3. LiveList' = LiveList
    BY <2>1 DEF LiveList
  <2>4. \E list : LiveSound(recId', iLiveHead', iLiveTail', iPreviousLive', iNextLive', list)
    BY <2>1 DEF Tabled
  <2>5. Tabled'
    BY <2>2, <2>4 DEF Tabled
  <2> QED
    BY <2>2, <2>3, <2>5 DEF TableIndex!ivars
<1> QED
  BY <1>1, <1>2, <1>3, <1>4, <1>5 DEF TNext

-----------------------------------------------------------------------------
(* The theorems. *)

\* The lookup table, the free list and the live list of the block, with linear probing,
\* deletion without tombstones and links in the records, provide the index that the
\* resource manager uses, for every number of records and every hash.
THEOREM TablesProvideIndex == TSpec => ImplementsIndex
<1>1. TInit => Tabled /\ TableIndex!Init
  BY TablesStart
<1>2. Tabled /\ [TNext]_tvars => Tabled' /\ [TableIndex!Next]_(TableIndex!ivars)
  BY StepShown
<1> QED
  BY <1>1, <1>2, PTL DEF TSpec, ImplementsIndex, TableIndex!Spec

\* The run of the manager beside the tables is a run of each.
THEOREM BothRun == RegistrySpec => Spec /\ TSpec
<1>1. RegistryInit => Init /\ TInit
  BY DEF RegistryInit
<1>2. [RegistryNext]_registryVars => [Next]_vars /\ [TNext]_tvars
  BY DEF RegistryNext, registryVars
<1> QED
  BY <1>1, <1>2, PTL DEF RegistrySpec, Spec, TSpec
=============================================================================

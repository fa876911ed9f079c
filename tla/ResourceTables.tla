--------------------------- MODULE ResourceTables ---------------------------
(***************************************************************************)
(* The tables inside the resource manager's block, as the code keeps them: *)
(* an open-addressed lookup table with linear probing and deletion without *)
(* tombstones, the intrusive free list and the doubly linked live list.    *)
(* Entries of the lookup table hold the record index plus one, 0 is empty. *)
(* The hash is chosen initially, so a run covers every way identities can  *)
(* collide and every cluster that wraps around the end of the table.       *)
(***************************************************************************)
EXTENDS Naturals, FiniteSets, Sequences

CONSTANTS
  Identities,
  SlotCount,   \* cResourceCapacity
  HashRange,   \* the buckets HashLookupIndex may answer
  NoRecord       \* CYPHER_RESOURCE_INVALID_INDEX

RecordSlots == 0 .. SlotCount - 1

\* What step makes of x, turn after turn up to the last.
Iterates(step, x, last) ==
  LET turn[k \in 0 .. last] == IF k = 0 THEN x ELSE step[turn[k - 1]] IN turn

\* At most half full, a power of two.
LookupCapacityFor(n) ==
  LET doubled == Iterates([c \in Nat |-> 2 * c], 1, 2 * n)
  IN  doubled[CHOOSE k \in 0 .. 2 * n :
                doubled[k] >= 2 * n /\ \A j \in 0 .. k - 1 : doubled[j] < 2 * n]

cLookupCapacity == LookupCapacityFor(SlotCount)
Buckets == 0 .. cLookupCapacity - 1

ASSUME TableAssumption ==
  /\ SlotCount \in Nat \ {0} /\ HashRange \subseteq Buckets
  /\ NoRecord \notin RecordSlots \union Identities

VARIABLES
  hash,                              \* HashLookupIndex, fixed for ever
  pLookup,                           \* [Buckets -> record index + 1, or 0]
  recId,                             \* id of each record, NoRecord when EMPTY
  iFreeHead, iNextFree,
  iLiveHead, iLiveTail, iPreviousLive, iNextLive

freeLinks == <<iFreeHead, iNextFree>>
liveLinks == <<iLiveHead, iLiveTail, iPreviousLive, iNextLive>>
tvars == <<hash, pLookup, recId, freeLinks, liveLinks>>

NextBucket(b) == IF b + 1 = cLookupCapacity THEN 0 ELSE b + 1

\* How many buckets an identity with this home probes before bucket b.
ProbesTo(home, b) == IF b >= home THEN b - home ELSE b + cLookupCapacity - home

\* The one of the buckets that probing from home meets first.
FirstProbed(home, buckets) ==
  CHOOSE b \in buckets : \A c \in buckets : ProbesTo(home, b) <= ProbesTo(home, c)

\* Probing stops at an empty bucket or at the record with this id.
LookupRecord(id) ==
  LET stops == {b \in Buckets : pLookup[b] = 0 \/ recId[pLookup[b] - 1] = id}
      b == FirstProbed(hash[id], stops)
  IN  IF stops = {} \/ pLookup[b] = 0 THEN NoRecord ELSE pLookup[b] - 1

InsertLookup(table, id, s) ==
  LET empty == {b \in Buckets : table[b] = 0}
  IN  IF empty = {} THEN table
      ELSE [table EXCEPT ![FirstProbed(hash[id], empty)] = s + 1]

\* The entry of one bucket of the cluster is taken out and inserted again.
Tables == [Buckets -> 0 .. SlotCount]
Reinserted ==
  [x \in [table : Tables, at : Buckets] |->
     LET s == x.table[x.at] - 1
     IN  IF x.table[x.at] = 0 THEN x
         ELSE [table |-> InsertLookup([x.table EXCEPT ![x.at] = 0], recId[s], s),
               at |-> NextBucket(x.at)]]

\* A slip: the bucket is only cleared.
ClusterLeft(table, b) == table

\* Every entry of the cluster that follows bucket b, up to an empty bucket.
ReinsertCluster(table, b) ==
  Iterates(Reinserted, [table |-> table, at |-> b], cLookupCapacity)[cLookupCapacity].table

LookupRemoved(s) ==
  LET stops == {b \in Buckets : pLookup[b] \in {0, s + 1}}
      b0 == FirstProbed(hash[recId[s]], stops)
  IN  IF stops = {} \/ pLookup[b0] = 0 THEN pLookup
      ELSE ReinsertCluster([pLookup EXCEPT ![b0] = 0], NextBucket(b0))

IsLive(s) == iLiveHead = s \/ iPreviousLive[s] # NoRecord
-----------------------------------------------------------------------------
TInit ==
  /\ hash \in [Identities -> HashRange]
  /\ pLookup = [b \in Buckets |-> 0]
  /\ recId = [s \in RecordSlots |-> NoRecord]
  /\ iFreeHead = 0
  /\ iNextFree = [s \in RecordSlots |-> IF s + 1 < SlotCount THEN s + 1 ELSE NoRecord]
  /\ iLiveHead = NoRecord /\ iLiveTail = NoRecord
  /\ iPreviousLive = [s \in RecordSlots |-> NoRecord]
  /\ iNextLive = [s \in RecordSlots |-> NoRecord]

\* AllocateRecord and InsertLookup, after a lookup that missed.
Reserve(id) ==
  /\ LookupRecord(id) = NoRecord /\ iFreeHead # NoRecord
  /\ iFreeHead' = iNextFree[iFreeHead]
  /\ iNextFree' = [iNextFree EXCEPT ![iFreeHead] = NoRecord]
  /\ recId' = [recId EXCEPT ![iFreeHead] = id]
  /\ pLookup' = InsertLookup(pLookup, id, iFreeHead)
  /\ UNCHANGED <<hash, liveLinks>>

AppendLiveRecord(s) ==
  /\ recId[s] # NoRecord /\ ~IsLive(s)
  /\ iPreviousLive' = [iPreviousLive EXCEPT ![s] = iLiveTail]
  /\ iNextLive' = [t \in RecordSlots |-> IF t = s THEN NoRecord
                                   ELSE IF t = iLiveTail THEN s ELSE iNextLive[t]]
  /\ iLiveHead' = IF iLiveTail = NoRecord THEN s ELSE iLiveHead
  /\ iLiveTail' = s
  /\ UNCHANGED <<hash, pLookup, recId, freeLinks>>

RemoveLiveRecord(s) ==
  LET before == iPreviousLive[s]
      after == iNextLive[s]
  IN  /\ IsLive(s)
      /\ iNextLive' = [t \in RecordSlots |-> IF t = s THEN NoRecord
                                       ELSE IF t = before THEN after
                                       ELSE iNextLive[t]]
      /\ iPreviousLive' = [t \in RecordSlots |-> IF t = s THEN NoRecord
                                           ELSE IF t = after THEN before
                                           ELSE iPreviousLive[t]]
      /\ iLiveHead' = IF before = NoRecord THEN after ELSE iLiveHead
      /\ iLiveTail' = IF after = NoRecord THEN before ELSE iLiveTail
      /\ UNCHANGED <<hash, pLookup, recId, freeLinks>>

\* RemoveLookup and RecycleRecord.
RecycleRecord(s) ==
  /\ recId[s] # NoRecord /\ ~IsLive(s)
  /\ pLookup' = LookupRemoved(s)
  /\ recId' = [recId EXCEPT ![s] = NoRecord]
  /\ iNextFree' = [iNextFree EXCEPT ![s] = iFreeHead]
  /\ iFreeHead' = s
  /\ UNCHANGED <<hash, liveLinks>>

TNext ==
  \/ \E id \in Identities : Reserve(id)
  \/ \E s \in RecordSlots :
       AppendLiveRecord(s) \/ RemoveLiveRecord(s) \/ RecycleRecord(s)

TSpec == TInit /\ [][TNext]_tvars
-----------------------------------------------------------------------------
(* The lists that following the links yields, and the refinement. *)

\* Following the links from s; a circle shows as a list that is too long.
Walk(links, s) ==
  LET at == Iterates([t \in RecordSlots \union {NoRecord} |->
                        IF t = NoRecord THEN NoRecord ELSE links[t]],
                     s, SlotCount)
      ends == {n \in 0 .. SlotCount : at[n] = NoRecord}
      length == IF ends = {} THEN SlotCount + 1
                ELSE CHOOSE n \in ends : \A m \in ends : n <= m
  IN  [n \in 1 .. length |-> at[n - 1]]

FreeList == Walk(iNextFree, iFreeHead)
LiveList == Walk(iNextLive, iLiveHead)

TableIndex == INSTANCE ResourceIndex WITH
  Ids <- Identities, NoSlot <- NoRecord,
  index <- [i \in Identities |-> LookupRecord(i)],
  free <- FreeList,
  live <- LiveList

\* Probing finds exactly the identities in use after any sequence of insertions
\* and cluster-moving removals, and the links are the two lists.
ImplementsIndex == TableIndex!Spec
=============================================================================

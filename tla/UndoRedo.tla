------------------------------ MODULE UndoRedo ------------------------------
(***************************************************************************)
(* The undo journal (src/CypherCommon/Tier1): operations in groups, a      *)
(* cursor between the applied and the undone ones, transactions, merging   *)
(* of adjacent operations, and budgets that evict the oldest groups.       *)
(*                                                                         *)
(* The document that the callbacks edit is the sequence of the edits it    *)
(* holds.  The journal never sees it: an operation's callbacks write the   *)
(* document as it was before or after the operation.  Clients do what the  *)
(* headers ask: an edit that cannot be recorded is rolled back, and the    *)
(* document is restored when a transaction is cancelled.                   *)
(*                                                                         *)
(* Callbacks cannot call the journal (bApplying), so a call is one step.   *)
(* Labels, identities and the copies of payloads are left out.  The 64-bit *)
(* group counter does not wrap here (RebaseGroups).                        *)
(***************************************************************************)
EXTENDS Naturals, FiniteSets, SequencesExt

CONSTANTS
  MaxPushes,        \* bound of the model: operations recorded in a behaviour
  MaxGroups,        \* bound of the model: groups numbered in a behaviour
  MergeKeys,        \* nonzero values of nMergeKey
  Costs,            \* payload bytes of an operation
  nMaxOperations, cbMaxPayloads,
  InitialCapacity   \* 16 operations, or nMaxOperations when that is less

NoKey == 0          \* nMergeKey 0 never merges

ASSUME UndoAssumption ==
  /\ MaxPushes \in Nat /\ MaxGroups \in Nat /\ NoKey \notin MergeKeys
  /\ Costs \subseteq Nat
  /\ nMaxOperations \in Nat \ {0} /\ cbMaxPayloads \in Nat
  /\ InitialCapacity \in 1 .. nMaxOperations

VARIABLES
  ops,                \* pOperations, the oldest first
  iCursor,            \* the applied operations are ops[1 .. iCursor]
  nCapacity,
  nNextGroup,
  bTransactionOpen, iTransactionStart, nTransactionGroup,
  nEvictedGroups,
  document, nPushed,  \* the edited document, and the edits made to it
  documentAtBegin,    \* what a client restores when it cancels
  evicted,            \* groups that were evicted
  callbackFailed      \* an undo or a redo was stopped by its callback

transaction == <<bTransactionOpen, iTransactionStart, nTransactionGroup>>
uvars == <<ops, iCursor, nCapacity, nNextGroup, transaction, nEvictedGroups,
           document, nPushed, documentAtBegin, evicted, callbackFailed>>

-----------------------------------------------------------------------------
(* Operations and groups. *)

Operation == [edit : 1 .. MaxPushes, nMergeKey : MergeKeys \union {NoKey},
              nGroup : Nat, cb : Costs, before : Seq(1 .. MaxPushes)]

After(op) == Append(op.before, op.edit)

GroupsIn(seq) == {seq[i].nGroup : i \in DOMAIN seq}

\* cbPayloads: what the payloads of a journal cost.
Payloads(seq) ==
  LET Sum[n \in 0 .. Len(seq)] == IF n = 0 THEN 0 ELSE Sum[n - 1] + seq[n].cb
  IN  Sum[Len(seq)]

\* Positions between two groups, and the two ends.
Boundaries(seq) ==
  {n \in 0 .. Len(seq) :
     n \in {0, Len(seq)} \/ seq[n].nGroup # seq[n + 1].nGroup}

\* The ends of the group next to the cursor.
UndoStop(i) ==
  CHOOSE n \in Boundaries(ops) :
    n < i /\ \A m \in Boundaries(ops) : m < i => m <= n
RedoStop(i) ==
  CHOOSE n \in Boundaries(ops) :
    n > i /\ \A m \in Boundaries(ops) : m > i => m >= n

\* An index into the journal after RemoveRange took [iFirst, iEnd) out.
Rebased(i, iFirst, iEnd) ==
  IF i <= iFirst THEN i ELSE IF i < iEnd THEN iFirst ELSE i - (iEnd - iFirst)

\* The operation that a push with this key would extend the group of.
Merges(nMergeKey) ==
  /\ ~bTransactionOpen /\ nMergeKey # NoKey /\ iCursor # 0
  /\ ops[iCursor].nMergeKey = nMergeKey

ActiveGroup(nMergeKey) ==
  IF bTransactionOpen THEN nTransactionGroup
  ELSE IF Merges(nMergeKey) THEN ops[iCursor].nGroup ELSE 0

\* Where that group begins: it is what is applied from there on.
ActiveStart(nMergeKey) ==
  IF bTransactionOpen THEN iTransactionStart
  ELSE IF Merges(nMergeKey) THEN UndoStop(iCursor) ELSE iCursor

\* What RemoveRedo leaves.
Applied == SubSeq(ops, 1, iCursor)

Drop(seq, n) == SubSeq(seq, n + 1, Len(seq))

\* Another operation fits into both budgets once the redo operations and the n
\* oldest ones are gone.
HasRoom(n, cb) ==
  /\ iCursor - n < nMaxOperations
  /\ Payloads(Drop(Applied, n)) + cb <= cbMaxPayloads

\* The group being extended has to fit into the budgets as a whole.
GroupFits(nMergeKey, cb) == HasRoom(ActiveStart(nMergeKey), cb)

\* A slip: only as many operations as needed.
EvictSingly(cb) ==
  CHOOSE n \in 0 .. iCursor :
    HasRoom(n, cb) /\ \A m \in 0 .. n - 1 : ~HasRoom(m, cb)

\* MakeRoomForOperation: how many of the oldest operations have to go, in
\* whole groups.  (GroupFits: the protected group is never reached.)
Evictions(cb) ==
  CHOOSE n \in Boundaries(Applied) :
    /\ HasRoom(n, cb)
    /\ \A m \in Boundaries(Applied) : m < n => ~HasRoom(m, cb)

NextCapacity ==
  LET increase == IF nCapacity < 16 THEN nCapacity ELSE nCapacity \div 2
  IN  IF nCapacity + increase < nMaxOperations
        THEN nCapacity + increase ELSE nMaxOperations

-----------------------------------------------------------------------------
(* Recording. *)

\* The indices and counts after the n oldest operations are evicted.
Evict(n) ==
  /\ iTransactionStart' =
       IF bTransactionOpen THEN Rebased(iTransactionStart, 0, n)
                           ELSE iTransactionStart
  /\ nEvictedGroups' = nEvictedGroups + Cardinality(GroupsIn(SubSeq(ops, 1, n)))
  /\ evicted' = evicted \union GroupsIn(SubSeq(ops, 1, n))

\* The undone operations are dropped, room is made and the edit is recorded.
UndoRedo_Push(nMergeKey, cb) ==
  LET n == Evictions(cb)
      group == IF ActiveGroup(nMergeKey) # 0 THEN ActiveGroup(nMergeKey)
                                             ELSE nNextGroup
  IN  /\ nPushed < MaxPushes /\ group <= MaxGroups
      /\ GroupFits(nMergeKey, cb)
      /\ Evict(n)
      /\ nCapacity' = IF Len(Drop(Applied, n)) = nCapacity THEN NextCapacity
                                                           ELSE nCapacity
      /\ nNextGroup' = IF group = nNextGroup THEN nNextGroup + 1 ELSE nNextGroup
      /\ ops' = Append(Drop(Applied, n),
           [edit |-> nPushed + 1, nMergeKey |-> nMergeKey, nGroup |-> group,
            cb |-> cb, before |-> document])
      /\ iCursor' = Len(Applied) - n + 1
      /\ nPushed' = nPushed + 1
      /\ document' = Append(document, nPushed + 1)
      /\ UNCHANGED <<bTransactionOpen, nTransactionGroup, documentAtBegin,
                     callbackFailed>>

\* ReserveOperations fails after the journal was already cut at both ends.
PushFails(nMergeKey, cb) ==
  LET n == Evictions(cb)
  IN  /\ nPushed < MaxPushes
      /\ GroupFits(nMergeKey, cb)
      /\ Len(Drop(Applied, n)) = nCapacity /\ nCapacity < nMaxOperations
      /\ Evict(n)
      /\ ops' = Drop(Applied, n)
      /\ iCursor' = Rebased(iCursor, 0, n)
      /\ UNCHANGED <<nCapacity, nNextGroup, bTransactionOpen, nTransactionGroup,
                     document, nPushed, documentAtBegin, callbackFailed>>

UndoRedo_DiscardRedo ==
  /\ ~bTransactionOpen /\ iCursor < Len(ops)
  /\ ops' = Applied
  /\ UNCHANGED <<iCursor, nCapacity, nNextGroup, transaction, nEvictedGroups,
                 document, nPushed, documentAtBegin, evicted, callbackFailed>>

\* Everything is forgotten, an open transaction too.
UndoRedo_Clear ==
  /\ ops' = <<>> /\ iCursor' = 0
  /\ bTransactionOpen' = FALSE /\ iTransactionStart' = 0
  /\ nTransactionGroup' = 0
  /\ documentAtBegin' = <<>>
  /\ UNCHANGED <<nCapacity, nNextGroup, nEvictedGroups, document, nPushed,
                 evicted, callbackFailed>>

-----------------------------------------------------------------------------
(* Transactions. *)

\* The group is reserved before anything is recorded in it.
UndoRedo_BeginTransaction ==
  /\ ~bTransactionOpen /\ nNextGroup <= MaxGroups
  /\ bTransactionOpen' = TRUE
  /\ iTransactionStart' = iCursor
  /\ nTransactionGroup' = nNextGroup
  /\ nNextGroup' = nNextGroup + 1
  /\ documentAtBegin' = document
  /\ UNCHANGED <<ops, iCursor, nCapacity, nEvictedGroups, document, nPushed,
                 evicted, callbackFailed>>

TransactionEnds ==
  /\ bTransactionOpen
  /\ bTransactionOpen' = FALSE /\ iTransactionStart' = 0
  /\ nTransactionGroup' = 0
  /\ documentAtBegin' = <<>>
  /\ UNCHANGED <<nCapacity, nNextGroup, nEvictedGroups, nPushed, evicted,
                 callbackFailed>>

UndoRedo_CommitTransaction ==
  TransactionEnds /\ UNCHANGED <<ops, iCursor, document>>

\* The journal is cut where the transaction started.
UndoRedo_CancelTransaction ==
  /\ TransactionEnds
  /\ ops' = SubSeq(ops, 1, iTransactionStart)
  /\ iCursor' = Rebased(iCursor, iTransactionStart, Len(ops))
  /\ document' = documentAtBegin

-----------------------------------------------------------------------------
(* Undo and redo call back for one operation after the other; a callback   *)
(* that fails stops them with the cursor between two operations.           *)

UndoRedo_Undo ==
  /\ ~bTransactionOpen /\ iCursor # 0
  /\ \E done \in 0 .. iCursor - UndoStop(iCursor) :
       /\ iCursor' = iCursor - done
       /\ callbackFailed' = (callbackFailed \/ iCursor' # UndoStop(iCursor))
       /\ document' = IF done = 0 THEN document ELSE ops[iCursor'+ 1].before
  /\ UNCHANGED <<ops, nCapacity, nNextGroup, transaction, nEvictedGroups,
                 nPushed, documentAtBegin, evicted>>

UndoRedo_Redo ==
  /\ ~bTransactionOpen /\ iCursor < Len(ops)
  /\ \E done \in 0 .. RedoStop(iCursor) - iCursor :
       /\ iCursor' = iCursor + done
       /\ callbackFailed' = (callbackFailed \/ iCursor' # RedoStop(iCursor))
       /\ document' = IF done = 0 THEN document ELSE After(ops[iCursor'])
  /\ UNCHANGED <<ops, nCapacity, nNextGroup, transaction, nEvictedGroups,
                 nPushed, documentAtBegin, evicted>>

-----------------------------------------------------------------------------
UInit ==
  /\ ops = <<>> /\ iCursor = 0
  /\ nCapacity = InitialCapacity
  /\ nNextGroup = 1
  /\ bTransactionOpen = FALSE /\ iTransactionStart = 0 /\ nTransactionGroup = 0
  /\ nEvictedGroups = 0
  /\ document = <<>> /\ nPushed = 0 /\ documentAtBegin = <<>>
  /\ evicted = {} /\ callbackFailed = FALSE

\* Everything but UndoRedo_Clear.
UStep ==
  \/ \E nMergeKey \in MergeKeys \union {NoKey}, cb \in Costs :
       UndoRedo_Push(nMergeKey, cb) \/ PushFails(nMergeKey, cb)
  \/ UndoRedo_DiscardRedo
  \/ UndoRedo_BeginTransaction \/ UndoRedo_CommitTransaction
  \/ UndoRedo_CancelTransaction
  \/ UndoRedo_Undo \/ UndoRedo_Redo

-----------------------------------------------------------------------------
(* Properties. *)

\* HistoryIsValid, which every call tests first, never fails: indices stay in
\* the journal and the journal within its capacity and both budgets.
UTypeOK ==
  /\ ops \in Seq(Operation)
  /\ iCursor \in 0 .. Len(ops)
  /\ nCapacity \in 1 .. nMaxOperations /\ Len(ops) <= nCapacity
  /\ Payloads(ops) <= cbMaxPayloads
  /\ nNextGroup \in Nat \ {0} /\ nEvictedGroups \in Nat
  /\ bTransactionOpen \in BOOLEAN
  /\ iTransactionStart \in 0 .. iCursor
  /\ nTransactionGroup \in 0 .. nNextGroup - 1
  /\ document \in Seq(1 .. MaxPushes) /\ nPushed \in 0 .. MaxPushes
  /\ documentAtBegin \in Seq(1 .. MaxPushes) /\ callbackFailed \in BOOLEAN

\* Whatever is undone, redone, cut, evicted or left half done by a callback
\* that failed, every callback finds the document its operation left or found:
\* the journal is a path of documents and the live document is at the cursor.
JournalIsAPath ==
  /\ \A i \in 1 .. Len(ops) - 1 : ops[i + 1].before = After(ops[i])
  /\ iCursor < Len(ops) => document = ops[iCursor + 1].before
  /\ iCursor # 0 => document = After(ops[iCursor])

\* While a transaction is open, what it recorded is exactly what follows the
\* index that a cancellation cuts at, however many older groups were evicted
\* meanwhile, and that is the document the client restores.
TransactionIsSuffix ==
  bTransactionOpen =>
    /\ \A i \in 1 .. iCursor :
         ops[i].nGroup = nTransactionGroup <=> i > iTransactionStart
    /\ documentAtBegin = IF iTransactionStart = iCursor THEN document
                         ELSE ops[iTransactionStart + 1].before

\* CypherCommon_UndoRedo.cpp:283: a group is atomic.  None is evicted in part,
\* and unless a callback failed none is applied in part.
GroupsStayWhole ==
  /\ evicted \intersect GroupsIn(ops) = {}
  /\ Cardinality(evicted) = nEvictedGroups
  /\ callbackFailed \/ iCursor \in Boundaries(ops)

\* CypherCommon_UndoRedo.h:78: cancelling a transaction discards the operations
\* recorded since it began, and no others.
CancelDropsOnlyItsOwn ==
  [][UndoRedo_CancelTransaction =>
       \A i \in DOMAIN ops :
         ops[i].nGroup # nTransactionGroup => ops[i] \in Range(ops')]_uvars

\* The journal in whole: the documents that its operations expect, the part of it
\* that a transaction may cut, and its groups.
JournalSound == JournalIsAPath /\ TransactionIsSuffix /\ GroupsStayWhole
=============================================================================

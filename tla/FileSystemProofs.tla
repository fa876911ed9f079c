-------------------------- MODULE FileSystemProofs --------------------------
(***************************************************************************)
(* Proofs for the two parts of the filesystem runtime: the asynchronous    *)
(* requests, for any number of requests, slots and threads, and the watcher,*)
(* for any tree, targets and limits.                                       *)
(*                                                                         *)
(* The invariant of the requests has three layers.                         *)
(*                                                                         *)
(* Tracking says how slots, workers and a shutdown in progress relate; it  *)
(* needs nothing of the handles and shows that no worker is ever lost.     *)
(*                                                                         *)
(* Answering says what the handles clients hold find, and relates what     *)
(* they were told to the slot.  It needs handles that do not wrap within   *)
(* one lifetime of the filesystem, hence HandleMax >= MaxRequests: after   *)
(* 2^32 requests two slots could answer to one handle.                     *)
(*                                                                         *)
(* Waiting says what a blocked waiter finds.  It needs lifetimes that are  *)
(* coordinated.                                                            *)
(*                                                                         *)
(* The watcher: WatchKept says what the tables look like and on which watch*)
(* the call in progress is.  With it NetChangesReported is inductive,      *)
(* because what was emitted is a beginning of what a poll will hand over   *)
(* (EmittedKeeps), and a snapshot is replaced only by a poll that emitted  *)
(* all its differences (DifferencesEmitted).                               *)
(***************************************************************************)
EXTENDS FileSystemAsync, FileSystemWatch, Counting, SequenceTheorems

-----------------------------------------------------------------------------
(* The first layer. *)

Unfinished(r) == worker[r] \in {"launched", "inside", "left"}

\* A request has a worker from its admission on, and a slot in use belongs to
\* an admitted request, under the handle that was issued for it; its result is
\* cached only when the worker is done.
SlotsTracked ==
  /\ \A r \in Requests : worker[r] = "none" <=> r > nSubmitted
  /\ \A i \in Slots : slots[i].used =>
       /\ slots[i].future <= nSubmitted
       /\ slots[i].handle = issued[slots[i].future]
       /\ slots[i].bResultCached <=> slots[i].status \in Terminal
       /\ slots[i].bResultCached => Ready(slots[i].future)

ShutdownPCs == {"snapshot", "draining", "clear", "finish"}

\* At most one thread shuts down, and what it has done holds on: it waits for
\* every slot in use, then no slot has a worker, then no slot is in use.
ShutdownOrdered ==
  /\ \A t \in Threads : call[t].pc \in ShutdownPCs => initialized /\ shuttingDown
  /\ \A t, u \in Threads :
       call[t].pc \in ShutdownPCs /\ call[u].pc \in ShutdownPCs => t = u
  /\ \A t \in Threads, i \in Slots : slots[i].used =>
       /\ call[t].pc = "draining" => slots[i].future \in drain
       /\ call[t].pc = "clear" => Ready(slots[i].future)
       /\ call[t].pc # "finish"

\* A thread in FS_WaitAsync asks with a handle that was issued.
WaitersAsk ==
  \A t \in Threads : call[t].pc \in {"waiting", "repoll"} =>
    call[t].request \in Requests /\ issued[call[t].request] # InvalidHandle

Tracking == /\ TypeOK /\ RunningWorkersTracked /\ SlotsTracked
            /\ ShutdownOrdered /\ WaitersAsk

-----------------------------------------------------------------------------
(* The second layer. *)

\* The handles clients hold are different and were all issued before the next
\* one; no slot is in use for a request of an earlier lifetime.
HandlesDiffer ==
  /\ \A r \in Requests : issued[r] # InvalidHandle \/ old[r] \/ cancelOk[r] => r <= nSubmitted
  /\ \A r, q \in Requests : Holds(r) /\ Holds(q) /\ issued[r] = issued[q] => r = q
  /\ nSubmitted < MaxRequests =>
       /\ nextAsyncRequest \in 1 .. nSubmitted + 1
       /\ \A r \in Requests : Holds(r) => issued[r] < nextAsyncRequest
  /\ \A i \in Slots : slots[i].used => ~old[slots[i].future]
  /\ \A i, j \in Slots :
       slots[i].used /\ slots[j].used /\ slots[i].future = slots[j].future => i = j

\* A slot in use remembers what its client was told, and an accepted
\* cancellation.
SlotsRemember ==
  \A i \in Slots : slots[i].used =>
    LET r == slots[i].future
    IN  /\ told[r] \subseteq IF slots[i].bResultCached THEN {slots[i].status} ELSE {}
        /\ slots[i].status = "COMPLETE" => outcome[r] = "COMPLETE"
        /\ cancelOk[r] => /\ slots[i].cancelled
                          /\ slots[i].bResultCached => slots[i].status = "CANCELLED"

\* ResultsAgree without Cardinality.
OneAnswer ==
  \A r \in Requests :
    /\ \A a, b \in told[r] : a = b
    /\ "COMPLETE" \in told[r] => outcome[r] = "COMPLETE"

Answers == SlotsRemember /\ BorrowedBuffersSafe /\ OneAnswer /\ AcceptedCancelWins

Answering == HandlesDiffer /\ Answers

-----------------------------------------------------------------------------
(* The third layer. *)

\* A result is cached, or a request cancelled, for no reason but that its
\* client has the result, cancelled it, or somebody shuts down.
SlotsAccountFor ==
  \A i \in Slots : slots[i].used =>
    LET r == slots[i].future
    IN  /\ slots[i].bResultCached => told[r] # {}
        /\ slots[i].cancelled => cancelOk[r] \/ shuttingDown

Answered(r) == \/ old[r] \/ shuttingDown \/ cancelOk[r] \/ told[r] # {}
               \/ \E i \in Slots : slots[i].used /\ slots[i].future = r

\* A blocked waiter waits for the future of its own request, and never into the
\* next lifetime.
WaitersTracked ==
  \A t \in Threads : call[t].pc \in {"waiting", "repoll"} =>
    LET r == call[t].request
    IN  /\ old[r] => ~initialized
        /\ Answered(r)

Waiting == SlotsAccountFor /\ WaitersTracked

-----------------------------------------------------------------------------
(* What the helpers return. *)

\* The first of a set of slots, when it has any.
LEMMA FirstIsMember ==
  ASSUME NEW S \in SUBSET Slots, First(S) # NoSlot
  PROVE  First(S) \in S
<1>1. S # {}
  BY DEF First
<1>2. S \subseteq Nat
  BY AsyncAssumption DEF Slots
<1>3. PICK m \in S : \A n \in S : <<n, m>> \notin OpToRel(<, Nat)
  BY <1>1, <1>2, WFMin, NatLessThanWellFounded, Zenon
<1>4. \A n \in S : m <= n
  <2> TAKE n \in S
  <2>1. ~ (n < m)
    BY <1>2, <1>3, Zenon DEF OpToRel
  <2> QED
    BY <1>2, <2>1
<1> QED
  BY <1>1, <1>4 DEF First

\* The slot of a handle, when there is one.
LEMMA FoundSlot ==
  ASSUME NEW h, FindAsyncRequest(h) # NoSlot
  PROVE  /\ FindAsyncRequest(h) \in Slots
         /\ slots[FindAsyncRequest(h)].used
         /\ slots[FindAsyncRequest(h)].handle = h
<1> DEFINE S == {i \in Slots : slots[i].used /\ slots[i].handle = h}
<1>1. FindAsyncRequest(h) = First(S) /\ S \in SUBSET Slots
  BY DEF FindAsyncRequest
<1> HIDE DEF S
<1>2. FindAsyncRequest(h) \in S
  BY <1>1, FirstIsMember
<1> QED
  BY <1>2 DEF S

\* The slot for a new request: unused, or its result is final and its worker
\* is done.
LEMMA AllocatedSlot ==
  ASSUME AllocateAsyncRequest # NoSlot
  PROVE  /\ AllocateAsyncRequest \in Slots
         /\ \/ ~slots[AllocateAsyncRequest].used
            \/ Reclaimable(slots[AllocateAsyncRequest])
<1> DEFINE S == {i \in Slots : ~slots[i].used}
           R == {i \in Slots : Reclaimable(slots[i])}
           T == IF S # {} THEN S ELSE R
<1>1. AllocateAsyncRequest = First(T)
  BY DEF AllocateAsyncRequest
<1>2. T \in SUBSET Slots
  OBVIOUS
<1>3. First(T) \in T
  <2> HIDE DEF T
  <2> QED BY <1>1, <1>2, FirstIsMember
<1> QED
  BY <1>1, <1>3

\* Cancelling changes nothing else of a slot.
LEMMA CancelledSlot ==
  ASSUME NEW s \in Slot
  PROVE  LET c == [s EXCEPT !.cancelled = TRUE]
         IN  /\ c \in Slot /\ c.cancelled
             /\ c.used = s.used /\ c.handle = s.handle /\ c.future = s.future
             /\ c.status = s.status /\ c.bResultCached = s.bResultCached
  BY DEF Slot

\* A slot that was reset is not in use.
LEMMA EmptySlotType == EmptySlot \in Slot /\ ~EmptySlot.used
  BY AsyncAssumption DEF EmptySlot, Slot, InvalidHandle

\* The next handle is valid, and counting on stays in range.
LEMMA AllocatedHandle ==
  ASSUME nextAsyncRequest \in 0 .. HandleMax
  PROVE  /\ AllocateAsyncHandle \in 1 .. HandleMax
         /\ Wrapped(AllocateAsyncHandle + 1) \in 0 .. HandleMax
<1>1. AllocateAsyncHandle \in 1 .. HandleMax
  BY AsyncAssumption DEF AllocateAsyncHandle, InvalidHandle
<1>2. \A a, b \in Nat : b > 0 => a % b \in 0 .. b - 1
  OBVIOUS
<1> QED
  BY <1>1, <1>2, AsyncAssumption DEF Wrapped

\* What an observation may do to a slot: cache the result of a worker that is
\* done, in the slot that has the handle.
LEMMA ObservedSlot ==
  ASSUME slots \in [Slots -> Slot], NEW r, Observe(r)
  PROVE  \A i \in Slots :
              \/ slots'[i] = slots[i]
              \/ /\ slots'[i] = Completed(slots[i])
                 /\ slots[i].used /\ slots[i].handle = issued[r]
                 /\ slots[i].bResultCached \/ Ready(slots[i].future)
<1> DEFINE k == FindAsyncRequest(issued[r])
<1>1. CASE slots' = slots
  BY <1>1
<1>2. CASE slots' # slots
  <2>1. /\ k # NoSlot
        /\ slots[k].bResultCached \/ Ready(slots[k].future)
        /\ slots' = [slots EXCEPT ![k] = Completed(@)]
    BY <1>2 DEF Observe
  <2>2. k \in Slots /\ slots[k].used /\ slots[k].handle = issued[r]
    BY <2>1, FoundSlot
  <2> HIDE DEF k
  <2> QED
    BY <2>1, <2>2
<1> QED
  BY <1>1, <1>2

\* A step that leaves every slot in use for the same request, and the cached
\* results sound.
KeepsUse ==
  /\ slots' \in [Slots -> Slot]
  /\ \A i \in Slots :
       /\ slots'[i].used = slots[i].used
       /\ slots'[i].handle = slots[i].handle
       /\ slots'[i].future = slots[i].future
       /\ slots[i].used =>
            /\ slots'[i].bResultCached <=> slots'[i].status \in Terminal
            /\ slots'[i].bResultCached => Ready(slots[i].future)

\* An observation keeps the use of every slot.
LEMMA ObserveKeepsUse ==
  ASSUME TypeOK, SlotsTracked, NEW q, Observe(q)
  PROVE  KeepsUse /\ told' \in [Requests -> SUBSET Terminal]
<1> USE DEF KeepsUse
<1> DEFINE k == FindAsyncRequest(issued[q])
<1>1. CASE slots' = slots /\ told' = told
  BY <1>1 DEF TypeOK, SlotsTracked
<1>2. CASE ~(slots' = slots /\ told' = told)
  <2>1. /\ k # NoSlot
        /\ slots[k].bResultCached \/ Ready(slots[k].future)
        /\ slots' = [slots EXCEPT ![k] = Completed(@)]
        /\ told' = IF old[q] THEN told
                   ELSE [told EXCEPT ![q] = @ \union {Completed(slots[k]).status}]
    BY <1>2 DEF Observe
  <2>2. k \in Slots /\ slots[k].used
    BY <2>1, FoundSlot
  <2> HIDE DEF k
  <2>3. slots[k] \in Slot /\ slots[k].future \in Requests
    BY <2>2 DEF TypeOK, Slot
  <2> DEFINE c == Completed(slots[k])
  <2>4. /\ c \in Slot
        /\ c.used = slots[k].used /\ c.handle = slots[k].handle
        /\ c.future = slots[k].future /\ c.cancelled = slots[k].cancelled
        /\ c.bResultCached /\ c.status \in Terminal
    BY <2>2, <2>3 DEF Completed, Slot, Terminal, TypeOK, SlotsTracked
  <2>5. Ready(slots[k].future)
    BY <2>1, <2>2 DEF SlotsTracked
  <2> HIDE DEF c
  <2>6. slots' = [slots EXCEPT ![k] = c]
    BY <2>1 DEF c
  <2>7. \A i \in Slots : slots'[i] = IF i = k THEN c ELSE slots[i]
    BY <2>6 DEF TypeOK
  <2>8. told' \in [Requests -> SUBSET Terminal]
    BY <2>1, <2>4 DEF c, TypeOK
  <2>9. slots' \in [Slots -> Slot]
    BY <2>4, <2>6 DEF TypeOK
  <2> QED
    BY <2>2, <2>4, <2>5, <2>7, <2>8, <2>9 DEF SlotsTracked, Ready
<1> QED
  BY <1>1, <1>2

\* So does a cancellation.
LEMMA CancelKeepsUse ==
  ASSUME TypeOK, SlotsTracked, NEW r, FS_CancelAsync(r)
  PROVE  KeepsUse
<1> DEFINE k == FindAsyncRequest(issued[r])
           c == [slots[k] EXCEPT !.cancelled = TRUE]
<1>1. k \in Slots /\ slots[k].used
  BY FoundSlot DEF FS_CancelAsync
<1>2. slots' = [slots EXCEPT ![k] = c] /\ slots \in [Slots -> Slot]
  BY <1>1 DEF FS_CancelAsync, TypeOK
<1>3. /\ c \in Slot /\ c.used = slots[k].used
      /\ c.handle = slots[k].handle /\ c.future = slots[k].future
      /\ c.status = slots[k].status /\ c.bResultCached = slots[k].bResultCached
  BY <1>1, CancelledSlot DEF TypeOK
<1> HIDE DEF c, k
<1> QED
  BY <1>1, <1>2, <1>3 DEF KeepsUse, SlotsTracked

\* So does a shutdown that marks every slot in use as cancelled.
LEMMA SnapshotKeepsUse ==
  ASSUME TypeOK, SlotsTracked, NEW t, ShutdownSnapshot(t)
  PROVE  KeepsUse
<1>1. \A i \in Slots : slots'[i] = slots[i] \/ slots'[i] = [slots[i] EXCEPT !.cancelled = TRUE]
  BY DEF ShutdownSnapshot
<1>2. slots' \in [Slots -> Slot]
  BY CancelledSlot DEF ShutdownSnapshot, TypeOK
<1>3. ASSUME NEW i \in Slots
      PROVE  /\ slots'[i].used = slots[i].used
             /\ slots'[i].handle = slots[i].handle
             /\ slots'[i].future = slots[i].future
             /\ slots'[i].status = slots[i].status
             /\ slots'[i].bResultCached = slots[i].bResultCached
  <2>1. slots[i] \in Slot
    BY DEF TypeOK
  <2> QED
    BY <1>1, <2>1, CancelledSlot
<1> QED
  BY <1>2, <1>3 DEF KeepsUse, SlotsTracked

-----------------------------------------------------------------------------
(* The first layer holds. *)

\* A step keeps every variable in its type.
LEMMA TypeStep ==
  ASSUME Tracking, [Next]_vars
  PROVE  TypeOK'
<1> USE AsyncAssumption DEF Tracking
<1>1. CASE FS_Init
  BY <1>1 DEF FS_Init, TypeOK, workers, clients
<1>2. CASE SubmitAsyncRequest
  BY <1>2, AllocatedSlot, AllocatedHandle
  DEF SubmitAsyncRequest, CanSubmit, TypeOK, Slot, Requests, NoRequest, InvalidHandle
<1>3. CASE LaunchFails
  BY <1>3, AllocatedSlot
  DEF LaunchFails, CanSubmit, TypeOK, Slot, EmptySlot, NoRequest, InvalidHandle,
      runtime, workers, clients
<1>4. CASE \E r \in Requests : WorkerStep(r)
  BY <1>4
  DEF WorkerStep, WorkerEnter, WorkerLeave, WorkerReady, TypeOK, runtime, workers,
      clients
<1>5. CASE \E r \in Requests : FS_PollAsync(r)
  <2> PICK r \in Requests : FS_PollAsync(r)
    BY <1>5
  <2> QED
    BY ObserveKeepsUse DEF KeepsUse, FS_PollAsync, TypeOK, runtime, workers
<1>6. CASE \E r \in Requests : FS_CancelAsync(r)
  <2> PICK r \in Requests : FS_CancelAsync(r)
    BY <1>6
  <2> QED
    BY CancelKeepsUse DEF KeepsUse, FS_CancelAsync, TypeOK, runtime, workers
<1>7. CASE \E t \in Threads, r \in Requests : WaitBegin(t, r)
  BY <1>7, FoundSlot
  DEF WaitBegin, MutexWhileBlocked, TypeOK, Call, Slot, runtime, workers, clients
<1>8. CASE \E t \in Threads : WaitWakes(t)
  BY <1>8 DEF WaitWakes, TypeOK, Call, runtime, workers, clients
<1>9. CASE \E t \in Threads : WaitPolls(t)
  <2> PICK t \in Threads : WaitPolls(t)
    BY <1>9
  <2>1. call' \in [Threads -> Call]
    BY DEF WaitPolls, TypeOK, Call, Idle
  <2> QED
    BY <2>1, ObserveKeepsUse DEF KeepsUse, WaitPolls, TypeOK, runtime, workers
<1>10. CASE \E t \in Threads : ShutdownCloses(t)
  BY <1>10 DEF ShutdownCloses, TypeOK, Call, workers, clients
<1>11. CASE \E t \in Threads : ShutdownSnapshot(t)
  <2> PICK t \in Threads : ShutdownSnapshot(t)
    BY <1>11
  <2>1. KeepsUse
    BY SnapshotKeepsUse
  <2>2. drain' \subseteq Requests
    BY DEF ShutdownSnapshot, TypeOK, Slot, NoRequest
  <2>3. call' \in [Threads -> Call]
    BY DEF ShutdownSnapshot, TypeOK, Call
  <2> QED
    BY <2>1, <2>2, <2>3
    DEF KeepsUse, ShutdownSnapshot, MutexWhileBlocked, TypeOK, runtime, workers,
        clients
<1>12. CASE \E t \in Threads : ShutdownDrains(t)
  BY <1>12 DEF ShutdownDrains, TypeOK, Call, runtime, workers, clients
<1>13. CASE \E t \in Threads : ShutdownClears(t)
  <2> PICK t \in Threads : ShutdownClears(t)
    BY <1>13
  <2>1. slots' \in [Slots -> Slot] /\ \A i \in Slots : ~slots'[i].used
    BY EmptySlotType DEF ShutdownClears
  <2>2. call' \in [Threads -> Call]
    BY DEF ShutdownClears, TypeOK, Call, Idle
  <2> QED
    BY <2>1, <2>2 DEF ShutdownClears, TypeOK, runtime, workers, clients
<1>14. CASE \E t \in Threads : ShutdownFinishes(t)
  <2> PICK t \in Threads : ShutdownFinishes(t)
    BY <1>14
  <2>1. slots' \in [Slots -> Slot] /\ \A i \in Slots : ~slots'[i].used
    BY EmptySlotType DEF ShutdownFinishes
  <2>2. call' \in [Threads -> Call]
    BY DEF ShutdownFinishes, TypeOK, Call, Idle
  <2>3. old' \in [Requests -> BOOLEAN]
    BY DEF ShutdownFinishes
  <2>4. nextAsyncRequest' \in 0 .. HandleMax
    BY DEF ShutdownFinishes
  <2> QED
    BY <2>1, <2>2, <2>3, <2>4 DEF ShutdownFinishes, TypeOK, workers
<1>15. CASE UNCHANGED vars
  BY <1>15 DEF vars, TypeOK, runtime, workers, clients
<1> QED
  BY <1>1, <1>2, <1>3, <1>4, <1>5, <1>6, <1>7, <1>8, <1>9, <1>10, <1>11, <1>12,
     <1>13, <1>14, <1>15 DEF Next, BlockedStep

\* When a step keeps the use of every slot and neither admits a request nor
\* moves a worker, no worker is lost.
LEMMA KeptUseTracked ==
  ASSUME Tracking, KeepsUse, UNCHANGED <<initialized, worker, nSubmitted, issued>>
  PROVE  RunningWorkersTracked' /\ SlotsTracked'
  BY DEF Tracking, KeepsUse, RunningWorkersTracked, SlotsTracked, Ready

\* No step loses a worker: a slot is given to a new request only when its worker
\* is done, and a shutdown empties the table only when all are.
LEMMA TrackedStep ==
  ASSUME Tracking, [Next]_vars
  PROVE  RunningWorkersTracked' /\ SlotsTracked'
<1> USE AsyncAssumption DEF Tracking
<1>1. CASE FS_Init
  BY <1>1 DEF FS_Init, RunningWorkersTracked, SlotsTracked, Ready, workers, clients
<1>2. CASE SubmitAsyncRequest
  <2> DEFINE k == AllocateAsyncRequest
             q == nSubmitted + 1
  <2>1. k \in Slots /\ (slots[k].used => Ready(slots[k].future))
    BY <1>2, AllocatedSlot DEF SubmitAsyncRequest, CanSubmit, Reclaimable
  <2>2. q \in Requests /\ nSubmitted' = q /\ initialized' /\ initialized
    BY <1>2 DEF SubmitAsyncRequest, CanSubmit, Admits, TypeOK, Requests
  <2>3. /\ slots'[k].used /\ slots'[k].future = q
        /\ slots'[k].handle = issued'[q] /\ ~slots'[k].bResultCached
        /\ slots'[k].status \notin Terminal
        /\ \A i \in Slots : i # k => slots'[i] = slots[i]
    BY <1>2, <2>1, <2>2 DEF SubmitAsyncRequest, TypeOK, Terminal
  <2>4. /\ \A r \in Requests : r # q => worker'[r] = worker[r] /\ issued'[r] = issued[r]
        /\ worker'[q] = "launched" /\ worker[q] = "none"
    BY <1>2, <2>2 DEF SubmitAsyncRequest, TypeOK, SlotsTracked
  <2> HIDE DEF k, q
  <2>5. RunningWorkersTracked'
    <3> SUFFICES ASSUME NEW r \in Requests, worker'[r] \in {"launched", "inside", "left"}
                 PROVE  \E i \in Slots : slots'[i].used /\ slots'[i].future = r
                                         /\ slots'[i].handle = issued'[r]
      BY <2>2 DEF RunningWorkersTracked
    <3>1. CASE r = q
      BY <3>1, <2>1, <2>3
    <3>2. CASE r # q
      BY <3>2, <2>1, <2>3, <2>4 DEF RunningWorkersTracked, Ready
    <3> QED
      BY <3>1, <3>2
  <2>6. SlotsTracked'
    <3>1. \A r \in Requests : worker'[r] = "none" <=> r > nSubmitted'
      <4> SUFFICES ASSUME NEW r \in Requests
                   PROVE  worker'[r] = "none" <=> r > q
        BY <2>2
      <4>1. CASE r = q
        BY <4>1, <2>2, <2>4 DEF Requests
      <4>2. CASE r # q
        <5>1. worker'[r] = worker[r] /\ (worker[r] = "none" <=> r > nSubmitted)
          BY <4>2, <2>4 DEF SlotsTracked
        <5>2. r > nSubmitted <=> r > q
          BY <4>2 DEF TypeOK, Requests, q
        <5> QED
          BY <5>1, <5>2
      <4> QED
        BY <4>1, <4>2
    <3>2. ASSUME NEW i \in Slots, slots'[i].used
          PROVE  /\ slots'[i].future <= nSubmitted'
                 /\ slots'[i].handle = issued'[slots'[i].future]
                 /\ slots'[i].bResultCached <=> slots'[i].status \in Terminal
                 /\ slots'[i].bResultCached => worker'[slots'[i].future] = "ready"
      <4>1. CASE i = k
        BY <4>1, <2>2, <2>3 DEF TypeOK, Requests
      <4>2. CASE i # k
        <5>1. slots'[i] = slots[i] /\ slots[i].future \in Requests
          BY <3>2, <4>2, <2>3 DEF TypeOK, Slot
        <5>2. slots[i].future # q /\ slots[i].future <= nSubmitted'
          BY <3>2, <5>1, <2>2 DEF SlotsTracked, TypeOK, Requests, q
        <5> QED
          BY <3>2, <5>1, <5>2, <2>4 DEF SlotsTracked, Ready
      <4> QED
        BY <4>1, <4>2
    <3> QED
      BY <3>1, <3>2 DEF SlotsTracked, Ready
  <2> QED
    BY <2>5, <2>6
<1>3. CASE LaunchFails
  <2> DEFINE k == AllocateAsyncRequest
  <2>1. k \in Slots /\ (slots[k].used => Ready(slots[k].future))
    BY <1>3, AllocatedSlot DEF LaunchFails, CanSubmit, Reclaimable
  <2>2. \A i \in Slots : slots'[i] = IF i = k THEN EmptySlot ELSE slots[i]
    BY <1>3, <2>1 DEF LaunchFails, TypeOK
  <2>3. UNCHANGED <<runtime, workers, nSubmitted, clients>>
    BY <1>3 DEF LaunchFails
  <2> HIDE DEF k
  <2> QED
    BY <2>1, <2>2, <2>3, EmptySlotType
    DEF RunningWorkersTracked, SlotsTracked, Ready, runtime, workers, clients
<1>4. CASE \E r \in Requests : WorkerStep(r)
  BY <1>4 DEF WorkerStep, WorkerEnter, WorkerLeave, WorkerReady, TypeOK, Slot,
              RunningWorkersTracked, SlotsTracked, Ready, runtime, clients
<1>5. CASE \E r \in Requests : FS_PollAsync(r)
  BY <1>5, ObserveKeepsUse, KeptUseTracked DEF FS_PollAsync, runtime, workers
<1>6. CASE \E r \in Requests : FS_CancelAsync(r)
  BY <1>6, CancelKeepsUse, KeptUseTracked DEF FS_CancelAsync, runtime, workers
<1>7. CASE \E t \in Threads, r \in Requests : WaitBegin(t, r)
  BY <1>7
  DEF WaitBegin, RunningWorkersTracked, SlotsTracked, Ready, runtime, workers,
      clients
<1>8. CASE \E t \in Threads : WaitWakes(t) \/ ShutdownDrains(t)
  BY <1>8
  DEF WaitWakes, ShutdownDrains, RunningWorkersTracked, SlotsTracked, Ready,
      runtime, workers, clients
<1>9. CASE \E t \in Threads : WaitPolls(t)
  BY <1>9, ObserveKeepsUse, KeptUseTracked DEF WaitPolls, runtime, workers
<1>10. CASE \E t \in Threads : ShutdownCloses(t)
  BY <1>10
  DEF ShutdownCloses, RunningWorkersTracked, SlotsTracked, Ready, workers, clients
<1>11. CASE \E t \in Threads : ShutdownSnapshot(t)
  BY <1>11, SnapshotKeepsUse, KeptUseTracked
  DEF ShutdownSnapshot, runtime, workers, clients
<1>12. CASE \E t \in Threads : ShutdownClears(t) \/ ShutdownFinishes(t)
  <2> PICK t \in Threads : ShutdownClears(t) \/ ShutdownFinishes(t)
    BY <1>12
  <2>1. \A i \in Slots : slots[i].used => Ready(slots[i].future)
    BY DEF ShutdownClears, ShutdownFinishes, ShutdownOrdered
  <2>2. \A r \in Requests : worker[r] \notin {"launched", "inside", "left"}
    BY <2>1 DEF RunningWorkersTracked, Ready
  <2>3. \A i \in Slots : ~slots'[i].used
    BY EmptySlotType DEF ShutdownClears, ShutdownFinishes
  <2> QED
    BY <2>2, <2>3 DEF ShutdownClears, ShutdownFinishes, RunningWorkersTracked,
                      SlotsTracked, runtime, workers, clients
<1>13. CASE UNCHANGED vars
  BY <1>13
  DEF vars, RunningWorkersTracked, SlotsTracked, Ready, runtime, workers, clients
<1> QED
  BY <1>1, <1>2, <1>3, <1>4, <1>5, <1>6, <1>7, <1>8, <1>9, <1>10, <1>11, <1>12,
     <1>13 DEF Next, BlockedStep

\* A step that keeps the use of every slot and starts or ends no shutdown phase
\* leaves the shutdown in order.
LEMMA KeptUseOrdered ==
  ASSUME Tracking, KeepsUse, UNCHANGED <<initialized, shuttingDown, worker, drain>>,
         \A t \in Threads : /\ call'[t].pc \in ShutdownPCs <=> call[t].pc \in ShutdownPCs
                            /\ call[t].pc \in ShutdownPCs => call'[t] = call[t]
  PROVE  ShutdownOrdered'
  BY DEF Tracking, KeepsUse, ShutdownOrdered, ShutdownPCs, Ready

\* The phases of a shutdown happen once and in order, whatever other threads do
\* meanwhile: no request is admitted after its snapshot.
LEMMA OrderedStep ==
  ASSUME Tracking, [Next]_vars
  PROVE  ShutdownOrdered'
<1> USE AsyncAssumption DEF Tracking
<1>1. CASE FS_Init
  BY <1>1 DEF FS_Init, ShutdownOrdered, Ready, workers
<1>2. CASE SubmitAsyncRequest \/ LaunchFails
  <2>1. \A t \in Threads : call'[t].pc \notin ShutdownPCs
    BY <1>2 DEF SubmitAsyncRequest, LaunchFails, CanSubmit, Admits, ShutdownOrdered
  <2> QED
    BY <2>1 DEF ShutdownOrdered, ShutdownPCs
<1>3. CASE \E r \in Requests : WorkerStep(r)
  BY <1>3 DEF WorkerStep, WorkerEnter, WorkerLeave, WorkerReady, TypeOK, Slot,
              ShutdownOrdered, Ready, runtime
<1>4. CASE \E r \in Requests : FS_PollAsync(r)
  BY <1>4, ObserveKeepsUse, KeptUseOrdered DEF FS_PollAsync, runtime, workers
<1>5. CASE \E r \in Requests : FS_CancelAsync(r)
  BY <1>5, CancelKeepsUse, KeptUseOrdered DEF FS_CancelAsync, runtime, workers
<1>6. CASE \E t \in Threads, r \in Requests : WaitBegin(t, r)
  BY <1>6
  DEF WaitBegin, Idle, TypeOK, Call, ShutdownOrdered, ShutdownPCs, Ready, runtime,
      workers
<1>7. CASE \E t \in Threads : WaitWakes(t)
  BY <1>7
  DEF WaitWakes, TypeOK, Call, ShutdownOrdered, ShutdownPCs, Ready, runtime, workers
<1>8. CASE \E t \in Threads : WaitPolls(t)
  <2> PICK t \in Threads : WaitPolls(t)
    BY <1>8
  <2>1. KeepsUse
    BY ObserveKeepsUse DEF WaitPolls
  <2>2. /\ call[t].pc = "repoll" /\ call'[t].pc = "idle"
        /\ \A u \in Threads : u # t => call'[u] = call[u]
    BY DEF WaitPolls, Idle, TypeOK
  <2> QED
    BY <2>1, <2>2, KeptUseOrdered DEF WaitPolls, ShutdownPCs, runtime, workers
<1>9. CASE \E t \in Threads : ShutdownCloses(t)
  <2> PICK t \in Threads : ShutdownCloses(t)
    BY <1>9
  <2>1. \A u \in Threads : call[u].pc \notin ShutdownPCs
    BY DEF ShutdownCloses, ShutdownOrdered
  <2>2. /\ call'[t].pc = "snapshot"
        /\ \A u \in Threads : u # t => call'[u] = call[u]
    BY DEF ShutdownCloses, TypeOK, Call
  <2> QED
    BY <2>1, <2>2 DEF ShutdownCloses, ShutdownOrdered, ShutdownPCs
<1>10. CASE \E t \in Threads : ShutdownSnapshot(t)
  <2> PICK t \in Threads : ShutdownSnapshot(t)
    BY <1>10
  <2>1. KeepsUse
    BY SnapshotKeepsUse
  <2>2. \A i \in Slots : slots[i].used => slots[i].future \in drain'
    BY DEF ShutdownSnapshot
  <2>3. /\ call[t].pc = "snapshot" /\ call'[t].pc = "draining"
        /\ \A u \in Threads : u # t => call'[u] = call[u]
    BY DEF ShutdownSnapshot, TypeOK, Call
  <2> QED
    BY <2>1, <2>2, <2>3
    DEF ShutdownSnapshot, ShutdownOrdered, ShutdownPCs, KeepsUse, runtime
<1>11. CASE \E t \in Threads : ShutdownDrains(t)
  <2> PICK t \in Threads : ShutdownDrains(t)
    BY <1>11
  <2>1. /\ call[t].pc = "draining" /\ call'[t].pc = "clear"
        /\ \A u \in Threads : u # t => call'[u] = call[u]
    BY DEF ShutdownDrains, TypeOK, Call
  <2>2. \A i \in Slots : slots[i].used => Ready(slots[i].future)
    BY <2>1 DEF ShutdownDrains, ShutdownOrdered
  <2> QED
    BY <2>1, <2>2
    DEF ShutdownDrains, ShutdownOrdered, ShutdownPCs, Ready, runtime, workers
<1>12. CASE \E t \in Threads : ShutdownClears(t)
  <2> PICK t \in Threads : ShutdownClears(t)
    BY <1>12
  <2>1. /\ call[t].pc = "clear" /\ call'[t].pc = "finish"
        /\ \A u \in Threads : u # t => call'[u] = call[u]
    BY DEF ShutdownClears, TypeOK, Call
  <2>2. \A i \in Slots : ~slots'[i].used
    BY EmptySlotType DEF ShutdownClears
  <2> QED
    BY <2>1, <2>2 DEF ShutdownClears, ShutdownOrdered, ShutdownPCs, runtime
<1>13. CASE \E t \in Threads : ShutdownFinishes(t)
  <2> PICK t \in Threads : ShutdownFinishes(t)
    BY <1>13
  <2>1. /\ call[t].pc = "finish" /\ call'[t].pc = "idle"
        /\ \A u \in Threads : u # t => call'[u] = call[u]
    BY DEF ShutdownFinishes, TypeOK, Idle
  <2>2. \A u \in Threads : call'[u].pc \notin ShutdownPCs
    BY <2>1 DEF ShutdownOrdered, ShutdownPCs
  <2> QED
    BY <2>2 DEF ShutdownOrdered, ShutdownPCs
<1>14. CASE UNCHANGED vars
  BY <1>14 DEF vars, ShutdownOrdered, Ready, runtime, workers
<1> QED
  BY <1>1, <1>2, <1>3, <1>4, <1>5, <1>6, <1>7, <1>8, <1>9, <1>10, <1>11, <1>12,
     <1>13, <1>14 DEF Next, BlockedStep

\* Handles that waiters ask with stay issued.
LEMMA AskStep ==
  ASSUME Tracking, [Next]_vars
  PROVE  WaitersAsk'
<1> USE AsyncAssumption DEF Tracking
<1>1. ASSUME UNCHANGED issued,
             \A t \in Threads : call'[t].pc \in {"waiting", "repoll"} =>
               call[t].pc \in {"waiting", "repoll"} /\ call'[t].request = call[t].request
      PROVE  WaitersAsk'
  BY <1>1 DEF WaitersAsk
<1>2. CASE SubmitAsyncRequest
  <2>1. \A r \in Requests : issued'[r] = issued[r] \/ issued'[r] # InvalidHandle
    BY <1>2, AllocatedHandle DEF SubmitAsyncRequest, TypeOK, InvalidHandle
  <2> QED
    BY <1>2, <2>1 DEF SubmitAsyncRequest, WaitersAsk
<1>3. CASE FS_Init \/ LaunchFails
  BY <1>1, <1>3 DEF FS_Init, LaunchFails, clients
<1>4. CASE \E r \in Requests : WorkerStep(r)
  BY <1>1, <1>4 DEF WorkerStep, WorkerEnter, WorkerLeave, WorkerReady, clients
<1>5. CASE \E r \in Requests : FS_PollAsync(r) \/ FS_CancelAsync(r)
  BY <1>1, <1>5 DEF FS_PollAsync, FS_CancelAsync
<1>6. CASE \E t \in Threads, r \in Requests : WaitBegin(t, r)
  BY <1>6 DEF WaitBegin, WaitersAsk, Holds, TypeOK, Call, clients
<1>7. CASE \E t \in Threads : WaitWakes(t)
  BY <1>1, <1>7 DEF WaitWakes, TypeOK, Call, clients
<1>8. CASE \E t \in Threads : WaitPolls(t) \/ ShutdownFinishes(t)
  BY <1>1, <1>8 DEF WaitPolls, ShutdownFinishes, TypeOK, Idle
<1>9. CASE \E t \in Threads : ShutdownCloses(t) \/ ShutdownSnapshot(t)
                               \/ ShutdownDrains(t) \/ ShutdownClears(t)
  BY <1>1, <1>9 DEF ShutdownCloses, ShutdownSnapshot, ShutdownDrains, ShutdownClears,
                    TypeOK, Call, clients
<1>10. CASE UNCHANGED vars
  BY <1>1, <1>10 DEF vars, clients
<1> QED
  BY <1>2, <1>3, <1>4, <1>5, <1>6, <1>7, <1>8, <1>9, <1>10 DEF Next, BlockedStep

\* The first layer holds before the first FS_Init.
LEMMA TrackingInit == Init => Tracking
<1> SUFFICES ASSUME Init PROVE Tracking
  OBVIOUS
<1> USE AsyncAssumption DEF Init
<1>1. TypeOK
  <2>1. slots \in [Slots -> Slot] /\ \A i \in Slots : ~slots[i].used
    BY EmptySlotType
  <2>2. call \in [Threads -> Call]
    BY DEF Idle, Call
  <2>3. /\ old \in [Requests -> BOOLEAN] /\ cancelOk \in [Requests -> BOOLEAN]
        /\ told \in [Requests -> SUBSET Terminal]
        /\ issued \in [Requests -> 0 .. HandleMax]
    BY DEF InvalidHandle
  <2>4. /\ worker \in [Requests -> {"none", "launched", "inside", "left", "ready"}]
        /\ outcome \in [Requests -> {"COMPLETE", "FAILED"}]
    OBVIOUS
  <2>5. nextAsyncRequest \in 0 .. HandleMax /\ nSubmitted \in 0 .. MaxRequests
    OBVIOUS
  <2>6. /\ initialized \in BOOLEAN /\ shuttingDown \in BOOLEAN
        /\ mutex \in {Nobody} \union Requests \union Threads
        /\ drain \subseteq Requests
    OBVIOUS
  <2> HIDE DEF Init
  <2> QED
    BY <2>1, <2>2, <2>3, <2>4, <2>5, <2>6 DEF TypeOK
<1>2. RunningWorkersTracked /\ SlotsTracked
  BY EmptySlotType DEF RunningWorkersTracked, SlotsTracked, Requests
<1>3. ShutdownOrdered
  BY EmptySlotType DEF ShutdownOrdered, ShutdownPCs, Idle
<1>4. WaitersAsk
  BY DEF WaitersAsk, Idle
<1> QED
  BY <1>1, <1>2, <1>3, <1>4 DEF Tracking

\* The first layer is an invariant, whatever the size of the handles.
THEOREM TrackingInvariant == Spec => []Tracking
<1>1. Tracking /\ [Next]_vars => Tracking'
  BY TypeStep, TrackedStep, OrderedStep, AskStep DEF Tracking
<1> QED
  BY <1>1, TrackingInit, PTL DEF Spec

\* Every variable of the request table keeps its type: in particular no handle
\* is ever zero, also when the counter wraps, and every slot in use has a
\* future, which Poll, Wait and Cancel test for.
THEOREM TypeCorrect == Spec => []TypeOK
<1>1. Tracking => TypeOK
  BY DEF Tracking
<1> QED
  BY <1>1, TrackingInvariant, PTL

\* No worker is ever lost: until it is done its request keeps its slot, and
\* FS_Shutdown leaves no worker behind.
THEOREM NoWorkerLost == Spec => []RunningWorkersTracked
<1>1. Tracking => RunningWorkersTracked
  BY DEF Tracking
<1> QED
  BY <1>1, TrackingInvariant, PTL

-----------------------------------------------------------------------------
(* The second layer holds when handles do not wrap in one lifetime. *)

\* The handle a client holds finds no request but its own.
LEMMA HeldSlot ==
  ASSUME Tracking, HandlesDiffer, NEW r \in Requests, Holds(r),
         NEW k \in Slots, slots[k].used, slots[k].handle = issued[r]
  PROVE  slots[k].future = r
<1>1. slots[k].future \in Requests
  BY DEF Tracking, TypeOK, Slot
<1>2. Holds(slots[k].future) /\ issued[slots[k].future] = issued[r]
  BY <1>1 DEF Tracking, TypeOK, SlotsTracked, HandlesDiffer, Holds
<1> QED
  BY <1>1, <1>2 DEF HandlesDiffer

\* What a client is told is the result its own slot keeps.
LEMMA Observed ==
  ASSUME Tracking, HandlesDiffer, NEW r \in Requests, Observe(r),
         ~(UNCHANGED <<slots, told>>), issued[r] # InvalidHandle
  PROVE  \E k \in Slots :
           /\ slots[k].used /\ Ready(slots[k].future)
           /\ slots' = [slots EXCEPT ![k] = Completed(slots[k])]
           /\ \/ old[r] /\ told' = told
              \/ /\ slots[k].future = r
                 /\ told' = [told EXCEPT ![r] = @ \union {Completed(slots[k]).status}]
<1> DEFINE k == FindAsyncRequest(issued[r])
<1>1. /\ k # NoSlot
      /\ slots[k].bResultCached \/ Ready(slots[k].future)
      /\ slots' = [slots EXCEPT ![k] = Completed(@)]
      /\ told' = IF old[r] THEN told
                 ELSE [told EXCEPT ![r] = @ \union {Completed(slots[k]).status}]
  BY DEF Observe
<1>2. k \in Slots /\ slots[k].used /\ slots[k].handle = issued[r]
  BY <1>1, FoundSlot
<1> HIDE DEF k
<1>3. Ready(slots[k].future)
  BY <1>1, <1>2 DEF Tracking, SlotsTracked
<1>4. ~old[r] => slots[k].future = r
  BY <1>2, HeldSlot DEF Holds
<1> QED
  BY <1>1, <1>2, <1>3, <1>4

\* The result of a slot: what its worker did unless it was cancelled, and once
\* it is cached the same.
LEMMA CompletedSlot ==
  ASSUME Tracking, NEW k \in Slots, slots[k].used
  PROVE  LET c == Completed(slots[k])
         IN  /\ c.used /\ c.bResultCached
             /\ c.future = slots[k].future /\ c.handle = slots[k].handle
             /\ c.cancelled = slots[k].cancelled
             /\ c.status = IF slots[k].bResultCached THEN slots[k].status
                           ELSE IF slots[k].cancelled THEN "CANCELLED"
                           ELSE outcome[slots[k].future]
  BY DEF Completed, Tracking, TypeOK, Slot

\* A new handle is larger than all that clients hold.
LEMMA HandlesDifferStep ==
  ASSUME Tracking, HandlesDiffer, [Next]_vars, HandleMax >= MaxRequests
  PROVE  HandlesDiffer'
<1> USE AsyncAssumption DEF Tracking
<1>1. ASSUME KeepsUse, UNCHANGED <<nextAsyncRequest, nSubmitted, issued, old, cancelOk>>
      PROVE  HandlesDiffer'
  BY <1>1 DEF KeepsUse, HandlesDiffer, Holds
<1>2. ASSUME UNCHANGED <<slots, nextAsyncRequest, nSubmitted, issued, old, cancelOk>>
      PROVE  HandlesDiffer'
  BY <1>2 DEF HandlesDiffer, Holds
<1>3. CASE SubmitAsyncRequest
  <2> DEFINE k == AllocateAsyncRequest
             q == nSubmitted + 1
             h == AllocateAsyncHandle
  <2>1. k \in Slots
    BY <1>3, AllocatedSlot DEF SubmitAsyncRequest, CanSubmit
  <2>2. q \in Requests /\ nSubmitted' = q /\ nSubmitted < MaxRequests
    BY <1>3 DEF SubmitAsyncRequest, CanSubmit, TypeOK, Requests
  <2>3. /\ slots'[k].used /\ slots'[k].future = q
        /\ \A i \in Slots : i # k => slots'[i] = slots[i]
    BY <1>3, <2>1 DEF SubmitAsyncRequest, TypeOK
  <2>4. h = nextAsyncRequest /\ h \in 1 .. q /\ \A r \in Requests : Holds(r) => issued[r] < h
    BY <2>2 DEF HandlesDiffer, AllocateAsyncHandle, InvalidHandle
  <2>5. issued'[q] = h /\ \A r \in Requests : r # q => issued'[r] = issued[r]
    BY <1>3, <2>2 DEF SubmitAsyncRequest, TypeOK
  <2>6. /\ UNCHANGED <<old, cancelOk>> /\ ~old[q]
        /\ \A r \in Requests : Holds(r)' <=> Holds(r) \/ r = q
    BY <1>3, <2>2, <2>4, <2>5
    DEF SubmitAsyncRequest, HandlesDiffer, Holds, TypeOK, InvalidHandle
  <2>7. q < MaxRequests => nextAsyncRequest' = h + 1
    <3>1. nextAsyncRequest' = (h + 1) % (HandleMax + 1)
      BY <1>3 DEF SubmitAsyncRequest, Wrapped
    <3>2. q < MaxRequests => h + 1 \in 0 .. HandleMax
      BY <2>2, <2>4 DEF TypeOK, Requests
    <3>3. \A a, b \in Nat : a < b => a % b = a
      OBVIOUS
    <3> HIDE DEF h, q
    <3> QED
      BY <3>1, <3>2, <3>3
  <2> HIDE DEF h, k
  <2>8. \A r \in Requests : issued'[r] # InvalidHandle \/ old'[r] \/ cancelOk'[r] => r <= q
    BY <2>2, <2>5, <2>6 DEF HandlesDiffer, TypeOK, Requests
  <2>9. \A r, p \in Requests : Holds(r)' /\ Holds(p)' /\ issued'[r] = issued'[p] => r = p
    BY <2>2, <2>4, <2>5, <2>6 DEF HandlesDiffer, TypeOK
  <2>10. q < MaxRequests => /\ nextAsyncRequest' \in 1 .. q + 1
                           /\ \A r \in Requests : Holds(r)' => issued'[r] < nextAsyncRequest'
    BY <2>2, <2>4, <2>5, <2>6, <2>7 DEF TypeOK
  <2>11. \A i \in Slots : i # k /\ slots'[i].used =>
           slots'[i].future # q /\ ~old'[slots'[i].future]
    BY <2>3, <2>6 DEF HandlesDiffer, SlotsTracked, TypeOK
  <2> QED
    BY <2>1, <2>2, <2>3, <2>6, <2>8, <2>9, <2>10, <2>11 DEF HandlesDiffer
<1>4. CASE LaunchFails
  <2>1. \A i \in Slots : slots'[i].used => slots'[i] = slots[i]
    BY <1>4, AllocatedSlot, EmptySlotType DEF LaunchFails, CanSubmit, TypeOK
  <2> QED
    BY <1>4, <2>1 DEF LaunchFails, HandlesDiffer, Holds, runtime, clients
<1>5. CASE \E r \in Requests : FS_PollAsync(r)
  BY <1>1, <1>5, ObserveKeepsUse DEF FS_PollAsync, runtime
<1>6. CASE \E t \in Threads : WaitPolls(t)
  BY <1>1, <1>6, ObserveKeepsUse DEF WaitPolls, runtime
<1>7. CASE \E r \in Requests : FS_CancelAsync(r)
  <2> PICK r \in Requests : FS_CancelAsync(r)
    BY <1>7
  <2>1. KeepsUse
    BY CancelKeepsUse
  <2>2. \A p \in Requests : cancelOk'[p] => cancelOk[p] \/ p = r
    BY DEF FS_CancelAsync, TypeOK
  <2> QED
    BY <2>1, <2>2 DEF FS_CancelAsync, KeepsUse, HandlesDiffer, Holds, runtime
<1>8. CASE \E t \in Threads : ShutdownSnapshot(t)
  BY <1>1, <1>8, SnapshotKeepsUse DEF ShutdownSnapshot, runtime, clients
<1>9. CASE \E t \in Threads : ShutdownClears(t)
  BY <1>9, EmptySlotType DEF ShutdownClears, HandlesDiffer, Holds, runtime, clients
<1>10. CASE \E t \in Threads : ShutdownFinishes(t)
  <2> PICK t \in Threads : ShutdownFinishes(t)
    BY <1>10
  <2>1. \A r \in Requests : old'[r] <=> r <= nSubmitted
    BY DEF ShutdownFinishes
  <2>2. \A r \in Requests : ~Holds(r)'
    BY <2>1 DEF ShutdownFinishes, HandlesDiffer, Holds
  <2>3. \A i \in Slots : ~slots'[i].used
    BY EmptySlotType DEF ShutdownFinishes
  <2> QED
    BY <2>1, <2>2, <2>3 DEF ShutdownFinishes, HandlesDiffer, TypeOK
<1>11. CASE FS_Init
  BY <1>2, <1>11 DEF FS_Init, clients
<1>12. CASE \E r \in Requests : WorkerStep(r)
  BY <1>2, <1>12
  DEF WorkerStep, WorkerEnter, WorkerLeave, WorkerReady, runtime, clients
<1>13. CASE \E t \in Threads, r \in Requests : WaitBegin(t, r)
  BY <1>2, <1>13 DEF WaitBegin, runtime, clients
<1>14. CASE \E t \in Threads : WaitWakes(t) \/ ShutdownDrains(t) \/ ShutdownCloses(t)
  BY <1>2, <1>14 DEF WaitWakes, ShutdownDrains, ShutdownCloses, runtime, clients
<1>15. CASE UNCHANGED vars
  BY <1>2, <1>15 DEF vars, runtime, clients
<1> QED
  BY <1>3, <1>4, <1>5, <1>6, <1>7, <1>8, <1>9, <1>10, <1>11, <1>12, <1>13, <1>14,
     <1>15 DEF Next, BlockedStep

\* An observation tells the client of the slot's request what the slot keeps.
LEMMA ObserveAnswers ==
  ASSUME Tracking, HandlesDiffer, Answers, NEW r \in Requests, Observe(r),
         issued[r] # InvalidHandle,
         UNCHANGED <<worker, outcome, old, cancelOk>>
  PROVE  Answers'
<1>1. CASE UNCHANGED <<slots, told>>
  BY <1>1
  DEF Answers, SlotsRemember, BorrowedBuffersSafe, OneAnswer, AcceptedCancelWins
<1>2. CASE ~UNCHANGED <<slots, told>>
  <2>1. PICK k \in Slots :
           /\ slots[k].used /\ Ready(slots[k].future)
           /\ slots' = [slots EXCEPT ![k] = Completed(slots[k])]
           /\ \/ old[r] /\ told' = told
              \/ /\ slots[k].future = r
                 /\ told' = [told EXCEPT ![r] = @ \union {Completed(slots[k]).status}]
    BY <1>2, Observed
  <2> DEFINE c == Completed(slots[k])
             q == slots[k].future
  <2>2. /\ c.used /\ c.bResultCached
        /\ c.future = q /\ c.cancelled = slots[k].cancelled
        /\ c.status = IF slots[k].bResultCached THEN slots[k].status
                      ELSE IF slots[k].cancelled THEN "CANCELLED" ELSE outcome[q]
    BY <2>1, CompletedSlot
  <2>3. /\ slots'[k] = c
        /\ \A i \in Slots : i # k => slots'[i] = slots[i]
    BY <2>1 DEF Tracking, TypeOK
  <2>4. q \in Requests /\ \A i \in Slots : i # k /\ slots[i].used => slots[i].future # q
    BY <2>1 DEF Tracking, TypeOK, Slot, HandlesDiffer
  <2>5. /\ \A p \in Requests : p # q => told'[p] = told[p]
        /\ told'[q] \subseteq told[q] \union {c.status}
    BY <2>1, <2>4 DEF Tracking, TypeOK
  <2> HIDE DEF c
  <2>6. told'[q] \subseteq {c.status}
    BY <2>1, <2>2, <2>5 DEF Answers, SlotsRemember
  <2>7. c.status = "COMPLETE" => outcome[q] = "COMPLETE"
    BY <2>1, <2>2 DEF Answers, SlotsRemember
  <2>8. cancelOk[q] => c.cancelled /\ c.status = "CANCELLED"
    BY <2>1, <2>2 DEF Answers, SlotsRemember
  <2> HIDE DEF q
  <2>9. c.future = q
    BY <2>2
  <2>10. SlotsRemember'
    <3> SUFFICES ASSUME NEW i \in Slots, slots'[i].used
                 PROVE  LET p == slots'[i].future
                        IN  /\ told'[p] \subseteq IF slots'[i].bResultCached
                                                  THEN {slots'[i].status} ELSE {}
                            /\ slots'[i].status = "COMPLETE" => outcome[p] = "COMPLETE"
                            /\ cancelOk[p] => /\ slots'[i].cancelled
                                              /\ slots'[i].bResultCached =>
                                                    slots'[i].status = "CANCELLED"
      BY DEF SlotsRemember
    <3>1. CASE i = k
      BY <3>1, <2>2, <2>3, <2>6, <2>7, <2>8, <2>9
    <3>2. CASE i # k
      <4>1. slots'[i] = slots[i] /\ slots[i].future # q /\ slots[i].future \in Requests
        BY <3>2, <2>3, <2>4 DEF Tracking, TypeOK, Slot
      <4> QED
        BY <4>1, <2>5 DEF Answers, SlotsRemember
    <3> QED
      BY <3>1, <3>2
  <2>11. BorrowedBuffersSafe'
    <3>1. worker[q] = "ready"
      BY <2>1 DEF Ready, q
    <3> QED
      BY <3>1, <2>5 DEF Answers, BorrowedBuffersSafe
  <2>12. OneAnswer'
    BY <2>5, <2>6, <2>7 DEF Answers, OneAnswer
  <2>13. AcceptedCancelWins'
    BY <2>5, <2>6, <2>8 DEF Answers, AcceptedCancelWins
  <2> QED
    BY <2>10, <2>11, <2>12, <2>13 DEF Answers
<1> QED
  BY <1>1, <1>2

\* No step changes an answer: only an observation gives one.
LEMMA AnswersStep ==
  ASSUME Tracking, HandlesDiffer, Answers, [Next]_vars
  PROVE  Answers'
<1> USE AsyncAssumption DEF Tracking
<1>1. ASSUME UNCHANGED <<slots, outcome, old, told, cancelOk>>,
             \A r \in Requests : worker[r] = "ready" => worker'[r] = "ready"
      PROVE  Answers'
  BY <1>1
  DEF Answers, SlotsRemember, BorrowedBuffersSafe, OneAnswer, AcceptedCancelWins
<1>2. ASSUME \A i \in Slots : slots'[i].used => slots'[i] = slots[i],
             UNCHANGED <<worker, outcome, old, told, cancelOk>>
      PROVE  Answers'
  BY <1>2
  DEF Answers, SlotsRemember, BorrowedBuffersSafe, OneAnswer, AcceptedCancelWins
<1>3. CASE SubmitAsyncRequest
  <2> DEFINE k == AllocateAsyncRequest
             q == nSubmitted + 1
  <2>1. k \in Slots
    BY <1>3, AllocatedSlot DEF SubmitAsyncRequest, CanSubmit
  <2>2. q \in Requests /\ q > nSubmitted
    BY <1>3 DEF SubmitAsyncRequest, CanSubmit, TypeOK, Requests
  <2>3. /\ slots'[k].future = q /\ ~slots'[k].bResultCached
        /\ slots'[k].status = "RUNNING"
        /\ \A i \in Slots : i # k => slots'[i] = slots[i]
    BY <1>3, <2>1 DEF SubmitAsyncRequest, TypeOK
  <2>4. /\ UNCHANGED <<outcome, old, told, cancelOk>>
        /\ \A r \in Requests : r # q => worker'[r] = worker[r]
    BY <1>3, <2>2 DEF SubmitAsyncRequest, TypeOK
  <2>5. worker[q] = "none" /\ ~cancelOk[q]
    BY <2>2 DEF SlotsTracked, HandlesDiffer, TypeOK, Requests
  <2>6. told[q] = {} /\ ~old[q]
    BY <2>2, <2>5 DEF Answers, BorrowedBuffersSafe
  <2> HIDE DEF k, q
  <2>7. SlotsRemember'
    BY <2>1, <2>3, <2>4, <2>5, <2>6 DEF Answers, SlotsRemember
  <2>8. BorrowedBuffersSafe'
    BY <2>2, <2>4, <2>6 DEF Answers, BorrowedBuffersSafe
  <2> QED
    BY <2>4, <2>7, <2>8 DEF Answers, OneAnswer, AcceptedCancelWins
<1>4. CASE LaunchFails
  <2>1. \A i \in Slots : slots'[i].used => slots'[i] = slots[i]
    BY <1>4, AllocatedSlot, EmptySlotType DEF LaunchFails, CanSubmit, TypeOK
  <2> QED
    BY <1>2, <1>4, <2>1 DEF LaunchFails, workers, clients
<1>5. CASE \E r \in Requests : WorkerEnter(r) \/ WorkerReady(r)
  BY <1>1, <1>5 DEF WorkerEnter, WorkerReady, TypeOK, clients
<1>6. CASE \E r \in Requests : WorkerLeave(r)
  <2> PICK r \in Requests : WorkerLeave(r)
    BY <1>6
  <2>1. /\ worker[r] = "inside" /\ \A p \in Requests : p # r => worker'[p] = worker[p]
        /\ \A p \in Requests : p # r => outcome'[p] = outcome[p]
        /\ UNCHANGED <<slots, old, told, cancelOk>>
    BY DEF WorkerLeave, TypeOK, clients
  <2>2. told[r] = {} /\ ~old[r]
    BY <2>1 DEF Answers, BorrowedBuffersSafe
  <2>3. \A i \in Slots : slots[i].used /\ slots[i].future = r => slots[i].status # "COMPLETE"
    BY <2>1 DEF SlotsTracked, Ready, Terminal
  <2>4. \A i \in Slots : slots[i].used => slots[i].future \in Requests
    BY DEF TypeOK, Slot
  <2>5. SlotsRemember'
    BY <2>1, <2>3, <2>4 DEF Answers, SlotsRemember
  <2> QED
    BY <2>1, <2>2, <2>5
    DEF Answers, BorrowedBuffersSafe, OneAnswer, AcceptedCancelWins
<1>7. CASE \E r \in Requests : FS_PollAsync(r)
  BY <1>7, ObserveAnswers DEF FS_PollAsync, Holds, workers
<1>8. CASE \E t \in Threads : WaitPolls(t)
  <2> PICK t \in Threads : WaitPolls(t)
    BY <1>8
  <2> QED
    BY ObserveAnswers DEF WaitPolls, WaitersAsk, workers
<1>9. CASE \E r \in Requests : FS_CancelAsync(r)
  <2> PICK r \in Requests : FS_CancelAsync(r)
    BY <1>9
  <2> DEFINE k == FindAsyncRequest(issued[r])
  <2>1. k \in Slots /\ slots[k].used /\ slots[k].future = r
    BY FoundSlot, HeldSlot DEF FS_CancelAsync
  <2>2. /\ Cancellable(slots[k])
        /\ slots' = [slots EXCEPT ![k].cancelled = TRUE]
        /\ cancelOk' = [cancelOk EXCEPT ![r] = TRUE]
        /\ UNCHANGED <<worker, outcome, old, told>>
    BY DEF FS_CancelAsync, workers
  <2> HIDE DEF k
  <2>3. ~slots[k].bResultCached /\ told[r] = {}
    BY <2>1, <2>2 DEF Cancellable, SlotsTracked, Answers, SlotsRemember
  <2>4. /\ slots'[k] = [slots[k] EXCEPT !.cancelled = TRUE]
        /\ \A i \in Slots : i # k => slots'[i] = slots[i]
    BY <2>1, <2>2 DEF TypeOK
  <2>5. /\ slots'[k].cancelled /\ slots'[k].future = r
        /\ slots'[k].status = slots[k].status
        /\ ~slots'[k].bResultCached
    BY <2>1, <2>3, <2>4, CancelledSlot DEF TypeOK
  <2>6. \A i \in Slots : i # k /\ slots[i].used => slots[i].future # r
    BY <2>1 DEF HandlesDiffer
  <2>7. \A p \in Requests : p # r => cancelOk'[p] = cancelOk[p]
    BY <2>2 DEF TypeOK
  <2>8. \A i \in Slots : slots[i].used => slots[i].future \in Requests
    BY DEF TypeOK, Slot
  <2>9. SlotsRemember'
    <3> SUFFICES ASSUME NEW i \in Slots, slots'[i].used
                 PROVE  LET p == slots'[i].future
                        IN  /\ told[p] \subseteq IF slots'[i].bResultCached
                                                 THEN {slots'[i].status} ELSE {}
                            /\ slots'[i].status = "COMPLETE" => outcome[p] = "COMPLETE"
                            /\ cancelOk'[p] => /\ slots'[i].cancelled
                                               /\ slots'[i].bResultCached =>
                                                     slots'[i].status = "CANCELLED"
      BY <2>2 DEF SlotsRemember
    <3>1. CASE i = k
      BY <3>1, <2>1, <2>3, <2>5 DEF Answers, SlotsRemember
    <3>2. CASE i # k
      BY <3>2, <2>4, <2>6, <2>7, <2>8 DEF Answers, SlotsRemember
    <3> QED
      BY <3>1, <3>2
  <2> QED
    BY <2>2, <2>3, <2>7, <2>9
    DEF Answers, BorrowedBuffersSafe, OneAnswer, AcceptedCancelWins
<1>10. CASE \E t \in Threads : ShutdownSnapshot(t)
  <2> PICK t \in Threads : ShutdownSnapshot(t)
    BY <1>10
  <2>1. ASSUME NEW i \in Slots, slots'[i].used
        PROVE  /\ slots[i].used /\ slots'[i].cancelled
               /\ slots'[i].future = slots[i].future
               /\ slots'[i].status = slots[i].status
               /\ slots'[i].bResultCached = slots[i].bResultCached
    <3>1. /\ slots[i] \in Slot
          /\ slots'[i] = IF slots[i].used THEN [slots[i] EXCEPT !.cancelled = TRUE]
                         ELSE slots[i]
      BY DEF ShutdownSnapshot, TypeOK
    <3> QED
      BY <2>1, <3>1, CancelledSlot
  <2> QED
    BY <2>1 DEF ShutdownSnapshot, Answers, SlotsRemember, BorrowedBuffersSafe,
                OneAnswer, AcceptedCancelWins, workers, clients
<1>11. CASE \E t \in Threads : ShutdownClears(t)
  BY <1>2, <1>11, EmptySlotType DEF ShutdownClears, workers, clients
<1>12. CASE \E t \in Threads : ShutdownFinishes(t)
  <2> PICK t \in Threads : ShutdownFinishes(t)
    BY <1>12
  <2>1. \A i \in Slots : ~slots[i].used /\ ~slots'[i].used
    BY EmptySlotType DEF ShutdownFinishes, ShutdownOrdered
  <2>2. \A r \in Requests : r <= nSubmitted => worker[r] = "ready"
    <3> SUFFICES ASSUME NEW r \in Requests, r <= nSubmitted
                 PROVE  worker[r] = "ready"
      OBVIOUS
    <3>1. worker[r] \notin {"launched", "inside", "left"}
      BY <2>1 DEF RunningWorkersTracked
    <3>2. worker[r] # "none"
      BY DEF SlotsTracked, TypeOK, Requests
    <3> QED
      BY <3>1, <3>2 DEF TypeOK
  <2>3. \A r \in Requests : old'[r] => r <= nSubmitted
    BY DEF ShutdownFinishes
  <2> QED
    BY <2>1, <2>2, <2>3 DEF ShutdownFinishes, Answers, SlotsRemember,
       BorrowedBuffersSafe, OneAnswer, AcceptedCancelWins, workers
<1>13. CASE FS_Init
  BY <1>1, <1>13 DEF FS_Init, workers, clients
<1>14. CASE \E t \in Threads, r \in Requests : WaitBegin(t, r)
  BY <1>1, <1>14 DEF WaitBegin, workers, clients
<1>15. CASE \E t \in Threads : WaitWakes(t) \/ ShutdownDrains(t) \/ ShutdownCloses(t)
  BY <1>1, <1>15 DEF WaitWakes, ShutdownDrains, ShutdownCloses, workers, clients
<1>16. CASE UNCHANGED vars
  BY <1>1, <1>16 DEF vars, workers, clients
<1> QED
  BY <1>3, <1>4, <1>5, <1>6, <1>7, <1>8, <1>9, <1>10, <1>11, <1>12, <1>13, <1>14,
     <1>15, <1>16 DEF Next, BlockedStep, WorkerStep

\* The second layer holds before the first FS_Init.
LEMMA AnsweringInit == Init => Answering
<1> SUFFICES ASSUME Init PROVE Answering
  OBVIOUS
<1>1. \A i \in Slots : ~slots[i].used
  BY EmptySlotType DEF Init
<1>2. /\ nSubmitted = 0 /\ nextAsyncRequest = 1
      /\ \A r \in Requests : /\ issued[r] = InvalidHandle /\ ~old[r]
                            /\ told[r] = {} /\ ~cancelOk[r]
  BY DEF Init
<1>3. HandlesDiffer
  BY <1>1, <1>2 DEF HandlesDiffer, Holds
<1>4. Answers
  BY <1>1, <1>2 DEF Answers, SlotsRemember, BorrowedBuffersSafe, OneAnswer,
                    AcceptedCancelWins
<1> QED
  BY <1>3, <1>4 DEF Answering

\* The first two layers are an invariant as long as the handle counter does not
\* wrap in one lifetime of the filesystem.
THEOREM AnsweringInvariant ==
  ASSUME HandleMax >= MaxRequests
  PROVE  Spec => [](Tracking /\ Answering)
<1>1. Init => Tracking /\ Answering
  BY TrackingInit, AnsweringInit
<1>2. Tracking /\ Answering /\ [Next]_vars => (Tracking /\ Answering)'
  BY TypeStep, TrackedStep, OrderedStep, AskStep, HandlesDifferStep, AnswersStep
  DEF Tracking, Answering
<1> QED
  BY <1>1, <1>2, PTL DEF Spec

\* A client that was told a terminal status, or whose filesystem was shut down,
\* may reuse its buffer: the worker is done with it (CypherFileSystem.h:298).
THEOREM BuffersSafe ==
  ASSUME HandleMax >= MaxRequests
  PROVE  Spec => []BorrowedBuffersSafe
<1>1. Tracking /\ Answering => BorrowedBuffersSafe
  BY DEF Answering, Answers
<1> QED
  BY <1>1, AnsweringInvariant, PTL

\* Polls and waits give a request one terminal answer, and report success only
\* for I/O that succeeded.
THEOREM AnswersAgree ==
  ASSUME HandleMax >= MaxRequests
  PROVE  Spec => []ResultsAgree
<1>1. ASSUME OneAnswer, NEW r \in Requests
      PROVE  Cardinality(told[r]) <= 1
  <2>1. CASE told[r] = {}
    BY <2>1, FS_EmptySet
  <2>2. CASE told[r] # {}
    <3>1. PICK a \in told[r] : TRUE
      BY <2>2
    <3>2. told[r] = {a}
      BY <1>1, <3>1 DEF OneAnswer
    <3>3. Cardinality({a}) = 1
      BY FS_Singleton
    <3> QED
      BY <3>2, <3>3
  <2> QED
    BY <2>1, <2>2
<1>2. Tracking /\ Answering => ResultsAgree
  BY <1>1 DEF Answering, Answers, OneAnswer, ResultsAgree
<1> QED
  BY <1>2, AnsweringInvariant, PTL

\* After FS_CancelAsync answered OK, the request is reported as cancelled and as
\* nothing else.
THEOREM CancellationWins ==
  ASSUME HandleMax >= MaxRequests
  PROVE  Spec => []AcceptedCancelWins
<1>1. Tracking /\ Answering => AcceptedCancelWins
  BY DEF Answering, Answers
<1> QED
  BY <1>1, AnsweringInvariant, PTL

-----------------------------------------------------------------------------
(* The third layer holds when lifetimes are coordinated. *)

\* A slot that is given to another request owes its client nothing.
LEMMA ReclaimedSlot ==
  ASSUME Tracking, SlotsAccountFor, AllocateAsyncRequest # NoSlot,
         slots[AllocateAsyncRequest].used
  PROVE  LET r == slots[AllocateAsyncRequest].future
         IN  told[r] # {} \/ cancelOk[r] \/ shuttingDown
  BY AllocatedSlot DEF Reclaimable, Tracking, SlotsTracked, SlotsAccountFor

\* An observation accounts for what it caches.
LEMMA ObserveWaiting ==
  ASSUME Tracking, Answering, Waiting, NEW r \in Requests, Observe(r),
         issued[r] # InvalidHandle, old[r] => ~initialized,
         UNCHANGED <<initialized, shuttingDown, old, cancelOk>>,
         \A t \in Threads : call'[t].pc \in {"waiting", "repoll"} =>
           call'[t] = call[t]
  PROVE  Waiting'
<1>1. CASE UNCHANGED <<slots, told>>
  BY <1>1 DEF Waiting, SlotsAccountFor, WaitersTracked, Answered
<1>2. CASE ~UNCHANGED <<slots, told>>
  <2>1. initialized
    BY <1>2 DEF Observe
  <2>2. PICK k \in Slots :
           /\ slots[k].used /\ Ready(slots[k].future)
           /\ slots' = [slots EXCEPT ![k] = Completed(slots[k])]
           /\ \/ old[r] /\ told' = told
              \/ /\ slots[k].future = r
                 /\ told' = [told EXCEPT ![r] = @ \union {Completed(slots[k]).status}]
    BY <1>2, Observed DEF Answering
  <2> DEFINE c == Completed(slots[k])
  <2>3. c.used /\ c.future = slots[k].future /\ c.cancelled = slots[k].cancelled
    BY <2>2, CompletedSlot
  <2> HIDE DEF c
  <2>4. /\ slots'[k] = c /\ \A i \in Slots : i # k => slots'[i] = slots[i]
        /\ slots[k].future = r
        /\ told'[r] # {} /\ \A p \in Requests : told[p] # {} => told'[p] # {}
    <3>1. ~old[r]
      BY <2>1
    <3>2. slots[k].future = r /\ told' = [told EXCEPT ![r] = @ \union {c.status}]
      BY <2>2, <3>1 DEF c
    <3>3. slots' = [slots EXCEPT ![k] = c]
      BY <2>2 DEF c
    <3> QED
      BY <3>2, <3>3 DEF Tracking, TypeOK
  <2>5. SlotsAccountFor'
    <3>1. \A i \in Slots : slots[i].used => slots[i].future \in Requests
      BY DEF Tracking, TypeOK, Slot
    <3> QED
      BY <2>2, <2>3, <2>4, <3>1 DEF Waiting, SlotsAccountFor
  <2>6. WaitersTracked'
    <3> SUFFICES ASSUME NEW t \in Threads, NEW p, p = call'[t].request,
                        call'[t].pc \in {"waiting", "repoll"}
                 PROVE  (old[p] => ~initialized) /\ Answered(p)'
      BY DEF WaitersTracked
    <3>1. /\ p \in Requests
          /\ old[p] => ~initialized
          /\ Answered(p)
      BY DEF Tracking, WaitersAsk, Waiting, WaitersTracked
    <3>2. ASSUME NEW i \in Slots, slots[i].used
          PROVE  slots'[i].used /\ slots'[i].future = slots[i].future
      BY <3>2, <2>2, <2>3, <2>4
    <3> QED
      BY <2>4, <3>1, <3>2 DEF Answered
  <2> QED
    BY <2>5, <2>6 DEF Waiting
<1> QED
  BY <1>1, <1>2

\* A slot is taken from a waiter only when the waiter can expect it.
LEMMA WaitingStep ==
  ASSUME Coordinated, Tracking, Answering, Waiting, [Next]_vars
  PROVE  Waiting'
<1> USE AsyncAssumption
<1>1. ASSUME UNCHANGED <<initialized, shuttingDown, slots, old, told, cancelOk>>,
             \A t \in Threads : call'[t].pc \in {"waiting", "repoll"} =>
               call[t].pc \in {"waiting", "repoll"} /\ call'[t].request = call[t].request
      PROVE  Waiting'
  BY <1>1 DEF Waiting, SlotsAccountFor, WaitersTracked, Answered
<1>2. ASSUME UNCHANGED <<initialized, shuttingDown, call, old, told, cancelOk>>,
             AllocateAsyncRequest # NoSlot,
             \A i \in Slots : i # AllocateAsyncRequest => slots'[i] = slots[i],
             ~slots'[AllocateAsyncRequest].bResultCached,
             ~slots'[AllocateAsyncRequest].cancelled
      PROVE  Waiting'
  <2> DEFINE k == AllocateAsyncRequest
  <2>1. k \in Slots
    BY <1>2, AllocatedSlot
  <2>2. slots[k].used => LET r == slots[k].future
                         IN  told[r] # {} \/ cancelOk[r] \/ shuttingDown
    BY <1>2, ReclaimedSlot DEF Waiting
  <2> HIDE DEF k
  <2>3. SlotsAccountFor'
    BY <1>2 DEF Waiting, SlotsAccountFor
  <2>4. \A r \in Requests : Answered(r) => Answered(r)'
    BY <1>2, <2>1, <2>2 DEF Answered, k
  <2>5. WaitersTracked'
    BY <1>2, <2>4 DEF Waiting, WaitersTracked, Tracking, WaitersAsk, Answered
  <2> QED
    BY <2>3, <2>5 DEF Waiting
<1>3. CASE SubmitAsyncRequest
  <2>1. AllocateAsyncRequest \in Slots
    BY <1>3, AllocatedSlot DEF SubmitAsyncRequest, CanSubmit
  <2> QED
    BY <1>2, <1>3, <2>1 DEF SubmitAsyncRequest, CanSubmit, Tracking, TypeOK
<1>4. CASE LaunchFails
  <2>1. AllocateAsyncRequest \in Slots
    BY <1>4, AllocatedSlot DEF LaunchFails, CanSubmit
  <2> QED
    BY <1>2, <1>4, <2>1 DEF LaunchFails, CanSubmit, EmptySlot, Tracking, TypeOK,
                            runtime, clients
<1>5. CASE FS_Init
  <2>1. \A t \in Threads : call'[t].pc \notin {"waiting", "repoll"}
    BY <1>5 DEF FS_Init, Idle
  <2> QED
    BY <1>5, <2>1 DEF FS_Init, Waiting, SlotsAccountFor, WaitersTracked, clients
<1>6. CASE \E r \in Requests : WorkerStep(r)
  BY <1>1, <1>6
  DEF WorkerStep, WorkerEnter, WorkerLeave, WorkerReady, runtime, clients
<1>7. CASE \E r \in Requests : FS_PollAsync(r)
  <2> PICK r \in Requests : FS_PollAsync(r)
    BY <1>7
  <2> QED
    BY ObserveWaiting DEF FS_PollAsync, Holds, runtime
<1>8. CASE \E t \in Threads : WaitPolls(t)
  <2> PICK t \in Threads : WaitPolls(t)
    BY <1>8
  <2>1. \A u \in Threads : call'[u].pc \in {"waiting", "repoll"} => call'[u] = call[u]
    BY DEF WaitPolls, Idle, Tracking, TypeOK
  <2>2. LET r == call[t].request
        IN  /\ r \in Requests /\ issued[r] # InvalidHandle
            /\ old[r] => ~initialized
    BY DEF WaitPolls, Tracking, WaitersAsk, Waiting, WaitersTracked
  <2> QED
    BY <2>1, <2>2, ObserveWaiting DEF WaitPolls, runtime
<1>9. CASE \E r \in Requests : FS_CancelAsync(r)
  <2> PICK r \in Requests : FS_CancelAsync(r)
    BY <1>9
  <2> DEFINE k == FindAsyncRequest(issued[r])
  <2>1. k \in Slots /\ slots[k].used /\ slots[k].future = r
    BY FoundSlot, HeldSlot DEF FS_CancelAsync, Answering
  <2>2. /\ slots' = [slots EXCEPT ![k].cancelled = TRUE]
        /\ cancelOk' = [cancelOk EXCEPT ![r] = TRUE]
        /\ UNCHANGED <<initialized, shuttingDown, call, old, told>>
    BY DEF FS_CancelAsync, runtime
  <2> HIDE DEF k
  <2>3. /\ \A i \in Slots : i # k => slots'[i] = slots[i]
        /\ slots'[k].used /\ slots'[k].future = r
        /\ slots'[k].bResultCached = slots[k].bResultCached
    <3>1. slots'[k] = [slots[k] EXCEPT !.cancelled = TRUE] /\ slots[k] \in Slot
      BY <2>1, <2>2 DEF Tracking, TypeOK
    <3> QED
      BY <2>1, <2>2, <3>1, CancelledSlot DEF Tracking, TypeOK
  <2>4. cancelOk'[r] /\ \A p \in Requests : cancelOk[p] => cancelOk'[p]
    BY <2>2 DEF Tracking, TypeOK
  <2>5. SlotsAccountFor'
    <3>1. \A i \in Slots : slots[i].used => slots[i].future \in Requests
      BY DEF Tracking, TypeOK, Slot
    <3> QED
      BY <2>1, <2>2, <2>3, <2>4, <3>1 DEF Waiting, SlotsAccountFor
  <2>6. \A p \in Requests : Answered(p) => Answered(p)'
    BY <2>1, <2>2, <2>3, <2>4 DEF Answered
  <2>7. WaitersTracked'
    BY <2>2, <2>6 DEF Waiting, WaitersTracked, Tracking, WaitersAsk, Answered
  <2> QED
    BY <2>5, <2>7 DEF Waiting
<1>10. CASE \E t \in Threads, r \in Requests : WaitBegin(t, r)
  <2> PICK t \in Threads, r \in Requests : WaitBegin(t, r)
    BY <1>10
  <2> DEFINE k == FindAsyncRequest(issued[r])
  <2>1. k \in Slots /\ slots[k].used /\ slots[k].future = r /\ ~old[r]
    BY FoundSlot, HeldSlot DEF WaitBegin, Answering, Holds
  <2> HIDE DEF k
  <2>2. Answered(r)
    BY <2>1 DEF Answered
  <2>3. /\ call'[t].request = r
        /\ \A u \in Threads : u # t => call'[u] = call[u]
    BY DEF WaitBegin, Tracking, TypeOK
  <2> QED
    BY <2>1, <2>2, <2>3
    DEF WaitBegin, Waiting, SlotsAccountFor, WaitersTracked, Answered,
                            runtime, clients
<1>11. CASE \E t \in Threads : WaitWakes(t) \/ ShutdownDrains(t)
  BY <1>1, <1>11
  DEF WaitWakes, ShutdownDrains, Tracking, TypeOK, Call, runtime, clients
<1>12. CASE \E t \in Threads : ShutdownCloses(t)
  <2>1. \A t \in Threads : call'[t].pc \in {"waiting", "repoll"} =>
          call[t].pc \in {"waiting", "repoll"} /\ call'[t].request = call[t].request
    BY <1>12 DEF ShutdownCloses, Tracking, TypeOK, Call
  <2> QED
    BY <1>12, <2>1
    DEF ShutdownCloses, Waiting, SlotsAccountFor, WaitersTracked, Answered, clients
<1>13. CASE \E t \in Threads : ShutdownSnapshot(t) \/ ShutdownClears(t)
  <2> PICK t \in Threads : ShutdownSnapshot(t) \/ ShutdownClears(t)
    BY <1>13
  <2>1. shuttingDown /\ shuttingDown'
    BY
    DEF ShutdownSnapshot, ShutdownClears, Tracking, ShutdownOrdered, ShutdownPCs,
        runtime
  <2>2. \A u \in Threads : call'[u].pc \in {"waiting", "repoll"} =>
          call[u].pc \in {"waiting", "repoll"} /\ call'[u].request = call[u].request
    BY DEF ShutdownSnapshot, ShutdownClears, Tracking, TypeOK, Call
  <2>3. SlotsAccountFor'
    <3>1. ASSUME NEW i \in Slots, slots'[i].used
          PROVE  /\ slots[i].used /\ slots'[i].future = slots[i].future
                 /\ slots'[i].bResultCached = slots[i].bResultCached
      <4>1. \/ slots'[i] = EmptySlot
            \/ slots'[i] = slots[i]
            \/ slots'[i] = [slots[i] EXCEPT !.cancelled = TRUE]
        <5>1. CASE ShutdownSnapshot(t)
          BY <5>1 DEF ShutdownSnapshot
        <5>2. CASE ShutdownClears(t)
          BY <5>2 DEF ShutdownClears
        <5> QED
          BY <5>1, <5>2
      <4>2. slots[i] \in Slot
        BY DEF Tracking, TypeOK
      <4> QED
        BY <3>1, <4>1, <4>2, CancelledSlot, EmptySlotType
    <3> QED
      BY <2>1, <3>1
      DEF ShutdownSnapshot, ShutdownClears, Waiting, SlotsAccountFor, clients
  <2> QED
    BY <2>1, <2>2, <2>3
    DEF ShutdownSnapshot, ShutdownClears, Waiting, WaitersTracked,
                            Answered, runtime, clients
<1>14. CASE \E t \in Threads : ShutdownFinishes(t)
  <2> PICK t \in Threads : ShutdownFinishes(t)
    BY <1>14
  <2>1. ~initialized' /\ \A i \in Slots : ~slots'[i].used
    BY EmptySlotType DEF ShutdownFinishes
  <2>2. \A u \in Threads : call'[u].pc \in {"waiting", "repoll"} => call'[u] = call[u]
    BY DEF ShutdownFinishes, Idle, Tracking, TypeOK
  <2>3. \A u \in Threads : call'[u].pc \in {"waiting", "repoll"} => old'[call'[u].request]
    BY <2>2 DEF ShutdownFinishes, Tracking, WaitersAsk, Answering, HandlesDiffer
  <2> QED
    BY <2>1, <2>3 DEF Waiting, SlotsAccountFor, WaitersTracked, Answered
<1>15. CASE UNCHANGED vars
  BY <1>1, <1>15 DEF vars, runtime, clients
<1> QED
  BY <1>3, <1>4, <1>5, <1>6, <1>7, <1>8, <1>9, <1>10, <1>11, <1>12, <1>13, <1>14,
     <1>15 DEF Next, BlockedStep

\* When every call returns before the next FS_Init, a waiter that wakes finds the
\* slot of its request, unless the request was cancelled, its result is already
\* known, or the filesystem is going down.
THEOREM WaitersFindResults ==
  ASSUME Coordinated, HandleMax >= MaxRequests
  PROVE  Spec => []WaiterFindsResult
<1>1. Init => Waiting
  BY EmptySlotType DEF Init, Idle, Waiting, SlotsAccountFor, WaitersTracked
<1>2. Tracking /\ Answering /\ Waiting /\ [Next]_vars => Waiting'
  BY WaitingStep
<1>3. Waiting => WaiterFindsResult
  BY DEF Waiting, WaitersTracked, Answered, WaiterFindsResult
<1> QED
  BY <1>1, <1>2, <1>3, AnsweringInvariant, PTL DEF Spec
-----------------------------------------------------------------------------
(* The watcher. *)

\* A sequence, whatever it holds.
Sequence(s) == s \in Seq(ToSet(s))

Kinds == {"recursive", "directory", "file"}
WatchFields == {"handle", "path", "kind", "snapshot", "native"}

\* A native watch is within the limits of its tables.
IsNative(n) ==
  /\ DOMAIN n = {"used", "dirs", "queue", "pending"} /\ n.used \in BOOLEAN
  /\ Sequence(n.dirs) /\ Len(n.dirs) <= MaxDirs
  /\ Sequence(n.queue) /\ Len(n.queue) <= QueueMax

NativesShaped ==
  DOMAIN natives = NativeSlots /\ \A s \in NativeSlots : IsNative(natives[s])

\* A watch, or one that FS_WatchPath has yet to give a native watch.
IsWatch(w, next) ==
  /\ DOMAIN w = WatchFields
  /\ w.handle \in Nat /\ w.handle < next
  /\ w.path \in Paths /\ w.kind \in Kinds
  /\ DOMAIN w.snapshot = Covered(w)

\* The watches of the table have handles and native watches of their own.
WatchesShaped ==
  /\ nNextWatchHandle \in Nat
  /\ Sequence(watches)
  /\ \A i \in DOMAIN watches : IsWatch(watches[i], nNextWatchHandle) /\ watches[i].native \in NativeSlots
  /\ \A i, j \in DOMAIN watches : i # j =>
       watches[i].handle # watches[j].handle /\ watches[i].native # watches[j].native

\* The call in progress, if there is one, is on a watch, or about to make one.
CallShaped ==
  /\ phase \in {"idle", "watch", "read", "handle", "scan"}
  /\ Sequence(events) /\ Len(events) <= nMaxEvents
  /\ phase \in {"idle", "watch"} => events = << >>
  /\ phase \in {"read", "handle", "scan"} => at \in DOMAIN watches
  /\ ~fsInitialized => phase = "idle" /\ watches = << >>
  /\ phase = "watch" =>
       IsWatch(scratch, nNextWatchHandle) /\ \A i \in DOMAIN watches : watches[i].handle # scratch.handle

NativesUsed ==
  \A s \in NativeSlots : natives[s].used <=> \E i \in DOMAIN watches : watches[i].native = s

\* The inductive invariant of FileSystemWatch.
WatchKept == NativesShaped /\ WatchesShaped /\ CallShaped /\ NativesUsed
-----------------------------------------------------------------------------
\* What the prover takes for a sequence is one here.
LEMMA AnySequence ==
  ASSUME NEW S, NEW s \in Seq(S)
  PROVE  Sequence(s) /\ Len(s) \in Nat /\ DOMAIN s = 1 .. Len(s)
<1>1. \A i \in 1 .. Len(s) : s[i] \in ToSet(s)
  BY DEF ToSet
<1> QED
  BY <1>1 DEF Sequence

\* What a sequence is to the prover.
LEMMA SequenceIs ==
  ASSUME NEW s, Sequence(s)
  PROVE  /\ Len(s) \in Nat /\ DOMAIN s = 1 .. Len(s) /\ s \in Seq(ToSet(s))
         /\ \A S : (\A i \in 1 .. Len(s) : s[i] \in S) => s \in Seq(S)
<1>1. s \in Seq(ToSet(s))
  BY DEF Sequence
<1> QED
  BY <1>1

\* One sequence after another.
LEMMA Joined ==
  ASSUME NEW s, NEW t, Sequence(s), Sequence(t)
  PROVE  /\ Sequence(s \o t) /\ Len(s \o t) = Len(s) + Len(t)
         /\ \A i \in 1 .. Len(s) : (s \o t)[i] = s[i]
         /\ \A i \in 1 .. Len(t) : (s \o t)[Len(s) + i] = t[i]
<1> DEFINE S == ToSet(s) \union ToSet(t)
<1>1. s \in Seq(S) /\ t \in Seq(S)
  <2>1. /\ \A i \in 1 .. Len(s) : s[i] \in S
        /\ \A i \in 1 .. Len(t) : t[i] \in S
    BY SequenceIs DEF ToSet
  <2> HIDE DEF S
  <2>2. QED
    BY <2>1, SequenceIs
<1> HIDE DEF S
<1>2. /\ s \o t \in Seq(S) /\ Len(s \o t) = Len(s) + Len(t)
      /\ \A i \in 1 .. Len(s) : (s \o t)[i] = s[i]
      /\ \A i \in 1 .. Len(t) : (s \o t)[Len(s) + i] = t[i]
  BY <1>1
<1>3. Sequence(s \o t)
  BY <1>2, AnySequence
<1> QED
  BY <1>2, <1>3

\* The beginning of a sequence.
LEMMA Shorter ==
  ASSUME NEW s, Sequence(s), NEW n \in Nat, n <= Len(s)
  PROVE  /\ Sequence(SubSeq(s, 1, n)) /\ Len(SubSeq(s, 1, n)) = n
         /\ \A i \in 1 .. n : SubSeq(s, 1, n)[i] = s[i]
<1>1. s \in Seq(ToSet(s)) /\ Len(s) \in Nat
  BY SequenceIs
<1>2. \A i \in 1 .. n : s[i] \in ToSet(s)
  BY <1>1
<1>3. /\ SubSeq(s, 1, n) \in Seq(ToSet(s)) /\ Len(SubSeq(s, 1, n)) = n
      /\ \A i \in 1 .. n : SubSeq(s, 1, n)[i] = s[i]
  BY <1>1, <1>2
<1> QED
  BY <1>3, AnySequence

\* What a loop that leaves some elements of a list out goes over.
LEMMA PickedOnes ==
  ASSUME NEW list, Sequence(list), NEW places, places \subseteq 1 .. Len(list)
  PROVE  /\ Sequence(Picked(list, places)) /\ Len(Picked(list, places)) = Cardinality(places)
         /\ Cardinality(places) \in Nat
         /\ \A k \in places : \E n \in 1 .. Cardinality(places) : Picked(list, places)[n] = list[k]
<1>1. Len(list) \in Nat
  BY SequenceIs
<1>2. places \subseteq Nat /\ IsFiniteSet(places) /\ Cardinality(places) \in Nat
  <2>1. IsFiniteSet(1 .. Len(list))
    BY <1>1, FS_Interval
  <2>2. IsFiniteSet(places)
    BY <2>1, FS_Subset
  <2>3. places \subseteq Nat
    BY <1>1
  <2>4. QED
    BY <2>2, <2>3, FS_CardinalityType
<1>3. /\ Ascending(places) \in Seq(places) /\ Len(Ascending(places)) = Cardinality(places)
      /\ \A i \in places : \E n \in 1 .. Cardinality(places) : Ascending(places)[n] = i
  BY <1>2, AscendingLists
<1>4. \A n \in 1 .. Cardinality(places) : list[Ascending(places)[n]] \in ToSet(list)
  <2>1. \A n \in 1 .. Cardinality(places) : Ascending(places)[n] \in 1 .. Len(list)
    <3>1. \A n \in 1 .. Cardinality(places) : Ascending(places)[n] \in places
      BY <1>2, <1>3
    <3>2. QED
      BY <3>1
  <2>2. QED
    BY <2>1, SequenceIs DEF ToSet
<1>5. Picked(list, places) \in Seq(ToSet(list)) /\ Len(Picked(list, places)) = Cardinality(places)
  BY <1>2, <1>4 DEF Picked
<1>6. Sequence(Picked(list, places))
  BY <1>5, AnySequence
<1>7. \A k \in places : \E n \in 1 .. Cardinality(places) : Picked(list, places)[n] = list[k]
  BY <1>3 DEF Picked
<1> QED
  BY <1>2, <1>5, <1>6, <1>7

\* A watch is for paths of the model, and for the same as another of its path and kind.
LEMMA CoveredPaths ==
  ASSUME NEW w, w.path \in Paths, w.kind \in Kinds
  PROVE  /\ Covered(w) \subseteq Paths
         /\ \A v : v.path = w.path /\ v.kind = w.kind => Covered(v) = Covered(w)
<1>1. Below[w.path] \subseteq Paths
  BY DEF Below
<1>2. Covered(w) \subseteq Paths
  BY <1>1 DEF Covered
<1>3. \A v : v.path = w.path /\ v.kind = w.kind => Covered(v) = Covered(w)
  BY DEF Covered
<1> QED
  BY <1>2, <1>3
-----------------------------------------------------------------------------
(* The client and the events. *)

\* What is emitted keeps what was emitted before, and is all of it if the poll goes on.
LEMMA EmittedKeeps ==
  ASSUME Sequence(events), Len(events) <= nMaxEvents, NEW all, Sequence(all),
         Len(events) <= Len(all), \A i \in 1 .. Len(events) : all[i] = events[i]
  PROVE  /\ Emitted(all).ok \in BOOLEAN /\ Sequence(Emitted(all).events)
         /\ Len(Emitted(all).events) <= nMaxEvents
         /\ PathsIn(events) \subseteq PathsIn(Emitted(all).events)
         /\ Emitted(all).ok => Emitted(all).events = all
<1>1. nMaxEvents \in Nat /\ Len(all) \in Nat /\ Len(events) \in Nat
  BY WatchAssumption, SequenceIs
<1>2. CASE Len(all) <= nMaxEvents
  <2>1. Emitted(all) = [ok |-> TRUE, events |-> all]
    BY <1>2 DEF Emitted
  <2>2. DOMAIN all = 1 .. Len(all) /\ DOMAIN events = 1 .. Len(events)
    BY SequenceIs
  <2>3. PathsIn(events) \subseteq PathsIn(all)
    BY <1>1, <2>2 DEF PathsIn
  <2>4. QED
    BY <1>2, <2>1, <2>3
<1>3. CASE ~(Len(all) <= nMaxEvents)
  <2> DEFINE cut == SubSeq(all, 1, nMaxEvents)
  <2>1. ~Emitted(all).ok /\ Emitted(all).ok \in BOOLEAN /\ Emitted(all).events = cut
    <3>1. ~Emitted(all).ok
      BY <1>3 DEF Emitted
    <3>2. Emitted(all).ok \in BOOLEAN
      BY DEF Emitted
    <3>3. Emitted(all).events = cut
      BY <1>3 DEF Emitted
    <3>4. QED
      BY <3>1, <3>2, <3>3
  <2>2. /\ Sequence(cut) /\ Len(cut) = nMaxEvents
        /\ \A i \in 1 .. nMaxEvents : cut[i] = all[i]
    BY <1>1, <1>3, Shorter
  <2> HIDE DEF cut
  <2>3. DOMAIN cut = 1 .. Len(cut) /\ DOMAIN events = 1 .. Len(events)
    BY <2>2, SequenceIs
  <2>4. \A i \in DOMAIN events : i \in DOMAIN cut /\ cut[i] = events[i]
    BY <1>1, <2>2, <2>3
  <2>5. PathsIn(events) \subseteq PathsIn(cut)
    BY <2>4 DEF PathsIn
  <2>6. QED
    BY <1>1, <2>1, <2>2, <2>5
<1> QED
  BY <1>2, <1>3

\* So does an event of the kernel that is passed on.
LEMMA HandledKeeps ==
  ASSUME Sequence(events), Len(events) <= nMaxEvents, NEW e, NEW added, added.ok \in BOOLEAN
  PROVE  /\ Handled(e, added).ok \in BOOLEAN /\ Sequence(Handled(e, added).events)
         /\ Len(Handled(e, added).events) <= nMaxEvents
         /\ PathsIn(events) \subseteq PathsIn(Handled(e, added).events)
         /\ Handled(e, added).dirs = added.dirs
<1> DEFINE IsOut(out) == /\ out.ok \in BOOLEAN /\ Sequence(out.events)
                         /\ Len(out.events) <= nMaxEvents
                         /\ PathsIn(events) \subseteq PathsIn(out.events)
<1>1. IsOut(Emitted(events))
  <2>1. Len(events) \in Nat
    BY SequenceIs
  <2>2. QED
    BY <2>1, EmittedKeeps
<1>2. \A new : IsOut(EmitWatchEvent(new))
  <2>1. SUFFICES ASSUME NEW new PROVE IsOut(EmitWatchEvent(new))
    OBVIOUS
  <2>2. CASE Contains(events, new)
    <3>1. EmitWatchEvent(new) = [ok |-> TRUE, events |-> events]
      BY <2>2 DEF EmitWatchEvent
    <3>2. QED
      BY <3>1
  <2>3. CASE ~Contains(events, new)
    <3>1. EmitWatchEvent(new) = Emitted(Append(events, new))
      BY <2>3 DEF EmitWatchEvent
    <3>2. /\ Sequence(Append(events, new)) /\ Len(Append(events, new)) = Len(events) + 1
          /\ \A i \in 1 .. Len(events) : Append(events, new)[i] = events[i]
      <4> DEFINE S == ToSet(events) \union {new}
      <4>1. events \in Seq(S)
        <5>1. \A i \in 1 .. Len(events) : events[i] \in S
          BY SequenceIs DEF ToSet
        <5> HIDE DEF S
        <5>2. QED
          BY <5>1, SequenceIs
      <4>2. new \in S
        OBVIOUS
      <4> HIDE DEF S
      <4>3. /\ Append(events, new) \in Seq(S) /\ Len(Append(events, new)) = Len(events) + 1
            /\ \A i \in 1 .. Len(events) : Append(events, new)[i] = events[i]
        BY <4>1, <4>2
      <4>4. QED
        BY <4>3, AnySequence
    <3>3. Len(events) \in Nat /\ Len(events) <= Len(events) + 1
      BY SequenceIs
    <3> HIDE DEF IsOut
    <3>4. IsOut(Emitted(Append(events, new)))
      <4>1. Len(events) <= Len(Append(events, new))
        BY <3>2, <3>3
      <4>2. QED
        BY <3>2, <4>1, EmittedKeeps DEF IsOut
    <3>5. QED
      BY <3>1, <3>4
  <2>4. QED
    BY <2>2, <2>3
<1>3. \E out : /\ IsOut(out) /\ Handled(e, added).events = out.events
               /\ Handled(e, added).ok = (added.ok /\ out.ok)
               /\ Handled(e, added).dirs = added.dirs
  <2> HIDE DEF IsOut
  <2> DEFINE path == PathOf(e)
             pair == e.mask = "MOVED_TO" /\ Native.pending.cookie = e.cookie
             news == IF pair THEN [type |-> "RENAMED", path |-> path, old |-> Native.pending.path]
                     ELSE IF e.mask \in {"CREATE", "MOVED_TO"} THEN Report("CREATED", path)
                     ELSE IF e.mask = "MODIFY" THEN Report("MODIFIED", path)
                     ELSE Report("DELETED", path)
             out == IF e.mask = "MOVED_FROM" \/ ~added.ok THEN Emitted(events)
                    ELSE EmitWatchEvent(news)
             pends == IF e.mask = "MOVED_FROM" THEN [cookie |-> e.cookie, path |-> path]
                      ELSE IF e.mask = "MOVED_TO" /\ added.ok THEN NoRename ELSE Native.pending
  <2>1. Handled(e, added) = [dirs |-> added.dirs, ok |-> added.ok /\ out.ok, events |-> out.events,
                             pending |-> pends]
    BY DEF Handled
  <2>2. IsOut(out)
    <3> HIDE DEF news
    <3>1. QED
      BY <1>1, <1>2
  <2> HIDE DEF out, pends
  <2>3. QED
    BY <2>1, <2>2
<1>4. PICK out : /\ IsOut(out) /\ Handled(e, added).events = out.events
                 /\ Handled(e, added).ok = (added.ok /\ out.ok)
                 /\ Handled(e, added).dirs = added.dirs
  BY <1>3
<1>5. Handled(e, added).ok \in BOOLEAN
  BY <1>4
<1> QED
  BY <1>4, <1>5
-----------------------------------------------------------------------------
(* Steps of the tree. *)

\* However many events a change makes, the queue of a watch stays within its length.
LEMMA QueuedFits ==
  ASSUME NEW n, IsNative(n), NEW news, Sequence(news)
  PROVE  IsNative([n EXCEPT !.queue = Queued(n, news)])
<1> DEFINE watched == {n.dirs[i].wd : i \in DOMAIN n.dirs}
           heard == Picked(news, {k \in DOMAIN news : news[k].wd \in watched})
           all == n.queue \o heard
<1>1. Sequence(heard)
  <2> HIDE DEF watched
  <2>1. {k \in DOMAIN news : news[k].wd \in watched} \subseteq 1 .. Len(news)
    BY SequenceIs
  <2>2. QED
    BY <2>1, PickedOnes
<1>2. Queued(n, news) = SubSeq(all, 1, IF Len(all) > QueueMax THEN QueueMax ELSE Len(all))
  BY DEF Queued
<1> HIDE DEF watched, heard
<1>3. Sequence(all) /\ Len(all) \in Nat /\ QueueMax \in Nat
  BY <1>1, Joined, SequenceIs, WatchAssumption DEF IsNative
<1> HIDE DEF all
<1>4. Sequence(Queued(n, news)) /\ Len(Queued(n, news)) <= QueueMax
  <2>1. CASE Len(all) > QueueMax
    <3>1. Queued(n, news) = SubSeq(all, 1, QueueMax) /\ QueueMax <= Len(all)
      BY <1>2, <1>3, <2>1
    <3>2. QED
      BY <1>3, <3>1, Shorter
  <2>2. CASE ~(Len(all) > QueueMax)
    <3>1. Queued(n, news) = SubSeq(all, 1, Len(all)) /\ Len(all) <= QueueMax /\ Len(all) <= Len(all)
      BY <1>2, <1>3, <2>2
    <3>2. QED
      BY <1>3, <3>1, Shorter
  <2>3. QED
    BY <2>1, <2>2
<1> QED
  BY <1>4 DEF IsNative

\* A change of the tree only adds to the queues.
LEMMA TreeKeeps ==
  ASSUME NativesShaped, NativesUsed, NEW newTree, NEW news, Sequence(news),
         TreeChanges(newTree, news), UNCHANGED watches
  PROVE  NativesShaped' /\ NativesUsed'
<1>1. natives' = [s \in NativeSlots |-> [natives[s] EXCEPT !.queue = Queued(natives[s], news)]]
  BY DEF TreeChanges, NativesShaped
<1>2. NativesShaped'
  BY <1>1, QueuedFits DEF NativesShaped, NativeSlots
<1>3. \A s \in NativeSlots : natives'[s].used = natives[s].used
  BY <1>1 DEF NativesShaped, IsNative
<1>4. NativesUsed'
  BY <1>3 DEF NativesUsed, NativeSlots
<1> QED
  BY <1>2, <1>4

\* The events of each change.
LEMMA NewsAre ==
  /\ \A p, mask : Sequence(Told(p, mask))
  /\ \A a : Sequence(<< a >>)
  /\ \A a, b, c, d : Sequence(<< a, b, c, d >>)
<1>1. \A a : Sequence(<< a >>)
  BY DEF Sequence, ToSet
<1>2. \A a, b, c, d : Sequence(<< a, b, c, d >>)
  <2>1. SUFFICES ASSUME NEW a, NEW b, NEW c, NEW d PROVE Sequence(<< a, b, c, d >>)
    OBVIOUS
  <2>2. << a, b, c, d >> \in Seq({a, b, c, d})
    OBVIOUS
  <2>3. QED
    BY <2>2, AnySequence
<1>3. Sequence(<< >>)
  BY DEF Sequence
<1>4. \A p, mask : Sequence(Told(p, mask))
  BY <1>1, <1>3 DEF Told
<1> QED
  BY <1>1, <1>2, <1>4

\* A change of the tree, of whatever kind, is told to the watches as a sequence of events.
LEMMA RemovedTells ==
  ASSUME NEW p, Removed(p)
  PROVE  \E newTree, news : Sequence(news) /\ TreeChanges(newTree, news)
  BY NewsAre, Joined DEF Removed

\* So is every change that others make.
LEMMA OthersTell ==
  ASSUME OthersChangeTheTree
  PROVE  \E newTree, news : Sequence(news) /\ TreeChanges(newTree, news)
<1>1. CASE \E p \in Paths : Created(p)
  BY <1>1, NewsAre DEF Created
<1>2. CASE \E p \in Paths : Modified(p)
  <2>1. \A p : Sequence(Told(p, "MODIFY") \o << Event(p, "MODIFY", << >>) >>)
    BY NewsAre, Joined
  <2>2. QED
    BY <1>2, <2>1 DEF Modified
<1>3. CASE \E p \in Paths : Removed(p)
  BY <1>3, RemovedTells
<1>4. CASE \E p, q \in Paths : Renamed(p, q)
  BY <1>4, NewsAre DEF Renamed
<1> QED
  BY <1>1, <1>2, <1>3, <1>4 DEF OthersChangeTheTree

\* What changes neither watches nor the call leaves their shape.
LEMMA ShapesStay ==
  ASSUME WatchesShaped, CallShaped,
         UNCHANGED << fsInitialized, nNextWatchHandle, watches, phase, at, scratch, events >>
  PROVE  WatchesShaped' /\ CallShaped'
<1>1. \A w : IsWatch(w, nNextWatchHandle) <=> IsWatch(w, nNextWatchHandle')
  BY DEF IsWatch
<1>2. WatchesShaped'
  BY <1>1 DEF WatchesShaped
<1>3. IsWatch(scratch, nNextWatchHandle) => IsWatch(scratch', nNextWatchHandle')
  BY DEF IsWatch
<1>4. CallShaped'
  BY <1>3 DEF CallShaped
<1> QED
  BY <1>2, <1>4

\* A client that was told of as much as before is as well informed as before.
LEMMA ToldStays ==
  ASSUME NetChangesReported, UNCHANGED << watches, seen, ahead >>,
         named \union PathsIn(events) \subseteq named' \union PathsIn(events')
  PROVE  NetChangesReported'
<1>1. \A w \in ToSet(watches) : \A p \in Covered(w) :
        seen[p] = w.snapshot[p] \/ p \in named' \union PathsIn(events') \/ << w.handle, p >> \in ahead
  BY DEF NetChangesReported
<1> QED
  BY <1>1 DEF NetChangesReported

\* Changes of the tree touch neither the snapshots nor what the client knows.
LEMMA OthersKeep ==
  ASSUME WatchKept, NetChangesReported, OthersChangeTheTree
  PROVE  WatchKept' /\ NetChangesReported'
<1>1. UNCHANGED << fsInitialized, nNextWatchHandle, watches, phase, at, scratch, events,
                   named, seen, ahead >>
  BY DEF OthersChangeTheTree, callvars, clientvars
<1>2. NativesShaped' /\ NativesUsed'
  BY <1>1, OthersTell, TreeKeeps DEF WatchKept
<1>3. WatchesShaped' /\ CallShaped'
  BY <1>1, ShapesStay DEF WatchKept
<1>4. NetChangesReported'
  BY <1>1, ToldStays
<1> QED
  BY <1>2, <1>3, <1>4 DEF WatchKept
-----------------------------------------------------------------------------
(* Lifetimes and watches. *)

\* A lifetime begins without watches.
LEMMA BeginsKeeps ==
  ASSUME WatchKept, NetChangesReported, WatchingBegins
  PROVE  WatchKept' /\ NetChangesReported'
<1>1. /\ fsInitialized' = TRUE /\ nNextWatchHandle' = 1 /\ watches = << >> /\ phase = "idle"
      /\ UNCHANGED << natives, watches, phase, at, scratch, events, named, seen, ahead >>
  BY DEF WatchingBegins, WatchKept, CallShaped, callvars, clientvars
<1>2. NativesShaped' /\ NativesUsed'
  BY <1>1 DEF WatchKept, NativesShaped, NativesUsed, NativeSlots
<1>3. WatchesShaped'
  BY <1>1 DEF WatchKept, WatchesShaped
<1>4. CallShaped'
  BY <1>1 DEF WatchKept, CallShaped
<1>5. NetChangesReported'
  BY <1>1, ToldStays
<1> QED
  BY <1>2, <1>3, <1>4, <1>5 DEF WatchKept

\* A slot that is given up is as it was at first.
LEMMA UnusedIsNative == IsNative(Unused) /\ ~Unused.used
<1>1. Sequence(<< >>) /\ Len(<< >>) = 0
  BY DEF Sequence
<1>2. MaxDirs \in Nat /\ QueueMax \in Nat
  BY WatchAssumption
<1> QED
  BY <1>1, <1>2 DEF Unused, IsNative

\* Without watches there is nothing to report.
LEMMA NoneReported ==
  ASSUME watches' = << >>
  PROVE  NetChangesReported'
<1>1. ToSet(watches') = {}
  BY DEF ToSet
<1> QED
  BY <1>1 DEF NetChangesReported

\* At the end of a lifetime every native watch is given up.
LEMMA EndsKeeps ==
  ASSUME WatchKept, WatchingEnds
  PROVE  WatchKept' /\ NetChangesReported'
<1>1. /\ fsInitialized' = FALSE /\ nNextWatchHandle' = 1 /\ watches' = << >>
      /\ phase = "idle" /\ UNCHANGED << phase, at, scratch, events >>
      /\ natives' = [s \in NativeSlots |-> IF \E w \in ToSet(watches) : w.native = s
                                           THEN Destroyed(s) ELSE natives[s]]
  BY DEF WatchingEnds, callvars
<1>2. \A s \in NativeSlots : natives[s].used => \E w \in ToSet(watches) : w.native = s
  BY DEF WatchKept, NativesUsed, ToSet
<1>3. NativesShaped'
  <2>1. \A s \in NativeSlots : IsNative(natives'[s])
    BY <1>1, UnusedIsNative DEF WatchKept, NativesShaped, Destroyed
  <2>2. QED
    BY <1>1, <2>1 DEF NativesShaped, NativeSlots
<1>4. \A s \in NativeSlots : ~natives'[s].used
  BY <1>1, <1>2, UnusedIsNative DEF Destroyed
<1>5. NativesUsed'
  BY <1>1, <1>4 DEF NativesUsed, NativeSlots
<1>6. Sequence(<< >>)
  BY DEF Sequence
<1>7. WatchesShaped'
  BY <1>1, <1>6 DEF WatchesShaped
<1>8. CallShaped'
  BY <1>1 DEF WatchKept, CallShaped
<1>9. NetChangesReported'
  BY <1>1, NoneReported
<1> QED
  BY <1>3, <1>5, <1>7, <1>8, <1>9 DEF WatchKept

\* Watches that stay in the table keep their shape when more handles are given out.
LEMMA StillWatches ==
  ASSUME WatchesShaped, UNCHANGED watches, nNextWatchHandle' \in Nat,
         nNextWatchHandle <= nNextWatchHandle'
  PROVE  WatchesShaped'
<1>1. \A w : IsWatch(w, nNextWatchHandle) => IsWatch(w, nNextWatchHandle')
  BY DEF IsWatch, WatchesShaped
<1> QED
  BY <1>1 DEF WatchesShaped

\* A watch begins with a handle that none has had, and a snapshot of what it covers.
LEMMA WatchPathKeeps ==
  ASSUME WatchKept, NetChangesReported, NEW target \in Targets, FS_WatchPath(target)
  PROVE  WatchKept' /\ NetChangesReported'
<1> DEFINE w == [path |-> target[1], kind |-> target[2]]
<1>1. /\ fsInitialized /\ phase = "idle" /\ nNextWatchHandle' = nNextWatchHandle + 1
      /\ scratch' = [handle |-> nNextWatchHandle, path |-> w.path, kind |-> w.kind,
                     snapshot |-> SnapshotOf(w), native |-> 0]
      /\ phase' = "watch"
      /\ UNCHANGED << fsInitialized, watches, natives, at, events, named, seen, ahead >>
  BY DEF FS_WatchPath, clientvars
<1>2. target[1] \in Paths /\ target[2] \in Kinds
  BY WatchAssumption DEF Kinds
<1>3. nNextWatchHandle \in Nat
  BY DEF WatchKept, WatchesShaped
<1>4. NativesShaped' /\ NativesUsed'
  BY <1>1 DEF WatchKept, NativesShaped, NativesUsed, NativeSlots
<1>5. WatchesShaped'
  BY <1>1, <1>3, StillWatches DEF WatchKept
<1>6. IsWatch(scratch', nNextWatchHandle')
  <2>1. scratch'.path = w.path /\ scratch'.kind = w.kind /\ w.path \in Paths /\ w.kind \in Kinds
    BY <1>1, <1>2
  <2> HIDE DEF w
  <2>2. DOMAIN scratch'.snapshot = Covered(scratch')
    <3>1. DOMAIN scratch'.snapshot = Covered(w)
      BY <1>1 DEF SnapshotOf
    <3>2. Covered(scratch') = Covered(w)
      BY <2>1, CoveredPaths
    <3>3. QED
      BY <3>1, <3>2
  <2>3. /\ DOMAIN scratch' = WatchFields /\ scratch'.handle = nNextWatchHandle
    BY <1>1 DEF WatchFields
  <2>4. QED
    BY <1>1, <1>3, <2>1, <2>2, <2>3 DEF IsWatch
<1>7. \A i \in DOMAIN watches : watches[i].handle < nNextWatchHandle /\ watches[i].handle \in Nat
  BY DEF WatchKept, WatchesShaped, IsWatch
<1>8. \A i \in DOMAIN watches : watches[i].handle # scratch'.handle
  BY <1>1, <1>3, <1>7
<1>9. CallShaped'
  BY <1>1, <1>6, <1>8 DEF WatchKept, CallShaped
<1>10. NetChangesReported'
  BY <1>1, ToldStays
<1> QED
  BY <1>4, <1>5, <1>9, <1>10 DEF WatchKept

\* A watch that the kernel refuses leaves nothing behind.
LEMMA WatchFailsKeeps ==
  ASSUME WatchKept, NetChangesReported, NativeWatchFails
  PROVE  WatchKept' /\ NetChangesReported'
<1>1. /\ phase = "watch" /\ phase' = "idle"
      /\ UNCHANGED << fsInitialized, nNextWatchHandle, watches, natives, at, events,
                      named, seen, ahead >>
  BY DEF NativeWatchFails, clientvars
<1>2. NativesShaped' /\ NativesUsed'
  BY <1>1 DEF WatchKept, NativesShaped, NativesUsed, NativeSlots
<1>3. WatchesShaped'
  BY <1>1, StillWatches DEF WatchKept, WatchesShaped
<1>4. CallShaped'
  BY <1>1 DEF WatchKept, CallShaped
<1>5. NetChangesReported'
  BY <1>1, ToldStays
<1> QED
  BY <1>2, <1>3, <1>4, <1>5 DEF WatchKept

\* The paths are listed.
LEMMA OrderIsSequence == Sequence(PathOrder)
<1>1. PathOrder \in Seq(Paths)
  BY WatchAssumption
<1> QED
  BY <1>1, AnySequence

\* However many directories are found, no more are added than there is room for.
LEMMA AddedFits ==
  ASSUME NEW dirs, Sequence(dirs), Len(dirs) <= MaxDirs, NEW path, NEW below
  PROVE  /\ Sequence(Added(dirs, path, below).dirs) /\ Len(Added(dirs, path, below).dirs) <= MaxDirs
         /\ Added(dirs, path, below).ok \in BOOLEAN
<1> DEFINE Wanted(p) == /\ Exists(path) /\ Exists(p)
                        /\ p = path \/ (below /\ p \in DirPaths /\ p \in Below[path])
           found == Picked(PathOrder, {k \in DOMAIN PathOrder : Wanted(PathOrder[k])})
           fits == IF Len(found) > MaxDirs - Len(dirs) THEN MaxDirs - Len(dirs) ELSE Len(found)
           more == [i \in 1 .. fits |-> [wd |-> tree[found[i]].node, path |-> found[i]]]
<1>1. Added(dirs, path, below) = [dirs |-> dirs \o more, ok |-> Exists(path) /\ fits = Len(found)]
  BY DEF Added
<1>2. Len(found) \in Nat
  <2> HIDE DEF Wanted
  <2>1. Sequence(PathOrder)
    BY OrderIsSequence
  <2>2. {k \in DOMAIN PathOrder : Wanted(PathOrder[k])} \subseteq 1 .. Len(PathOrder)
    BY <2>1, SequenceIs
  <2>3. QED
    BY <2>1, <2>2, PickedOnes, SequenceIs
<1> HIDE DEF found
<1>3. fits \in Nat /\ Len(dirs) + fits <= MaxDirs
  <2>1. Len(dirs) \in Nat /\ MaxDirs \in Nat
    BY SequenceIs, WatchAssumption
  <2>2. QED
    BY <1>2, <2>1
<1> HIDE DEF fits
<1>4. Sequence(more) /\ Len(more) = fits
  <2>1. \A i \in 1 .. fits : more[i] \in {more[k] : k \in 1 .. fits}
    OBVIOUS
  <2>2. more \in Seq({more[k] : k \in 1 .. fits}) /\ Len(more) = fits
    BY <1>3, <2>1
  <2>3. QED
    BY <2>2, AnySequence
<1> HIDE DEF more
<1>5. Sequence(dirs \o more) /\ Len(dirs \o more) = Len(dirs) + fits
  BY <1>4, Joined
<1> QED
  BY <1>1, <1>3, <1>5

\* A watch that is new has handed its client all that it covers to look at.
LEMMA CreatedKeeps ==
  ASSUME WatchKept, NetChangesReported, NativeWatchCreated
  PROVE  WatchKept' /\ NetChangesReported'
<1> DEFINE added == Added(<< >>, scratch.path, scratch.kind = "recursive")
           slot == CHOOSE s \in FreeSlots : \A x \in FreeSlots : s <= x
           new == [scratch EXCEPT !.native = slot]
<1>1. /\ phase = "watch" /\ FreeSlots # {} /\ watches' = Append(watches, new)
      /\ named' = named \union Covered(scratch)
      /\ natives' = [natives EXCEPT ![slot] = [Unused EXCEPT !.used = TRUE, !.dirs = added.dirs]]
      /\ phase' = "idle"
      /\ UNCHANGED << fsInitialized, nNextWatchHandle, at, events, seen, ahead >>
  BY DEF NativeWatchCreated
<1>2. slot \in FreeSlots /\ slot \in NativeSlots /\ ~natives[slot].used
  <2>1. FreeSlots \subseteq Nat /\ FreeSlots \subseteq NativeSlots
    BY WatchAssumption DEF FreeSlots, NativeSlots
  <2>2. \E s \in FreeSlots : \A x \in FreeSlots : s <= x
    BY <1>1, <2>1, LeastNumber
  <2>3. slot \in FreeSlots
    BY <2>2
  <2> HIDE DEF slot
  <2>4. QED
    BY <2>1, <2>3 DEF FreeSlots
<1>3. Sequence(added.dirs) /\ Len(added.dirs) <= MaxDirs
  <2>1. Sequence(<< >>) /\ Len(<< >>) <= MaxDirs
    BY WatchAssumption DEF Sequence
  <2>2. QED
    BY <2>1, AddedFits
<1> HIDE DEF slot, added
<1>4. IsWatch(scratch, nNextWatchHandle) /\ \A i \in DOMAIN watches : watches[i].handle # scratch.handle
  BY <1>1 DEF WatchKept, CallShaped
<1>5. /\ new.native = slot /\ new.handle = scratch.handle /\ new.path = scratch.path
      /\ new.kind = scratch.kind /\ new.snapshot = scratch.snapshot /\ DOMAIN new = WatchFields
  BY <1>4 DEF IsWatch, WatchFields
<1> HIDE DEF new
<1>6. Covered(new) = Covered(scratch)
  BY <1>4, <1>5, CoveredPaths DEF IsWatch
<1>7. IsWatch(new, nNextWatchHandle)
  BY <1>4, <1>5, <1>6 DEF IsWatch
<1> DEFINE n == Len(watches)
<1>8. /\ Sequence(watches') /\ Len(watches') = n + 1 /\ n \in Nat
      /\ \A i \in 1 .. n : watches'[i] = watches[i]
      /\ watches'[n + 1] = new
  <2>1. Sequence(watches) /\ Sequence(<< new >>) /\ Len(<< new >>) = 1 /\ << new >>[1] = new
    BY NewsAre DEF WatchKept, WatchesShaped
  <2>2. watches' = watches \o << new >>
    BY <1>1, <2>1, SequenceIs, AppendIsConcat
  <2>3. QED
    BY <2>1, <2>2, Joined, SequenceIs
<1>9. DOMAIN watches = 1 .. n /\ DOMAIN watches' = 1 .. n + 1
  BY <1>8, SequenceIs DEF WatchKept, WatchesShaped
<1> HIDE DEF n
<1>10. \A i \in 1 .. n : IsWatch(watches[i], nNextWatchHandle) /\ watches[i].native \in NativeSlots
  BY <1>9 DEF WatchKept, WatchesShaped
<1>11. \A i \in 1 .. n : watches[i].native # slot
  BY <1>2, <1>9 DEF WatchKept, NativesUsed
<1>12. WatchesShaped'
  <2>1. \A i \in 1 .. n + 1 : IsWatch(watches'[i], nNextWatchHandle') /\ watches'[i].native \in NativeSlots
    <3>1. \A w : IsWatch(w, nNextWatchHandle) => IsWatch(w, nNextWatchHandle')
      BY <1>1 DEF IsWatch
    <3>2. \A i \in 1 .. n + 1 : i \in 1 .. n \/ i = n + 1
      BY <1>8
    <3>3. QED
      BY <1>2, <1>5, <1>7, <1>8, <1>10, <3>1, <3>2
  <2>2. ASSUME NEW i \in 1 .. n + 1, NEW j \in 1 .. n + 1, i # j
        PROVE  watches'[i].handle # watches'[j].handle /\ watches'[i].native # watches'[j].native
    <3>1. CASE i \in 1 .. n /\ j \in 1 .. n
      BY <1>8, <1>9, <2>2, <3>1 DEF WatchKept, WatchesShaped
    <3>2. CASE i \in 1 .. n /\ j = n + 1
      BY <1>4, <1>5, <1>8, <1>9, <1>11, <3>2
    <3>3. CASE i = n + 1 /\ j \in 1 .. n
      BY <1>4, <1>5, <1>8, <1>9, <1>11, <3>3
    <3>4. QED
      BY <1>8, <2>2, <3>1, <3>2, <3>3
  <2>3. (nNextWatchHandle \in Nat)'
    BY <1>1 DEF WatchKept, WatchesShaped
  <2>4. QED
    BY <1>8, <1>9, <2>1, <2>2, <2>3 DEF WatchesShaped, NativeSlots
<1>13. CallShaped'
  BY <1>1 DEF WatchKept, CallShaped
<1>14. IsNative([Unused EXCEPT !.used = TRUE, !.dirs = added.dirs])
  BY <1>3, UnusedIsNative DEF Unused, IsNative
<1>15. NativesShaped'
  BY <1>1, <1>14 DEF WatchKept, NativesShaped, NativeSlots
<1>16. NativesUsed'
  <2>1. \A s \in NativeSlots : s # slot => natives'[s] = natives[s]
    BY <1>1 DEF WatchKept, NativesShaped
  <2>2. natives'[slot].used
    BY <1>1, <1>2 DEF WatchKept, NativesShaped, Unused
  <2>3. ASSUME NEW s \in NativeSlots
        PROVE  natives'[s].used <=> \E i \in DOMAIN watches' : watches'[i].native = s
    <3>1. CASE s = slot
      BY <1>5, <1>8, <1>9, <2>2, <3>1
    <3>2. CASE s # slot
      <4>1. (\E i \in 1 .. n + 1 : watches'[i].native = s) <=> (\E i \in 1 .. n : watches[i].native = s)
        BY <1>5, <1>8, <3>2
      <4>2. QED
        BY <1>9, <2>1, <3>2, <4>1 DEF WatchKept, NativesUsed
    <3>3. QED
      BY <3>1, <3>2
  <2>4. QED
    BY <2>3 DEF NativesUsed, NativeSlots
<1>17. NetChangesReported'
  <2>1. SUFFICES ASSUME NEW i \in 1 .. n + 1, NEW p \in Covered(watches'[i])
                 PROVE  \/ seen[p] = watches'[i].snapshot[p]
                        \/ p \in named' \union PathsIn(events)
                        \/ << watches'[i].handle, p >> \in ahead
    BY <1>1, <1>9 DEF NetChangesReported, ToSet
  <2>2. CASE i \in 1 .. n
    <3>1. watches[i] \in ToSet(watches) /\ watches'[i] = watches[i]
      BY <1>8, <1>9, <2>2 DEF ToSet
    <3>2. QED
      BY <1>1, <3>1 DEF NetChangesReported
  <2>3. CASE i = n + 1
    BY <1>1, <1>6, <1>8, <2>3
  <2>4. QED
    BY <1>8, <2>2, <2>3
<1> QED
  BY <1>12, <1>13, <1>15, <1>16, <1>17 DEF WatchKept

\* A table from which one watch is taken.
LEMMA RestOf ==
  ASSUME NEW s, Sequence(s), NEW i \in DOMAIN s
  PROVE  /\ Sequence(RemoveAt(s, i)) /\ Len(RemoveAt(s, i)) = Len(s) - 1 /\ Len(s) - 1 \in Nat
         /\ \A j \in 1 .. Len(s) - 1 : RemoveAt(s, i)[j] = IF j < i THEN s[j] ELSE s[j + 1]
<1>1. s \in Seq(ToSet(s)) /\ Len(s) \in Nat /\ i \in 1 .. Len(s)
  BY SequenceIs
<1>2. Len(s) - 1 \in Nat
  BY <1>1
<1>3. \A j \in 1 .. Len(s) - 1 : (IF j < i THEN s[j] ELSE s[j + 1]) \in ToSet(s)
  BY <1>1
<1>4. RemoveAt(s, i) \in Seq(ToSet(s)) /\ Len(RemoveAt(s, i)) = Len(s) - 1
  BY <1>1, <1>2, <1>3 DEF RemoveAt
<1> DEFINE a == SubSeq(s, 1, i - 1)
           b == SubSeq(s, i + 1, Len(s))
<1>5. RemoveAt(s, i) = a \o b
  BY DEF RemoveAt
<1>6. /\ a \in Seq(ToSet(s)) /\ Len(a) = i - 1 /\ \A j \in 1 .. i - 1 : a[j] = s[j]
  BY <1>1, SubSeqProperties
<1>7. /\ b \in Seq(ToSet(s)) /\ Len(b) = Len(s) - i /\ \A j \in 1 .. Len(s) - i : b[j] = s[i + j]
  BY <1>1, SubSeqProperties
<1> HIDE DEF a, b
<1>8. ASSUME NEW j \in 1 .. Len(s) - 1
      PROVE  RemoveAt(s, i)[j] = IF j < i THEN s[j] ELSE s[j + 1]
  <2>1. Sequence(a) /\ Sequence(b)
    BY <1>6, <1>7, AnySequence
  <2>2. CASE j < i
    <3>1. j \in 1 .. Len(a) /\ a[j] = s[j]
      BY <1>1, <1>6, <2>2
    <3>2. QED
      BY <1>5, <2>1, <2>2, <3>1, Joined
  <2>3. CASE ~(j < i)
    <3> DEFINE k == j - (i - 1)
    <3>1. k \in 1 .. Len(s) - i /\ i + k = j + 1 /\ (i - 1) + k = j
      BY <1>1, <2>3
    <3>2. k \in 1 .. Len(b) /\ b[k] = s[j + 1] /\ Len(a) + k = j
      BY <1>6, <1>7, <3>1
    <3> HIDE DEF k
    <3>3. QED
      BY <1>5, <2>1, <2>3, <3>2, Joined
  <2>4. QED
    BY <2>2, <2>3
<1> QED
  BY <1>2, <1>4, <1>8, AnySequence

\* A client that keeps what it knows of the watches that are left.
LEMMA ClientKeepsUp ==
  ASSUME NetChangesReported, events = << >>, UNCHANGED events, NEW ws, watches' = ws,
         ToSet(ws) \subseteq ToSet(watches), ClientKeeps(ws),
         \A w \in ToSet(ws) : Covered(w) \subseteq Paths
  PROVE  NetChangesReported'
<1>1. SUFFICES ASSUME NEW w \in ToSet(ws), NEW p \in Covered(w)
               PROVE  seen'[p] = w.snapshot[p] \/ p \in named' \/ << w.handle, p >> \in ahead'
  BY DEF NetChangesReported
<1>2. p \in Watching(ws) /\ p \in Paths
  BY DEF Watching
<1>3. PathsIn(events) = {}
  BY DEF PathsIn
<1>4. seen[p] = w.snapshot[p] \/ p \in named \/ << w.handle, p >> \in ahead
  BY <1>3 DEF NetChangesReported
<1>5. seen'[p] = seen[p] /\ (p \in named => p \in named')
  BY <1>2 DEF ClientKeeps
<1>6. << w.handle, p >> \in ahead => << w.handle, p >> \in ahead'
  BY DEF ClientKeeps
<1> QED
  BY <1>4, <1>5, <1>6

\* Taking a watch back gives its native watch up, and no other.
LEMMA UnwatchKeeps ==
  ASSUME WatchKept, NetChangesReported, NEW i \in DOMAIN watches, FS_UnwatchPath(i)
  PROVE  WatchKept' /\ NetChangesReported'
<1> DEFINE gone == watches[i].native
           n == Len(watches) - 1
           Old(j) == IF j < i THEN j ELSE j + 1
<1>1. /\ fsInitialized /\ phase = "idle" /\ natives' = [natives EXCEPT ![gone] = Unused]
      /\ watches' = RemoveAt(watches, i) /\ ClientKeeps(RemoveAt(watches, i))
      /\ UNCHANGED << fsInitialized, nNextWatchHandle, phase, at, scratch, events >>
  BY DEF FS_UnwatchPath, Destroyed, callvars
<1>2. /\ Sequence(watches') /\ Len(watches') = n /\ n \in Nat
      /\ \A j \in 1 .. n : watches'[j] = IF j < i THEN watches[j] ELSE watches[j + 1]
  BY <1>1, RestOf DEF WatchKept, WatchesShaped
<1>3. DOMAIN watches = 1 .. n + 1 /\ DOMAIN watches' = 1 .. n /\ i \in 1 .. n + 1
  <2>1. Sequence(watches)
    BY DEF WatchKept, WatchesShaped
  <2>2. Len(watches) \in Nat /\ DOMAIN watches = 1 .. Len(watches)
    BY <2>1, SequenceIs
  <2>3. n + 1 = Len(watches)
    BY <2>2
  <2>4. DOMAIN watches' = 1 .. n
    BY <1>2, SequenceIs
  <2>5. QED
    BY <2>2, <2>3, <2>4
<1> HIDE DEF n
<1>4. /\ \A j \in 1 .. n : Old(j) \in 1 .. n + 1 /\ Old(j) # i /\ watches'[j] = watches[Old(j)]
      /\ \A j, k \in 1 .. n : j # k => Old(j) # Old(k)
      /\ \A k \in 1 .. n + 1 : k # i => \E j \in 1 .. n : Old(j) = k
  <2>1. \A j \in 1 .. n : Old(j) \in 1 .. n + 1 /\ Old(j) # i /\ watches'[j] = watches[Old(j)]
    BY <1>2, <1>3
  <2>2. \A j, k \in 1 .. n : j # k => Old(j) # Old(k)
    BY <1>2, <1>3
  <2>3. ASSUME NEW k \in 1 .. n + 1, k # i PROVE \E j \in 1 .. n : Old(j) = k
    <3>1. CASE k < i
      <4>1. k \in 1 .. n /\ Old(k) = k
        BY <1>2, <1>3, <3>1
      <4>2. QED
        BY <4>1
    <3>2. CASE ~(k < i)
      <4>1. k - 1 \in 1 .. n /\ Old(k - 1) = k
        BY <1>2, <1>3, <2>3, <3>2
      <4>2. QED
        BY <4>1
    <3>3. QED
      BY <3>1, <3>2
  <2>4. QED
    BY <2>1, <2>2, <2>3
<1> HIDE DEF Old
<1>5. \A j \in 1 .. n + 1 : IsWatch(watches[j], nNextWatchHandle) /\ watches[j].native \in NativeSlots
  BY <1>3 DEF WatchKept, WatchesShaped
<1>6. \A j, k \in 1 .. n + 1 : j # k =>
        watches[j].handle # watches[k].handle /\ watches[j].native # watches[k].native
  BY <1>3 DEF WatchKept, WatchesShaped
<1>7. WatchesShaped'
  <2>1. \A w : IsWatch(w, nNextWatchHandle) => IsWatch(w, nNextWatchHandle')
    BY <1>1 DEF IsWatch
  <2>2. \A j \in 1 .. n : IsWatch(watches'[j], nNextWatchHandle') /\ watches'[j].native \in NativeSlots
    BY <1>4, <1>5, <2>1
  <2>3. \A j, k \in 1 .. n : j # k =>
          watches'[j].handle # watches'[k].handle /\ watches'[j].native # watches'[k].native
    BY <1>4, <1>6
  <2>4. (nNextWatchHandle \in Nat)'
    BY <1>1 DEF WatchKept, WatchesShaped
  <2>5. QED
    BY <1>2, <1>3, <2>2, <2>3, <2>4 DEF WatchesShaped, NativeSlots
<1>8. CallShaped'
  BY <1>1 DEF WatchKept, CallShaped
<1>9. gone \in NativeSlots
  BY <1>3, <1>5
<1> HIDE DEF gone
<1>10. NativesShaped'
  BY <1>1, <1>9, UnusedIsNative DEF WatchKept, NativesShaped, NativeSlots
<1>11. NativesUsed'
  <2>1. \A s \in NativeSlots : natives'[s] = IF s = gone THEN Unused ELSE natives[s]
    BY <1>1, <1>9 DEF WatchKept, NativesShaped
  <2>2. ASSUME NEW s \in NativeSlots
        PROVE  natives'[s].used <=> \E j \in 1 .. n : watches'[j].native = s
    <3>1. CASE s = gone
      <4>1. \A j \in 1 .. n : watches'[j].native # gone
        BY <1>3, <1>4, <1>6 DEF gone
      <4>2. QED
        BY <2>1, <3>1, <4>1, UnusedIsNative
    <3>2. CASE s # gone
      <4>1. (\E j \in 1 .. n : watches'[j].native = s) <=> (\E j \in 1 .. n + 1 : watches[j].native = s)
        <5>1. watches[i].native # s
          BY <3>2 DEF gone
        <5>2. QED
          BY <1>4, <5>1
      <4>2. QED
        BY <1>3, <2>1, <3>2, <4>1 DEF WatchKept, NativesUsed
    <3>3. QED
      BY <3>1, <3>2
  <2>3. QED
    BY <1>3, <2>2 DEF NativesUsed, NativeSlots
<1>12. NetChangesReported'
  <2>1. events = << >>
    BY <1>1 DEF WatchKept, CallShaped
  <2>2. ToSet(watches') \subseteq ToSet(watches)
    BY <1>3, <1>4 DEF ToSet
  <2>3. \A w \in ToSet(watches') : Covered(w) \subseteq Paths
    <3>1. \A w \in ToSet(watches) : IsWatch(w, nNextWatchHandle)
      BY <1>3, <1>5 DEF ToSet
    <3>2. QED
      BY <2>2, <3>1, CoveredPaths DEF IsWatch
  <2>4. QED
    BY <1>1, <2>1, <2>2, <2>3, ClientKeepsUp
<1> QED
  BY <1>7, <1>8, <1>10, <1>11, <1>12 DEF WatchKept
-----------------------------------------------------------------------------
(* FS_PollChanges and the client. *)

\* A poll begins with the first watch.
LEMMA PollBegins ==
  ASSUME WatchKept, NetChangesReported, FS_PollChanges
  PROVE  WatchKept' /\ NetChangesReported'
<1>1. /\ fsInitialized /\ phase = "idle" /\ watches # << >> /\ phase' = "read" /\ at' = 1
      /\ UNCHANGED << fsInitialized, nNextWatchHandle, watches, natives, scratch, events,
                      named, seen, ahead >>
  BY DEF FS_PollChanges, clientvars
<1>2. NativesShaped' /\ NativesUsed'
  BY <1>1 DEF WatchKept, NativesShaped, NativesUsed, NativeSlots
<1>3. WatchesShaped'
  BY <1>1, StillWatches DEF WatchKept, WatchesShaped
<1>4. 1 \in DOMAIN watches
  <2>1. Sequence(watches)
    BY DEF WatchKept, WatchesShaped
  <2>2. QED
    BY <1>1, <2>1, SequenceIs, EmptySeq
<1>5. CallShaped'
  BY <1>1, <1>4 DEF WatchKept, CallShaped
<1>6. NetChangesReported'
  BY <1>1, ToldStays
<1> QED
  BY <1>2, <1>3, <1>5, <1>6 DEF WatchKept

\* In a poll there is a current watch, with a native watch of its own.
LEMMA CurrentIs ==
  ASSUME WatchKept, phase \in {"read", "handle", "scan"}
  PROVE  /\ at \in DOMAIN watches /\ IsWatch(Current, nNextWatchHandle)
         /\ Current.native \in NativeSlots /\ IsNative(Native) /\ Native = natives[Current.native]
         /\ fsInitialized
<1>1. at \in DOMAIN watches /\ fsInitialized
  BY DEF WatchKept, CallShaped
<1>2. IsWatch(watches[at], nNextWatchHandle) /\ watches[at].native \in NativeSlots
  BY <1>1 DEF WatchKept, WatchesShaped
<1>3. IsNative(natives[watches[at].native])
  BY <1>2 DEF WatchKept, NativesShaped
<1> QED
  BY <1>1, <1>2, <1>3 DEF Current, Native

\* Reading takes the queue away, whose events the client may learn of from the snapshots as well.
LEMMA ReadKeeps ==
  ASSUME WatchKept, NetChangesReported, NativeEventsRead
  PROVE  WatchKept' /\ NetChangesReported'
<1> DEFINE slot == Current.native
<1>1. /\ phase = "read" /\ phase' \in {"scan", "handle"}
      /\ natives' = [natives EXCEPT ![slot].queue = << >>]
      /\ UNCHANGED << fsInitialized, nNextWatchHandle, watches, at, scratch, events,
                      named, seen, ahead >>
  BY DEF NativeEventsRead, clientvars
<1>2. slot \in NativeSlots /\ at \in DOMAIN watches
  BY <1>1, CurrentIs
<1> HIDE DEF slot
<1>3. DOMAIN natives' = NativeSlots /\ natives'[slot] = [natives[slot] EXCEPT !.queue = << >>]
      /\ \A s \in NativeSlots : s # slot => natives'[s] = natives[s]
  BY <1>1, <1>2 DEF WatchKept, NativesShaped
<1>4. IsNative(natives[slot])
  BY <1>2 DEF WatchKept, NativesShaped
<1>5. IsNative(natives'[slot]) /\ natives'[slot].used = natives[slot].used
  <2>1. Sequence(<< >>) /\ Len(<< >>) <= QueueMax
    BY WatchAssumption DEF Sequence
  <2>2. QED
    BY <1>3, <1>4, <2>1 DEF IsNative
<1>6. NativesShaped' /\ NativesUsed'
  <2>1. NativesShaped'
    BY <1>3, <1>5 DEF WatchKept, NativesShaped, NativeSlots
  <2>2. \A s \in NativeSlots : natives'[s].used = natives[s].used
    BY <1>3, <1>5
  <2>3. NativesUsed'
    BY <1>1, <2>2 DEF WatchKept, NativesUsed, NativeSlots
  <2>4. QED
    BY <2>1, <2>3
<1>7. WatchesShaped'
  BY <1>1, StillWatches DEF WatchKept, WatchesShaped
<1>8. CallShaped'
  BY <1>1, <1>2 DEF WatchKept, CallShaped
<1>9. NetChangesReported'
  BY <1>1, ToldStays
<1> QED
  BY <1>6, <1>7, <1>8, <1>9 DEF WatchKept

\* A poll that returns has told its client of what it had emitted.
LEMMA PollReturned ==
  ASSUME WatchesShaped, CallShaped, NEW es, PollReturns(es),
         UNCHANGED << fsInitialized, nNextWatchHandle, watches >>
  PROVE  /\ WatchesShaped' /\ CallShaped'
         /\ named' \union PathsIn(events') = named \union PathsIn(es)
<1>1. /\ phase' = "idle" /\ events' = << >> /\ named' = named \union PathsIn(es)
  BY DEF PollReturns
<1>2. WatchesShaped'
  BY StillWatches DEF WatchesShaped
<1>3. Sequence(<< >>) /\ Len(<< >>) <= nMaxEvents
  BY WatchAssumption DEF Sequence
<1>4. CallShaped'
  BY <1>1, <1>3 DEF CallShaped
<1>5. PathsIn(<< >>) = {}
  BY DEF PathsIn
<1> QED
  BY <1>1, <1>2, <1>4, <1>5

\* Each event of the kernel adds to what was emitted, and if the poll fails, the client gets it all.
LEMMA HandleKeeps ==
  ASSUME WatchKept, NetChangesReported, NativeEventHandled
  PROVE  WatchKept' /\ NetChangesReported'
<1> DEFINE slot == Current.native
<1>1. phase = "handle"
  BY DEF NativeEventHandled
<1>2. PICK added, done :
        /\ added = DirsAdded(Head(batch)) /\ done = Handled(Head(batch), added)
        /\ natives' = [natives EXCEPT ![slot].dirs = done.dirs, ![slot].pending = done.pending]
        /\ \/ /\ done.ok
              /\ batch' = Tail(batch) /\ events' = done.events
              /\ phase' = IF Tail(batch) = << >> THEN "read" ELSE "handle"
              /\ UNCHANGED << at, scratch, named >>
           \/ ~done.ok /\ PollReturns(done.events)
        /\ UNCHANGED << fsInitialized, nNextWatchHandle, watches, seen, ahead >>
  BY DEF NativeEventHandled
<1>3. slot \in NativeSlots /\ at \in DOMAIN watches /\ IsNative(Native) /\ Native = natives[slot]
  BY <1>1, CurrentIs
<1>4. Sequence(added.dirs) /\ Len(added.dirs) <= MaxDirs /\ added.ok \in BOOLEAN
  <2>1. Sequence(Native.dirs) /\ Len(Native.dirs) <= MaxDirs
    BY <1>3 DEF IsNative
  <2>2. QED
    BY <1>2, <2>1, AddedFits DEF DirsAdded
<1>5. Sequence(events) /\ Len(events) <= nMaxEvents
  BY DEF WatchKept, CallShaped
<1>6. /\ done.ok \in BOOLEAN /\ Sequence(done.events) /\ Len(done.events) <= nMaxEvents
      /\ PathsIn(events) \subseteq PathsIn(done.events) /\ done.dirs = added.dirs
  BY <1>2, <1>4, <1>5, HandledKeeps
<1> HIDE DEF slot
<1>7. NativesShaped' /\ NativesUsed'
  <2>1. /\ DOMAIN natives' = NativeSlots
        /\ natives'[slot] = [natives[slot] EXCEPT !.dirs = done.dirs, !.pending = done.pending]
        /\ \A s \in NativeSlots : s # slot => natives'[s] = natives[s]
    BY <1>2, <1>3 DEF WatchKept, NativesShaped
  <2>2. IsNative(natives'[slot]) /\ natives'[slot].used = natives[slot].used
    BY <1>3, <1>4, <1>6, <2>1 DEF IsNative
  <2>3. NativesShaped'
    BY <2>1, <2>2 DEF WatchKept, NativesShaped, NativeSlots
  <2>4. \A s \in NativeSlots : natives'[s].used = natives[s].used
    BY <2>1, <2>2
  <2>5. NativesUsed'
    BY <1>2, <2>4 DEF WatchKept, NativesUsed, NativeSlots
  <2>6. QED
    BY <2>3, <2>5
<1>8. WatchesShaped' /\ CallShaped' /\ named \union PathsIn(events) \subseteq named' \union PathsIn(events')
  <2>1. CASE done.ok
    <3>1. /\ phase' \in {"read", "handle"} /\ events' = done.events
          /\ UNCHANGED << at, scratch, named >>
      BY <1>2, <2>1
    <3>2. WatchesShaped'
      BY <1>2, StillWatches DEF WatchKept, WatchesShaped
    <3>3. CallShaped'
      BY <1>1, <1>2, <1>3, <1>6, <3>1 DEF WatchKept, CallShaped
    <3>4. QED
      BY <1>6, <3>1, <3>2, <3>3
  <2>2. CASE ~done.ok
    <3>1. PollReturns(done.events)
      BY <1>2, <2>2
    <3>2. QED
      BY <1>2, <1>6, <3>1, PollReturned DEF WatchKept
  <2>3. QED
    BY <1>6, <2>1, <2>2
<1>9. NetChangesReported'
  BY <1>2, <1>8, ToldStays
<1> QED
  BY <1>7, <1>8, <1>9 DEF WatchKept

\* A poll that ends because a file went hands over what it had emitted.
LEMMA ScanLosesKeeps ==
  ASSUME WatchKept, NetChangesReported, NEW p \in Paths, ScanLosesFile(p)
  PROVE  WatchKept' /\ NetChangesReported'
<1>1. /\ Removed(p) /\ PollReturns(events)
      /\ UNCHANGED << fsInitialized, nNextWatchHandle, watches, seen, ahead >>
  BY DEF ScanLosesFile
<1>2. NativesShaped' /\ NativesUsed'
  BY <1>1, RemovedTells, TreeKeeps DEF WatchKept
<1>3. WatchesShaped' /\ CallShaped' /\ named' \union PathsIn(events') = named \union PathsIn(events)
  BY <1>1, PollReturned DEF WatchKept
<1>4. NetChangesReported'
  BY <1>1, <1>3, ToldStays
<1> QED
  BY <1>2, <1>3, <1>4 DEF WatchKept

\* Where a snapshot differs, there is an event of it among all that are emitted.
LEMMA DifferencesEmitted ==
  ASSUME WatchKept, NEW new, new = NewDifferences, NEW all, all = WithDifferences(new)
  PROVE  /\ Sequence(all) /\ Len(events) <= Len(all)
         /\ \A i \in 1 .. Len(events) : all[i] = events[i]
         /\ \A p \in Covered(Current) \intersect Paths :
              tree[p].stamp # Current.snapshot[p] => p \in PathsIn(all)
<1> DEFINE paths == Picked(PathOrder, new)
           more == [n \in 1 .. Cardinality(new) |-> Difference(paths[n])]
<1>1. Sequence(events) /\ Len(events) \in Nat
  BY SequenceIs DEF WatchKept, CallShaped
<1>2. Sequence(PathOrder) /\ DOMAIN PathOrder = 1 .. Len(PathOrder)
  BY OrderIsSequence, SequenceIs
<1>3. new \subseteq 1 .. Len(PathOrder)
  BY <1>2 DEF NewDifferences
<1>4. /\ Cardinality(new) \in Nat
      /\ \A k \in new : \E n \in 1 .. Cardinality(new) : paths[n] = PathOrder[k]
  <2>1. /\ Cardinality(new) \in Nat
        /\ \A k \in new : \E n \in 1 .. Cardinality(new) : Picked(PathOrder, new)[n] = PathOrder[k]
    <3>1. \A places : places \subseteq 1 .. Len(PathOrder) =>
            /\ Cardinality(places) \in Nat
            /\ \A k \in places : \E n \in 1 .. Cardinality(places) :
                 Picked(PathOrder, places)[n] = PathOrder[k]
      BY <1>2, PickedOnes
    <3>2. QED
      BY <1>3, <3>1
  <2>2. QED
    BY <2>1
<1>5. all = events \o more
  BY DEF WithDifferences
<1> HIDE DEF paths
<1>6. /\ Sequence(more) /\ Len(more) = Cardinality(new)
      /\ \A n \in 1 .. Cardinality(new) : more[n] = Difference(paths[n])
  <2>1. \A n \in 1 .. Cardinality(new) : more[n] \in {more[k] : k \in 1 .. Cardinality(new)}
    OBVIOUS
  <2>2. more \in Seq({more[k] : k \in 1 .. Cardinality(new)}) /\ Len(more) = Cardinality(new)
    BY <1>4, <2>1
  <2>3. Sequence(more)
    BY <2>2, AnySequence
  <2>4. QED
    BY <2>2, <2>3
<1> HIDE DEF more
<1>7. /\ Sequence(all) /\ Len(all) = Len(events) + Len(more)
      /\ \A i \in 1 .. Len(events) : all[i] = events[i]
      /\ \A i \in 1 .. Len(more) : all[Len(events) + i] = more[i]
  <2>1. /\ Sequence(events \o more) /\ Len(events \o more) = Len(events) + Len(more)
        /\ \A i \in 1 .. Len(events) : (events \o more)[i] = events[i]
        /\ \A i \in 1 .. Len(more) : (events \o more)[Len(events) + i] = more[i]
    BY <1>1, <1>6, Joined
  <2>2. QED
    BY <1>5, <2>1
<1>8. DOMAIN all = 1 .. Len(events) + Cardinality(new)
  BY <1>6, <1>7, SequenceIs
<1>9. ASSUME NEW p \in Covered(Current) \intersect Paths, tree[p].stamp # Current.snapshot[p]
      PROVE  \E i \in DOMAIN all : all[i] = Difference(p)
  <2>1. PICK k \in 1 .. Len(PathOrder) : PathOrder[k] = p
    BY <1>2 DEF Paths, ToSet
  <2>2. CASE k \in new
    <3>1. PICK n \in 1 .. Cardinality(new) : paths[n] = p
      BY <1>4, <2>1, <2>2
    <3>2. all[Len(events) + n] = Difference(p)
      BY <1>6, <1>7, <3>1
    <3>3. Len(events) + n \in DOMAIN all
      BY <1>1, <1>4, <1>8
    <3>4. QED
      BY <3>2, <3>3
  <2>3. CASE k \notin new
    <3>1. Contains(events, Difference(p))
      BY <1>2, <1>9, <2>1, <2>3 DEF NewDifferences
    <3>2. PICK i \in 1 .. Len(events) : events[i] = Difference(p)
      BY <3>1 DEF Contains
    <3>3. i \in DOMAIN all
      BY <1>1, <1>4, <1>8
    <3>4. QED
      BY <1>7, <3>2, <3>3
  <2>4. QED
    BY <2>2, <2>3
<1>10. \A p : Difference(p).path = p
  BY DEF Difference, Report
<1>11. \A p \in Paths : p # NoPath
  BY WatchAssumption
<1>12. \A p \in Covered(Current) \intersect Paths :
         tree[p].stamp # Current.snapshot[p] => p \in PathsIn(all)
  <2>1. SUFFICES ASSUME NEW p \in Covered(Current) \intersect Paths,
                        tree[p].stamp # Current.snapshot[p]
                 PROVE  p \in PathsIn(all)
    OBVIOUS
  <2>2. PICK i \in DOMAIN all : all[i] = Difference(p)
    BY <1>9, <2>1
  <2>3. p \in {all[i].path, all[i].old} /\ p # NoPath
    BY <1>10, <1>11, <2>2
  <2>4. p \in UNION {{all[k].path, all[k].old} : k \in DOMAIN all}
    BY <2>3
  <2>5. QED
    BY <2>3, <2>4 DEF PathsIn
<1>13. Len(events) <= Len(all)
  BY <1>1, <1>4, <1>6, <1>7
<1> QED
  BY <1>7, <1>12, <1>13

\* A snapshot is replaced only when all its differences were emitted.
LEMMA ComparedKeeps ==
  ASSUME WatchKept, NetChangesReported, SnapshotsCompared
  PROVE  WatchKept' /\ NetChangesReported'
<1>1. phase = "scan"
  BY DEF SnapshotsCompared
<1>2. PICK new, all, out :
        /\ new = NewDifferences /\ all = WithDifferences(new) /\ out = Emitted(all)
        /\ watches' = [watches EXCEPT ![at].snapshot = NewSnapshot(out.ok)]
        /\ \/ /\ out.ok /\ at < Len(watches)
              /\ at' = at + 1 /\ phase' = "read" /\ events' = out.events
              /\ UNCHANGED << batch, scratch, named >>
           \/ ~(out.ok /\ at < Len(watches)) /\ PollReturns(out.events)
        /\ UNCHANGED << fsInitialized, nNextWatchHandle, natives, seen, ahead >>
  BY DEF SnapshotsCompared
<1>3. at \in DOMAIN watches /\ Current = watches[at] /\ fsInitialized
  BY <1>1, CurrentIs DEF Current
<1>4. /\ Sequence(all) /\ Len(events) <= Len(all)
      /\ \A i \in 1 .. Len(events) : all[i] = events[i]
      /\ \A p \in Covered(Current) \intersect Paths :
           tree[p].stamp # Current.snapshot[p] => p \in PathsIn(all)
  BY <1>2, DifferencesEmitted
<1>5. Sequence(events) /\ Len(events) <= nMaxEvents
  BY DEF WatchKept, CallShaped
<1>6. /\ out.ok \in BOOLEAN /\ Sequence(out.events) /\ Len(out.events) <= nMaxEvents
      /\ PathsIn(events) \subseteq PathsIn(out.events)
      /\ out.ok => out.events = all
  BY <1>2, <1>4, <1>5, EmittedKeeps
<1>7. Sequence(watches) /\ Len(watches) \in Nat /\ DOMAIN watches = 1 .. Len(watches)
  BY SequenceIs DEF WatchKept, WatchesShaped
<1>8. /\ DOMAIN watches' = DOMAIN watches
      /\ \A i \in DOMAIN watches : i # at => watches'[i] = watches[i]
      /\ watches'[at] = [watches[at] EXCEPT !.snapshot = NewSnapshot(out.ok)]
  BY <1>2, <1>3
<1>9. IsWatch(watches[at], nNextWatchHandle)
  BY <1>3 DEF WatchKept, WatchesShaped
<1>10. /\ watches'[at].handle = watches[at].handle /\ watches'[at].native = watches[at].native
       /\ watches'[at].path = watches[at].path /\ watches'[at].kind = watches[at].kind
       /\ watches'[at].snapshot = NewSnapshot(out.ok) /\ DOMAIN watches'[at] = WatchFields
  BY <1>8, <1>9 DEF IsWatch, WatchFields
<1>11. Covered(watches'[at]) = Covered(watches[at]) /\ Covered(watches[at]) \subseteq Paths
  BY <1>9, <1>10, CoveredPaths DEF IsWatch
<1>12. DOMAIN NewSnapshot(out.ok) = Covered(watches[at])
  BY <1>3, <1>9 DEF NewSnapshot, SnapshotOf, IsWatch
<1>13. IsWatch(watches'[at], nNextWatchHandle)
  BY <1>9, <1>10, <1>11, <1>12 DEF IsWatch
<1>14. Sequence(watches') /\ Len(watches') = Len(watches)
  <2>1. \A i \in 1 .. Len(watches) : watches'[i] \in {watches'[k] : k \in 1 .. Len(watches)}
    OBVIOUS
  <2>2. watches' \in Seq({watches'[k] : k \in 1 .. Len(watches)}) /\ Len(watches') = Len(watches)
    <3>1. watches' = [i \in 1 .. Len(watches) |-> watches'[i]]
      BY <1>2, <1>7
    <3>2. QED
      BY <1>7, <2>1, <3>1
  <2>3. QED
    BY <2>2, AnySequence
<1>15. WatchesShaped'
  <2>1. \A i \in DOMAIN watches : IsWatch(watches'[i], nNextWatchHandle)
    BY <1>8, <1>13 DEF WatchKept, WatchesShaped
  <2>2. \A i \in DOMAIN watches : watches'[i].native = watches[i].native
                                  /\ watches'[i].handle = watches[i].handle
    BY <1>8, <1>10
  <2>3. nNextWatchHandle' = nNextWatchHandle
    BY <1>2
  <2>4. QED
    BY <1>8, <1>14, <2>1, <2>2, <2>3 DEF WatchKept, WatchesShaped, NativeSlots
<1>16. NativesShaped' /\ NativesUsed'
  <2>1. \A i \in DOMAIN watches : watches'[i].native = watches[i].native
    BY <1>8, <1>10
  <2>2. NativesShaped'
    BY <1>2 DEF WatchKept, NativesShaped, NativeSlots
  <2>3. NativesUsed'
    BY <1>2, <1>8, <2>1 DEF WatchKept, NativesUsed, NativeSlots
  <2>4. QED
    BY <2>2, <2>3
<1>17. CallShaped' /\ named \union PathsIn(out.events) \subseteq named' \union PathsIn(events')
  <2>1. CASE out.ok /\ at < Len(watches)
    <3>1. /\ at' = at + 1 /\ phase' = "read" /\ events' = out.events
          /\ UNCHANGED << scratch, named >>
      BY <1>2, <2>1
    <3>2. at' \in DOMAIN watches'
      BY <1>3, <1>7, <1>8, <2>1, <3>1
    <3>3. CallShaped'
      BY <1>2, <1>3, <1>6, <3>1, <3>2 DEF CallShaped
    <3>4. QED
      BY <3>1, <3>3
  <2>2. CASE ~(out.ok /\ at < Len(watches))
    <3>1. phase' = "idle" /\ events' = << >> /\ named' = named \union PathsIn(out.events)
      BY <1>2, <2>2 DEF PollReturns
    <3>2. Sequence(<< >>) /\ Len(<< >>) <= nMaxEvents
      BY WatchAssumption DEF Sequence
    <3>3. CallShaped'
      BY <1>2, <1>3, <3>1, <3>2 DEF CallShaped
    <3>4. QED
      BY <3>1, <3>3
  <2>3. QED
    BY <2>1, <2>2
<1>18. NetChangesReported'
  <2>1. SUFFICES ASSUME NEW i \in DOMAIN watches, NEW p \in Covered(watches'[i])
                 PROVE  \/ seen[p] = watches'[i].snapshot[p]
                        \/ p \in named \union PathsIn(out.events)
                        \/ << watches'[i].handle, p >> \in ahead
    BY <1>2, <1>8, <1>17 DEF NetChangesReported, ToSet
  <2>2. watches[i] \in ToSet(watches)
    BY DEF ToSet
  <2>3. CASE i # at
    <3>1. watches'[i] = watches[i]
      BY <1>8, <2>3
    <3>2. p \in Covered(watches[i])
      BY <3>1
    <3>3. \/ seen[p] = watches[i].snapshot[p]
          \/ p \in named \union PathsIn(events)
          \/ << watches[i].handle, p >> \in ahead
      BY <2>2, <3>2 DEF NetChangesReported
    <3>4. p \in PathsIn(events) => p \in PathsIn(out.events)
      BY <1>6
    <3>5. QED
      BY <3>1, <3>3, <3>4
  <2>4. CASE i = at
    <3>1. p \in Covered(watches[at]) /\ p \in Paths
      BY <1>11, <2>4
    <3>2. \/ seen[p] = watches[at].snapshot[p]
          \/ p \in named \union PathsIn(events)
          \/ << watches[at].handle, p >> \in ahead
      BY <2>2, <2>4, <3>1 DEF NetChangesReported
    <3>3. CASE ~out.ok \/ tree[p].stamp = watches[at].snapshot[p]
      <4>1. watches'[at].snapshot[p] = watches[at].snapshot[p]
        BY <1>3, <1>10, <3>1, <3>3 DEF NewSnapshot, SnapshotOf
      <4>2. p \in PathsIn(events) => p \in PathsIn(out.events)
        BY <1>6
      <4>3. watches'[i].snapshot[p] = watches[at].snapshot[p] /\ watches'[i].handle = watches[at].handle
        BY <1>10, <2>4, <4>1
      <4>4. QED
        BY <3>2, <4>2, <4>3
    <3>4. CASE out.ok /\ tree[p].stamp # watches[at].snapshot[p]
      <4>1. p \in PathsIn(all)
        BY <1>3, <1>4, <3>1, <3>4
      <4>2. out.events = all
        BY <1>6, <3>4
      <4>3. QED
        BY <4>1, <4>2
    <3>5. QED
      BY <1>6, <3>3, <3>4
  <2>5. QED
    BY <2>3, <2>4
<1> QED
  BY <1>15, <1>16, <1>17, <1>18 DEF WatchKept

\* What the client finds is the snapshot, or newer.
LEMMA LooksKeeps ==
  ASSUME WatchKept, NetChangesReported, ClientLooks
  PROVE  WatchKept' /\ NetChangesReported'
<1> DEFINE newer(w) == {w.handle} \X {p \in named \intersect Covered(w) : w.snapshot[p] # tree[p].stamp}
<1>1. /\ phase = "idle" /\ named' = {}
      /\ seen' = [p \in Paths |-> IF p \in named THEN tree[p].stamp ELSE seen[p]]
      /\ ahead' = {a \in ahead : a[2] \notin named} \union UNION {newer(w) : w \in ToSet(watches)}
      /\ UNCHANGED << fsInitialized, nNextWatchHandle, watches, natives, phase, at, scratch, events >>
  BY DEF ClientLooks, callvars
<1>2. NativesShaped' /\ NativesUsed'
  BY <1>1 DEF WatchKept, NativesShaped, NativesUsed, NativeSlots
<1>3. WatchesShaped' /\ CallShaped'
  BY <1>1, ShapesStay DEF WatchKept
<1>4. PathsIn(events) = {}
  <2>1. events = << >>
    BY <1>1 DEF WatchKept, CallShaped
  <2>2. QED
    BY <2>1 DEF PathsIn
<1>5. ASSUME NEW w \in ToSet(watches), NEW p \in Covered(w)
      PROVE  seen'[p] = w.snapshot[p] \/ << w.handle, p >> \in ahead'
  <2>1. p \in Paths
    <3>1. \A i \in DOMAIN watches : IsWatch(watches[i], nNextWatchHandle)
      BY DEF WatchKept, WatchesShaped
    <3>2. w.path \in Paths /\ w.kind \in Kinds
      BY <3>1 DEF ToSet, IsWatch
    <3>3. QED
      BY <3>2, CoveredPaths
  <2>2. CASE p \in named
    <3>1. seen'[p] = tree[p].stamp
      BY <1>1, <2>1, <2>2
    <3>2. CASE w.snapshot[p] # tree[p].stamp
      <4>1. << w.handle, p >> \in newer(w)
        BY <2>2, <3>2
      <4> HIDE DEF newer
      <4>2. QED
        BY <1>1, <4>1
    <3>3. QED
      BY <3>1, <3>2
  <2>3. CASE p \notin named
    <3>1. seen'[p] = seen[p]
      BY <1>1, <2>1, <2>3
    <3>2. seen[p] = w.snapshot[p] \/ << w.handle, p >> \in ahead
      BY <1>4, <2>3 DEF NetChangesReported
    <3> HIDE DEF newer
    <3>3. << w.handle, p >> \in ahead => << w.handle, p >> \in ahead'
      <4>1. << w.handle, p >>[2] = p
        OBVIOUS
      <4>2. QED
        BY <1>1, <2>3, <4>1
    <3>4. QED
      BY <3>1, <3>2, <3>3
  <2>4. QED
    BY <2>2, <2>3
<1>6. NetChangesReported'
  BY <1>1, <1>5 DEF NetChangesReported
<1> QED
  BY <1>2, <1>3, <1>6 DEF WatchKept
-----------------------------------------------------------------------------
\* At first there are no watches.
LEMMA WatchStarts == ASSUME WatchInit PROVE WatchKept /\ NetChangesReported
<1>1. /\ fsInitialized = FALSE /\ nNextWatchHandle = 1 /\ watches = << >>
      /\ natives = [s \in NativeSlots |-> Unused] /\ phase = "idle" /\ events = << >>
  BY DEF WatchInit
<1>2. NativesShaped /\ NativesUsed
  BY <1>1, UnusedIsNative DEF NativesShaped, NativesUsed
<1>3. Sequence(<< >>) /\ Len(<< >>) <= nMaxEvents
  BY WatchAssumption DEF Sequence
<1>4. WatchesShaped
  BY <1>1, <1>3 DEF WatchesShaped
<1>5. CallShaped
  BY <1>1, <1>3 DEF CallShaped
<1>6. NetChangesReported
  BY <1>1 DEF NetChangesReported, ToSet
<1> QED
  BY <1>2, <1>4, <1>5, <1>6 DEF WatchKept

\* The invariant is inductive, together with the property.
LEMMA WatchSteps ==
  ASSUME WatchKept, NetChangesReported, [WatchNext]_wvars
  PROVE  WatchKept' /\ NetChangesReported'
<1>1. CASE UNCHANGED wvars
  <2>1. /\ UNCHANGED << fsInitialized, nNextWatchHandle, watches, natives, phase, at, scratch, events,
                        named, seen, ahead >>
    BY <1>1 DEF wvars, callvars, clientvars
  <2>2. NativesShaped' /\ NativesUsed'
    BY <2>1 DEF WatchKept, NativesShaped, NativesUsed, NativeSlots
  <2>3. WatchesShaped' /\ CallShaped'
    BY <2>1, ShapesStay DEF WatchKept
  <2>4. NetChangesReported'
    BY <2>1, ToldStays
  <2>5. QED
    BY <2>2, <2>3, <2>4 DEF WatchKept
<1>2. CASE OthersChangeTheTree \/ WatchingBegins \/ WatchingEnds
  BY <1>2, OthersKeep, BeginsKeeps, EndsKeeps
<1>3. CASE \E t \in Targets : FS_WatchPath(t)
  BY <1>3, WatchPathKeeps
<1>4. CASE NativeWatchCreated \/ NativeWatchFails
  BY <1>4, CreatedKeeps, WatchFailsKeeps
<1>5. CASE \E i \in DOMAIN watches : FS_UnwatchPath(i)
  BY <1>5, UnwatchKeeps
<1>6. CASE FS_PollChanges \/ ClientLooks
  BY <1>6, PollBegins, LooksKeeps
<1>7. CASE PollStep
  BY <1>7, ReadKeeps, HandleKeeps, ComparedKeeps DEF PollStep
<1>8. CASE \E p \in Paths : ScanLosesFile(p)
  BY <1>8, ScanLosesKeeps
<1> QED
  BY <1>1, <1>2, <1>3, <1>4, <1>5, <1>6, <1>7, <1>8 DEF WatchNext

\* The type invariant is part of it.
LEMMA WatchKeptTyped == ASSUME WatchKept PROVE WatchTypeOK
<1>1. \A s \in NativeSlots : natives[s].used <=> \E i \in DOMAIN watches : watches[i].native = s
  BY DEF WatchKept, NativesUsed
<1>2. \A s \in NativeSlots : Len(natives[s].dirs) <= MaxDirs /\ Len(natives[s].queue) <= QueueMax
  BY DEF WatchKept, NativesShaped, IsNative
<1>3. \A i, j \in DOMAIN watches : i # j =>
        watches[i].handle # watches[j].handle /\ watches[i].native # watches[j].native
  BY DEF WatchKept, WatchesShaped
<1>4. \A i \in DOMAIN watches : watches[i].handle < nNextWatchHandle
                                /\ DOMAIN watches[i].snapshot = Covered(watches[i])
  BY DEF WatchKept, WatchesShaped, IsWatch
<1>5. Len(events) <= nMaxEvents
  BY DEF WatchKept, CallShaped
<1> QED
  BY <1>1, <1>2, <1>3, <1>4, <1>5 DEF WatchTypeOK

\* Whatever fails, whatever others do to the tree and in whatever order watches are taken
\* back: exactly the native watches of the watches that are left are in use, and no table,
\* queue or buffer grows beyond its limit.
THEOREM WatchesAlwaysTyped == WatchSpec => []WatchTypeOK
<1>1. WatchInit => WatchKept /\ NetChangesReported
  BY WatchStarts
<1>2. WatchKept /\ NetChangesReported /\ [WatchNext]_wvars => (WatchKept /\ NetChangesReported)'
  BY WatchSteps
<1>3. WatchKept => WatchTypeOK
  BY WatchKeptTyped
<1> QED
  BY <1>1, <1>2, <1>3, PTL DEF WatchSpec

\* For any tree, targets and limits, no difference between two snapshots is lost: a client
\* that looks at what it is told of has seen what the snapshots of its watches hold.
THEOREM ChangesAlwaysReported == WatchSpec => []NetChangesReported
<1>1. WatchInit => WatchKept /\ NetChangesReported
  BY WatchStarts
<1>2. WatchKept /\ NetChangesReported /\ [WatchNext]_wvars => (WatchKept /\ NetChangesReported)'
  BY WatchSteps
<1> QED
  BY <1>1, <1>2, PTL DEF WatchSpec
=============================================================================

--------------------------- MODULE FileSystemAsync ---------------------------
(***************************************************************************)
(* The asynchronous requests of the virtual filesystem                     *)
(* (src/CypherFileSystem): a fixed table of request slots, one worker      *)
(* thread per request, and polling, waiting, cancelling and shutting down  *)
(* by any number of threads under one recursive mutex.                     *)
(*                                                                         *)
(* An API call that does not block runs under the mutex and is one step,   *)
(* possible only while no worker is inside the filesystem.  FS_WaitAsync   *)
(* and FS_Shutdown release the mutex to block, so they take several steps. *)
(* A call that returns an error and changes nothing is no step.            *)
(*                                                                         *)
(* Requests are numbered in the order they are admitted; a request number  *)
(* also stands for its future.  Byte counts, error codes and the files     *)
(* themselves are left out: an outcome is COMPLETE or FAILED.              *)
(***************************************************************************)
EXTENDS Naturals, FiniteSets

CONSTANTS
  MaxRequests,   \* bound of the model: requests admitted in a behaviour
  SlotCount,     \* CYPHER_FILESYSTEM_MAX_ASYNC_REQUESTS
  HandleMax,     \* CY_U32_MAX, where the handle counter wraps to zero
  Threads,       \* application threads
  Coordinated,   \* every call returns before FS_Init starts a new lifetime
  Nobody, NoSlot

Requests == 1 .. MaxRequests
Slots == 0 .. SlotCount - 1
NoRequest == 0                     \* an invalid future
InvalidHandle == 0                 \* CYPHER_FILESYSTEM_INVALID_ASYNC_REQUEST

ASSUME AsyncAssumption ==
  /\ MaxRequests \in Nat /\ SlotCount \in Nat \ {0} /\ HandleMax \in Nat \ {0}
  /\ Nobody \notin Threads \union Requests /\ NoSlot \notin Slots
  /\ Threads \intersect Requests = {} /\ Coordinated \in BOOLEAN

VARIABLES
  initialized, shuttingDown,   \* runtime_state_t
  slots,                       \* pAsyncRequests
  nextAsyncRequest,
  mutex,                       \* who keeps FS_RuntimeMutex between two steps
  call,                        \* the blocking call each thread is in
  drain,                       \* the futures FS_ShutdownAsyncRequests copied
  worker,                      \* where the worker of each request is
  outcome,                     \* what the worker's promise holds
  nSubmitted,
  \* What clients know:
  issued,                      \* the handle they got for each request
  old,                         \* FS_Shutdown has returned since
  told,                        \* terminal results they were given
  cancelOk                     \* FS_CancelAsync answered OK

runtime == <<initialized, shuttingDown, nextAsyncRequest>>
clients == <<issued, old, told, cancelOk>>
workers == <<worker, outcome>>
vars == <<runtime, slots, mutex, call, drain, workers, nSubmitted, clients>>

-----------------------------------------------------------------------------
(* Slots and handles. *)

Terminal == {"COMPLETE", "CANCELLED", "FAILED"}

\* async_request_state_t; the cached result is the status.
Slot == [used : BOOLEAN, handle : 0 .. HandleMax,
         status : {"INVALID", "RUNNING"} \union Terminal,
         cancelled : BOOLEAN, bResultCached : BOOLEAN,
         future : Requests \union {NoRequest}]

EmptySlot == [used |-> FALSE, handle |-> InvalidHandle, status |-> "INVALID",
              cancelled |-> FALSE, bResultCached |-> FALSE,
              future |-> NoRequest]

Idle == [pc |-> "idle", request |-> NoRequest, future |-> NoRequest]
Call == [pc : {"idle", "waiting", "repoll", "snapshot", "draining", "clear",
               "finish"},
         request : Requests \union {NoRequest},
         future : Requests \union {NoRequest}]

Ready(future) == worker[future] = "ready"

First(S) == IF S = {} THEN NoSlot ELSE CHOOSE i \in S : \A j \in S : i <= j

\* The first slot that has the handle; a slot in use has a valid future.
FindAsyncRequest(h) == First({i \in Slots : slots[i].used /\ slots[i].handle = h})

\* Two slips: the slot of a running worker, the slot of an unread result.
ReclaimsRunning(slot) == slot.status \in Terminal \/ slot.cancelled
ReclaimsUnread(slot) == Ready(slot.future)

Reclaimable(slot) ==
  (slot.status \in Terminal \/ slot.cancelled) /\ Ready(slot.future)

AllocateAsyncRequest ==
  LET unused == {i \in Slots : ~slots[i].used}
  IN  First(IF unused # {} THEN unused
            ELSE {i \in Slots : Reclaimable(slots[i])})

Wrapped(h) == h % (HandleMax + 1)

ZeroIssued == nextAsyncRequest

\* Zero is skipped when the counter wraps.
AllocateAsyncHandle ==
  IF nextAsyncRequest = InvalidHandle THEN 1 ELSE nextAsyncRequest

\* A slip: the result is worked out again on every poll.
RecomputesResult(slot) ==
  [slot EXCEPT !.status = IF slot.cancelled THEN "CANCELLED"
                          ELSE outcome[slot.future],
               !.bResultCached = TRUE]

\* BuildCompletedAsyncResult: cancellation wins over what the worker did, and
\* a result once built is kept.
Completed(slot) ==
  IF slot.bResultCached THEN slot
  ELSE [slot EXCEPT !.status = IF slot.cancelled THEN "CANCELLED"
                               ELSE outcome[slot.future],
                    !.bResultCached = TRUE]

\* FS_PollAsync on the handle of request r.  A result that is not ready yet
\* changes nothing.  Clients drop their handles when FS_Shutdown returns.
Observe(r) ==
  LET i == FindAsyncRequest(issued[r])
  IN  IF /\ initialized /\ i # NoSlot
         /\ slots[i].bResultCached \/ Ready(slots[i].future)
      THEN /\ slots' = [slots EXCEPT ![i] = Completed(@)]
           /\ told' = IF old[r] THEN told
                      ELSE [told EXCEPT ![r] = @ \union {Completed(slots[i]).status}]
      ELSE UNCHANGED <<slots, told>>

Unlocked == mutex = Nobody

HeldWhileBlocked(t) == t

\* Blocking calls let go of the mutex first.
MutexWhileBlocked(t) == Nobody

CanLock(t) == mutex \in {Nobody, t}

\* Some thread is free to make a call that does not block.
SomeoneIdle == \E t \in Threads : call[t] = Idle
Holds(r) == issued[r] # InvalidHandle /\ ~old[r]

-----------------------------------------------------------------------------
(* Submission. *)

AdmissionOpen == initialized

\* Otherwise FS_ReadAsync and FS_WriteAsync answer ERR_NOT_INIT.
Admits == initialized /\ ~shuttingDown

CanSubmit ==
  /\ SomeoneIdle /\ Unlocked /\ Admits
  /\ nSubmitted < MaxRequests
  /\ AllocateAsyncRequest # NoSlot

\* FS_ReadAsync and FS_WriteAsync: the worker is launched, then published.
SubmitAsyncRequest ==
  LET r == nSubmitted + 1
  IN  /\ CanSubmit
      /\ slots' = [slots EXCEPT ![AllocateAsyncRequest] =
           [used |-> TRUE, handle |-> AllocateAsyncHandle, status |-> "RUNNING",
            cancelled |-> FALSE, bResultCached |-> FALSE, future |-> r]]
      /\ nextAsyncRequest' = Wrapped(AllocateAsyncHandle + 1)
      /\ issued' = [issued EXCEPT ![r] = AllocateAsyncHandle]
      /\ worker' = [worker EXCEPT ![r] = "launched"]
      /\ nSubmitted' = r
      /\ UNCHANGED <<initialized, shuttingDown, mutex, call, drain, outcome, old,
                     told, cancelOk>>

\* std::async throws: the slot, perhaps one that was reclaimed, is reset.
LaunchFails ==
  /\ CanSubmit
  /\ slots' = [slots EXCEPT ![AllocateAsyncRequest] = EmptySlot]
  /\ UNCHANGED <<runtime, mutex, call, drain, workers, nSubmitted, clients>>

-----------------------------------------------------------------------------
(* The worker: FS_ReadEntireFile and FS_WriteEntireFile hold the mutex. *)

WorkerEnter(r) ==
  /\ worker[r] = "launched" /\ Unlocked
  /\ worker' = [worker EXCEPT ![r] = "inside"]
  /\ mutex' = r
  /\ UNCHANGED <<runtime, slots, call, drain, outcome, nSubmitted, clients>>

WorkerLeave(r) ==
  /\ worker[r] = "inside"
  /\ worker' = [worker EXCEPT ![r] = "left"]
  /\ \E done \in {"COMPLETE", "FAILED"} :
       /\ done = "COMPLETE" => initialized
       /\ outcome' = [outcome EXCEPT ![r] = done]
  /\ mutex' = Nobody
  /\ UNCHANGED <<runtime, slots, call, drain, nSubmitted, clients>>

WorkerReady(r) ==
  /\ worker[r] = "left"
  /\ worker' = [worker EXCEPT ![r] = "ready"]
  /\ UNCHANGED <<runtime, slots, mutex, call, drain, outcome, nSubmitted, clients>>

-----------------------------------------------------------------------------
(* Polling, waiting and cancelling. *)

FS_PollAsync(r) ==
  /\ SomeoneIdle /\ Unlocked /\ Holds(r)
  /\ Observe(r)
  /\ UNCHANGED <<runtime, mutex, call, drain, workers, nSubmitted, issued, old,
                 cancelOk>>

\* FS_WaitAsync up to the blocking wait.  (A cached result is returned at once,
\* as FS_PollAsync does.)
WaitBegin(t, r) ==
  LET i == FindAsyncRequest(issued[r])
  IN  /\ call[t] = Idle /\ Unlocked /\ initialized /\ Holds(r)
      /\ i # NoSlot /\ ~slots[i].bResultCached
      /\ call' = [call EXCEPT ![t] =
           [pc |-> "waiting", request |-> r, future |-> slots[i].future]]
      /\ mutex' = MutexWhileBlocked(t)
      /\ UNCHANGED <<runtime, slots, drain, workers, nSubmitted, clients>>

\* future.wait() returns; the mutex is not held.
WaitWakes(t) ==
  /\ call[t].pc = "waiting" /\ Ready(call[t].future)
  /\ call' = [call EXCEPT ![t].pc = "repoll"]
  /\ UNCHANGED <<runtime, slots, mutex, drain, workers, nSubmitted, clients>>

\* The result is read by handle again, whatever happened meanwhile.
WaitPolls(t) ==
  /\ call[t].pc = "repoll" /\ CanLock(t)
  /\ Observe(call[t].request)
  /\ call' = [call EXCEPT ![t] = Idle]
  /\ mutex' = Nobody
  /\ UNCHANGED <<runtime, drain, workers, nSubmitted, issued, old, cancelOk>>

CancelsAnything(slot) == TRUE

\* Otherwise FS_CancelAsync answers ERR_CANCELLED.
Cancellable(slot) == ~slot.cancelled /\ slot.status \notin Terminal

FS_CancelAsync(r) ==
  LET i == FindAsyncRequest(issued[r])
  IN  /\ SomeoneIdle /\ Unlocked /\ initialized /\ Holds(r)
      /\ i # NoSlot /\ Cancellable(slots[i])
      /\ slots' = [slots EXCEPT ![i].cancelled = TRUE]
      /\ cancelOk' = [cancelOk EXCEPT ![r] = TRUE]
      /\ UNCHANGED <<runtime, mutex, call, drain, workers, nSubmitted, issued, old,
                     told>>

-----------------------------------------------------------------------------
(* Lifecycle. *)

\* The work log (docs/non_renderer_work_log.md:101) asks applications to finish
\* lifecycle coordination first; nothing in FS_Init looks for waiters.
FS_Init ==
  /\ SomeoneIdle /\ Unlocked /\ ~initialized
  /\ Coordinated => \A t \in Threads : call[t] = Idle
  /\ initialized' = TRUE
  /\ UNCHANGED <<shuttingDown, nextAsyncRequest, slots, mutex, call, drain,
                 workers, nSubmitted, clients>>

\* Admission is closed before the lock is let go.
ShutdownCloses(t) ==
  /\ call[t] = Idle /\ Unlocked /\ initialized /\ ~shuttingDown
  /\ shuttingDown' = TRUE
  /\ call' = [call EXCEPT ![t].pc = "snapshot"]
  /\ UNCHANGED <<initialized, nextAsyncRequest, slots, mutex, drain, workers,
                 nSubmitted, clients>>

ShutdownSnapshot(t) ==
  /\ call[t].pc = "snapshot" /\ Unlocked
  /\ slots' = [i \in Slots |->
       IF slots[i].used THEN [slots[i] EXCEPT !.cancelled = TRUE] ELSE slots[i]]
  /\ drain' = {slots[i].future : i \in {j \in Slots : slots[j].used}}
  /\ call' = [call EXCEPT ![t].pc = "draining"]
  /\ mutex' = MutexWhileBlocked(t)
  /\ UNCHANGED <<runtime, workers, nSubmitted, clients>>

\* The futures are waited for one after the other.
ShutdownDrains(t) ==
  /\ call[t].pc = "draining" /\ \A future \in drain : Ready(future)
  /\ drain' = {}
  /\ call' = [call EXCEPT ![t].pc = "clear"]
  /\ UNCHANGED <<runtime, slots, mutex, workers, nSubmitted, clients>>

ShutdownClears(t) ==
  /\ call[t].pc = "clear" /\ CanLock(t)
  /\ slots' = [i \in Slots |-> EmptySlot]
  /\ call' = [call EXCEPT ![t].pc = "finish"]
  /\ mutex' = Nobody
  /\ UNCHANGED <<runtime, drain, workers, nSubmitted, clients>>

\* ClearRuntimeState; request handles start from one again.
ShutdownFinishes(t) ==
  /\ call[t].pc = "finish" /\ Unlocked
  /\ initialized' = FALSE /\ shuttingDown' = FALSE
  /\ nextAsyncRequest' = 1
  /\ slots' = [i \in Slots |-> EmptySlot]
  /\ old' = [r \in Requests |-> r <= nSubmitted]
  /\ call' = [call EXCEPT ![t] = Idle]
  /\ UNCHANGED <<mutex, drain, workers, nSubmitted, issued, told, cancelOk>>

Init ==
  /\ initialized = FALSE /\ shuttingDown = FALSE
  /\ slots = [i \in Slots |-> EmptySlot]
  /\ nextAsyncRequest = 1
  /\ mutex = Nobody
  /\ call = [t \in Threads |-> Idle]
  /\ drain = {}
  /\ worker = [r \in Requests |-> "none"]
  /\ outcome = [r \in Requests |-> "FAILED"]
  /\ nSubmitted = 0
  /\ issued = [r \in Requests |-> InvalidHandle]
  /\ old = [r \in Requests |-> FALSE]
  /\ told = [r \in Requests |-> {}]
  /\ cancelOk = [r \in Requests |-> FALSE]

WorkerStep(r) == WorkerEnter(r) \/ WorkerLeave(r) \/ WorkerReady(r)

\* The rest of a blocking call, once begun.
BlockedStep(t) ==
  \/ WaitWakes(t) \/ WaitPolls(t)
  \/ ShutdownSnapshot(t) \/ ShutdownDrains(t) \/ ShutdownClears(t)
  \/ ShutdownFinishes(t)

Next ==
  \/ FS_Init \/ SubmitAsyncRequest \/ LaunchFails
  \/ \E r \in Requests : WorkerStep(r) \/ FS_PollAsync(r) \/ FS_CancelAsync(r)
  \/ \E t \in Threads, r \in Requests : WaitBegin(t, r)
  \/ \E t \in Threads : ShutdownCloses(t) \/ BlockedStep(t)

Spec == Init /\ [][Next]_vars

\* Worker threads and threads inside a call are scheduled.  Nothing is assumed
\* of what the application calls, nor of the order in which the mutex is given.
AsyncFairness ==
  /\ \A r \in Requests : WF_vars(WorkerStep(r))
  /\ \A t \in Threads : WF_vars(BlockedStep(t))

-----------------------------------------------------------------------------
(* Properties. *)

\* Types, and the shape of a slot in use: a valid handle and a valid future,
\* which Poll, Wait and Cancel test for.
TypeOK ==
  /\ initialized \in BOOLEAN /\ shuttingDown \in BOOLEAN
  /\ slots \in [Slots -> Slot]
  /\ \A i \in Slots : slots[i].used =>
       slots[i].handle # InvalidHandle /\ slots[i].future # NoRequest
  /\ nextAsyncRequest \in 0 .. HandleMax
  /\ mutex \in {Nobody} \union Requests \union Threads
  /\ call \in [Threads -> Call]
  /\ drain \subseteq Requests
  /\ worker \in [Requests -> {"none", "launched", "inside", "left", "ready"}]
  /\ outcome \in [Requests -> {"COMPLETE", "FAILED"}]
  /\ nSubmitted \in 0 .. MaxRequests
  /\ issued \in [Requests -> 0 .. HandleMax]
  /\ old \in [Requests -> BOOLEAN] /\ cancelOk \in [Requests -> BOOLEAN]
  /\ told \in [Requests -> SUBSET Terminal]

\* Every worker that has not finished is still in a slot of an initialized
\* filesystem, under the handle its client got: no slot is reclaimed under a
\* worker, shutdown leaves none behind, and no more workers run than there are
\* slots.
RunningWorkersTracked ==
  \A r \in Requests : worker[r] \in {"launched", "inside", "left"} =>
    initialized /\ \E i \in Slots : slots[i].used /\ slots[i].future = r
                                    /\ slots[i].handle = issued[r]

\* CypherFileSystem.h:298: a read buffer may be reused once a terminal status
\* was reported or FS_Shutdown returned; the worker is then done with it.
BorrowedBuffersSafe ==
  \A r \in Requests : told[r] # {} \/ old[r] => worker[r] = "ready"

\* All terminal answers for a request are the same, whoever asks and however
\* often, also while a shutdown marks every slot as cancelled; success is
\* reported only for I/O that succeeded.
ResultsAgree ==
  \A r \in Requests :
    /\ Cardinality(told[r]) <= 1
    /\ "COMPLETE" \in told[r] => outcome[r] = "COMPLETE"

\* An accepted cancellation is what is reported, even when the I/O was done.
AcceptedCancelWins ==
  \A r \in Requests : cancelOk[r] => told[r] \subseteq {"CANCELLED"}

\* A thread that blocked in FS_WaitAsync looks its handle up again when it
\* wakes: the slot is still its own unless the request was cancelled, somebody
\* already has the result, or the filesystem is going down.  (Of coordinated
\* lifetimes: a waiter left over from the one before would take the result of a
\* new request that was given the same handle.)
WaiterFindsResult ==
  \A t \in Threads :
    LET r == call[t].request
    IN  call[t].pc = "repoll" =>
          \/ old[r] \/ shuttingDown \/ cancelOk[r] \/ told[r] # {}
          \/ \E i \in Slots : slots[i].used /\ slots[i].future = r

\* Waits return: the worker gets the mutex while its waiters block.
WaitsReturn == \A t \in Threads : call[t].pc = "waiting" ~> call[t] = Idle

\* FS_Shutdown returns whatever is in flight when it is called.
ShutdownReturns == shuttingDown ~> ~shuttingDown

\* Nobody in a blocking call is left behind.
CallsReturn == WaitsReturn /\ ShutdownReturns
=============================================================================

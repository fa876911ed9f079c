# Models and proofs for CypherEngine

TLA+ modules for the parts of CypherEngine whose behaviour depends on the order
of calls, callbacks, threads, failures and crashes; TLC configurations that check
them on small instances; and TLAPS proofs that hold for every value of the constants.

Paths below are relative to the repository root as it is laid out here
(`src/src/CypherResource/...`, `src/tests/...`). `PROJECT.json` maps every
definition to the lines it models, and lists every component with its sources and
every hazard at the line where it would bite.

## 1. The system

CypherEngine is a C++ game engine with its editor (Mason) and tools. Most of it
is sequential: containers, parsers, geometry, encodings, widgets, a renderer over
a graphics driver. The state machines, where the order of events matters, are few:

| Component | State it keeps | Operations | What makes it hard | What makes it correct | Module |
|---|---|---|---|---|---|
| Resource manager (`CypherResource`) | record table, identity lookup, free list, live list, loader registry, callback depth | register, unregister, acquire, retain, release, shutdown | owner-thread only, but load and unload callbacks call back into it at every depth | references counted; stale handles rejected; a callback's record and loader stay put; dependencies outlive users | `CypherResource`, `ResourceTables` |
| Asynchronous file requests (`CypherFileSystem_Async`) | slot table, handle counter, admission flag, one recursive mutex, one worker thread per request | read, write, poll, wait, cancel, init, shutdown | threads; the mutex is given up to wait; slots are reclaimed; shutdown drains | buffers are not reported free while a worker uses them; one answer per request; waits return | `FileSystemAsync` |
| Filesystem watcher (`CypherFileSystem_Watch`) | watches with snapshots, native watches with tables of directories and kernel queues | watch, unwatch, poll | other programs change the tree during a call; queues, tables and buffers overflow; a poll fails half way | nothing that changed is lost; nobody stays behind | `FileSystemWatch` |
| Undo journal (`Tier1/UndoRedo`) | operations, cursor, open transaction, budgets | push, undo, redo, transactions, discard, clear | budgets evict from the front while groups grow at the end; callbacks and allocation fail part of the way | the journal is a path of documents with the live one at the cursor | `UndoRedo` |
| Editor history (`CypherEditor_History`) | the token of the saved state, listeners | wraps the journal, mark clean, is clean, step to | the token is compared after merges, evictions, cancellations | clean means equal to the file | `EditorHistory` |
| Editor settings file | the file, its backup, a damaged text set aside, the block on saving | load, save, accept overwrite | writes fail, crashes come between two file operations, the user edits by hand | nothing the user wrote is lost | `SettingsFile` |
| Map files and autosave | the document, its history and clean mark, numbered copies | new, open, save, edit, autosave | saves and copies fail; documents are told apart by their address | what is reported saved is on disk | `MapWorkspace` |
| Event bus (`Tier1/Event`) | table of subscriptions, their order, a dispatch snapshot | subscribe, unsubscribe, clear, emit | callbacks change what is being walked | each subscriber called once, in order | `EventBus` |
| Call queue (`Tier1/CallQueue`) | a ring of calls | push, cancel, clear, drain | callbacks push into the ring that is being read; it wraps and moves | calls run once, in order | `CallQueue` |
| Generation pools, handle tables (`Tier1`) | slots with generations, a threaded free list | reserve, emplace, remove, clear | generations end (pool) or come round (table) | no stale handle resolves | `GenerationPool`, `HandleTable` |
| Tier 0 synchronisation | native mutex and atomic mirrors; counts, waiters; nodes and their owner | lock, unlock, wait, post, signal, push, pop, init, shutdown | every access of a thread may fall between two of another | exclusion; permits, wake-ups and nodes are not lost | `Mutex`, `WaitObject`, `TsList` |
| World and submissions | object table, serials, one submission | add, update, remove, build, end | ids and tokens outlive what they named | an id names its object or nothing | `World` |
| Renderer front end | seven resource systems, records, references, the open frame and pass | init, shutdown, create, destroy, map, draw | creations and initialisation fail half way | no record goes before its user; what failed leaves nothing behind | `Renderer` |
| Host | stages, services, the frame loop | init, frame, shutdown | any start fails; a shutdown is requested anywhere | unwound in reverse, altogether | `Host` |
| Filesystem mounts, paths, packages, Pak | mount table | mount, unmount, resolve | priority and overlay | the right file is found | - |
| Memory system | arenas, pools, buckets, scratch scopes | allocate, free, reset | lifetimes of scopes | no overlap | - |
| Log, console, schemas, formats, security wrappers, math, images, editor geometry and user interface, tools and compilers | - | - | mostly functions of their input | left to unit tests | - |

How they interact: loaders (the render asset loaders, in this tree) are called
by the resource manager and acquire their dependencies from it. File requests
run the synchronous filesystem on worker threads, under the mutex that the
mount and watch calls take too. The editor history owns an undo journal; editor
operations push into it and its callbacks edit the document. The map workspace
asks the history whether there is work to save. The event bus and the world are
built over handle tables. The host brings the services up and down and drives
the renderer's frames.

## 2. The modules

Some definitions come with a variant named for a slip ("A slip: ..."). The
variants are not used by any specification; substituting one for the definition
after it makes the property named in `PROJECT.json` fail, which shows that the
property depends on that code.

### Resource manager

* `CypherResource.tla` models the manager. The manager belongs to one thread
  (`CypherResource.h`), so interleaving means reentrancy: `callStack` holds the
  loader callbacks in progress, and between two steps the innermost one, or the
  application when there is none, makes any call. A call that does not run a
  callback is one step. `Res_Acquire` of a new key is `AcquireMiss` (up to the
  load callback), then `LoadSucceeds`, `LoadFails` or `LoadFailsWithPayload`
  followed by `FailedUnloadReturns`; the last `Res_Release` is `ReleaseLast`, then
  `UnloadReturns`; `Res_Shutdown` is `Shutdown`, one `ShutdownUnload` per
  published record, `ShutdownEnd`. Calls that only return an error change
  nothing and are no steps, except that `AcquireOutcome` computes the answer of
  every acquisition, because a property is about it. The clients' references
  (`Refs`) are part of the model: clients release only references they own, as the
  header requires.
* `ResourcePromise.tla` is what the manager promises, per key and without slots
  or generations: absent, loading, ready, unloading; shared by references.
* `ResourceIndex.tla` is what the manager needs of its tables. `CypherResource`
  uses the tables that way (`UsesIndex`), and `ResourceTables.tla`, the
  open-addressed lookup and the two intrusive lists as the code has them,
  implements it (`ImplementsIndex`). Together: the map and sequences of
  `CypherResource` may be read as those tables.

### Filesystem runtime

* `FileSystemAsync.tla`: a call that does not block is one step under the mutex.
  `FS_WaitAsync` is three steps (`WaitBegin`, `WaitWakes`, `WaitPolls`) because
  the code copies the future, drops the mutex, blocks, and looks the request up
  by handle again. `FS_Shutdown` is five (`ShutdownCloses`, `ShutdownSnapshot`,
  `ShutdownDrains`, `ShutdownClears`, `ShutdownFinishes`). A worker enters the
  filesystem when it gets the mutex, leaves, and then its future becomes ready.
  The filesystem can be initialised again. `old`, `told`, `cancelOk` and
  `issued` record what clients know.
* `FileSystemWatch.tla`: the watcher in its Linux build. The runtime mutex keeps
  its calls apart, but other programs change the tree (`OthersChangeTheTree`)
  between any two accesses of a call. `FS_WatchPath` is two steps (snapshot, then
  the native watch, which may fail), `FS_PollChanges` is, for each watch, a
  read of the kernel's queue, one step per native event (`NativeEventHandled`,
  which may add directories to the watch and fail), and the scan with the
  comparison (`SnapshotsCompared`). The kernel's side is inferred from how the code uses
  inotify: an event for each watched inode, rename pairs with a cookie, a queue that
  overflows. Inodes are numbers, so that a
  directory that was moved keeps its watch and is found under its first name, as
  `LinuxFindWatchDir` finds it. A client is modelled that looks again at every
  path an event names.

### The editor's work

* `UndoRedo.tla`: the journal and the document its callbacks edit. A document is
  the sequence of edits it holds, and an operation remembers the document it was
  recorded in, so that "the callback finds the document it left" can be said.
  A call is one step, since callbacks cannot reenter (`bApplying`). A callback
  may fail at any operation of a group, `ReserveOperations` whenever it grows
  the table (after the journal was already cut). `callbackFailed` records that
  an undo or redo was stopped.
* `EditorHistory.tla` adds the clean token.
* `SettingsFile.tla`: every operation on a file is a step, may fail, and may be
  the last one before the editor is killed. A write that is cut off leaves the
  beginning of a text (`Partial`), which no load accepts. `Publish` is a rename and
  so all or nothing.
* `MapWorkspace.tla`: documents with the addresses they are allocated at, their
  history as `EditorHistory` shows it when no callback fails, files and numbered
  copies. Autosave is split where the process may end: listing the copies, writing,
  pruning.

### Containers and services

* `HandleTable.tla` (operators over a table) is under `EventBus.tla` and `World.tla`;
  `Listing.tla` (the numbers of a set, lowest first) stands for the loops over
  slots and sorted file names in `World.tla` and `MapWorkspace.tla`. Generations wrap at the limit the code has. `GenerationPool.tla` threads its
  free list through the slots as the code does and retires a slot after its last
  generation.
* `EventBus.tla`: a callback is a step between `Dispatch` and `CallbackReturns` in which
  the bus can be called. `CallQueue.tla`: the same for calls that are drained, over
  the ring of `Queue.inl`, whose growth and wrap are modelled.
* `Mutex.tla`: one step per access to an atomic or to the native mutex; what a
  thread does next is in `pc`. `WaitObject.tla`: a critical section of the object's
  mutex is one step, the notifications after it are steps of their own, and
  sleepers may wake unasked or time out. `TsList.tla`: a step is what another list,
  which has a mutex of its own, can see. `stack` is a history variable: what was pushed
  on each list and not popped, against which the pointers are judged; no step reads it.
* `World.tla`: objects, submissions and the ids and tokens that clients keep.
* `Renderer.tla`: `R_Init` starts one system per step, any of which fails; creations
  take references on their inputs one after the other and may be refused half way.
* `Host.tla`: one step per service started or stopped, and one per stage of a frame.

`MCCypherResource`, `MCResourceRegistry`, `MCFileSystemAsync`, `MCFileSystem`,
`MCEditorHistory`, `MCEditor` and `MCEngine` instantiate these for TLC.

## 3. The runs

Three of the runs check components side by side: the variable `part` is chosen at
the start, and a behaviour runs that part alone while the others stay as they
began. Nothing is composed that way that is not composed in the code; it puts
components that share no state under one run. What a property of one part says is
true of the other parts at their start, so its truth is decided by its own part.

| Run | Question | Bounds, and why they are enough |
|---|---|---|
| `ResourceRegistry` | Do the registry and the tables stay consistent under reentrancy, and are the answers of `Res_Acquire` right? (61,560 states) | Two types, three keys of which two collide, two slots, three type slots, generations that wrap at once: every answer occurs, a type is registered again after compaction, a slot is reused by another key. Beside it, three identities in a table of eight buckets, hashed to the last two and the first: clusters form and wrap around the end. |
| `ResourceReferences` | Are references counted, do held handles resolve, do dependencies outlive users? (119,745) | Three keys in three slots and four references with a count limit of three: a chain of three loads nested in each other, a shared dependency, and the refused fourth reference. |
| `ResourceRefinement` | Does the manager keep its promise, use its tables as built, reject stale handles and end a shutdown? | Three keys over two slots and two generations: a full table, reuse by another key, the wrap of the generation, nesting. Temporal, so without symmetry. |
| `AsyncResults` | Are the buffers safe, the answers consistent, the running workers known? | Two slots, three requests (one reclaims), two threads, shutdown and a second lifetime. |
| `AsyncWaiters` | Does a blocked wait find its own result? | One slot, three requests: the slot is reclaimed as often as possible. `Coordinated`, see below. |
| `FileSystemProgress` | Do waits and shutdowns return, with a counter that wraps; and is no change of a watched tree lost, and no watch behind for ever? (207,931) | Asynchronous part: two slots whose handles are both 1 (`HandleMax = 1`), so that the wrap through zero happens at once. Watch part: two watches over the same paths (the tree, a directory, a file), two changes, a queue of three events, three directories, a buffer of four: the queue overflows, the table of directories fills, a directory is renamed, buffers fill in the first and in the second watch. Three changes were checked once with the two outer watches (1.26 million states). |
| `Editor` | Is the work of the user safe: history, settings file, maps? (967,391) | Four pushes of one or two bytes into a journal of three operations and four bytes, with one merge key: evictions by count and by size, growth that may fail, transactions that evict. Two accepted and two damaged texts. Three states in a history, six addresses, one copy kept of at most two numbers: every copy but the newest is pruned. |
| `Engine` | Do the nine parts around the resource manager keep what they promise? (169,980) | Last generation 3 over four slots (retired slots, growth twice); three subscriptions of two events and two priorities with a sequence that is rebased at 2; one object slot in the world (`World` alone was also checked with two: 733,620 states); four pushes into rings of at most three; three threads and three nested locks; two permits and three posts; three nodes and two lists; two buffers, two vertex inputs, a count limit of two; nine services. |
| `HistoryFailedUndo`, `HistoryCancel`, `SettingsBackup`, `AutosaveReuse` | Four statements of the repository that the code does not keep; section 6. | As `Editor`. |

`MaxRequests`, `MaxPushes`, `MaxGroups`, `MaxSubscriptions`, `MaxEmissions`,
`PushesMax`, `PostsMax`, `MaxDepth`, `BuildMax`, `MaxAddresses`, `MaxStates`,
`MaxCopies`, `MaxChanges` and `MaxHandles` bound what a behaviour does and exist
only for TLC. `GenerationMax`, `LastGeneration`, `HandleMax`, `ReferenceMax`, `TypeSlotMax`,
`SequenceMax`, `CapacityMax`, `MaxWatches`, `MaxDirs` and the like are limits of the
code, made small. `QueueMax` is one of the kernel.

Deadlock is checked in every run; the models never stop.

Several properties are conjunctions of named parts, so that a component has one
answer to one question; the parts have comments of their own:

| Property | Parts |
|---|---|
| `ReferencesCounted` | the counts, and that every handle a client holds resolves to its key |
| `FreeListTrusted` (pool) | `MutationsTrusted`, `AuditPasses` |
| `EmissionsKeepTheirWord` (bus) | `EmissionCallsSubscribers`, `PriorityThenArrival`, `OnceIsOnce` |
| `NamesStayTrue` (world) | `IdsNameTheirObject`, `TokensReadTheirBuild` |
| `HoldersKeepTheLock` (mutex) | `HolderHasNative`, `HeldMeansOpen` |
| `RendererSound` | `UsesCounted`, `InputsOutliveUsers`, `OpenPassHasTarget`, `CleanWhenDown` |
| `HostUnwinds` | `ServicesNest`, `NothingLeftUp`, `RequestsEndTheLoop` |
| `SettingsTextKept` | `RejectedTextKept`, `CompletedSaveSurvives`, `OverwrittenTextKept` |
| `ReportsAreTrue` (maps) | `WorkIsOnDisk`, `CleanMeansOnDisk` |
| `CallsReturn` (async) | `WaitsReturn`, `ShutdownReturns` |
| `JournalSound` | `JournalIsAPath`, `TransactionIsSuffix`, `GroupsStayWhole` |
| `CleanTellsSaved` | `CleanMeansSaved`, `SavedStateRecognised` |
| `EngineTypeOK`, `EditorTypeOK` | the type invariants of the parts |

### Contracts assumed

* Clients release only references they hold (`CypherResource`).
* Clients roll back an edit that could not be recorded, and restore the document
  when they cancel a transaction (the header of the journal asks for both).
* `Coordinated`, of `FileSystemAsync`: no call is in progress when `FS_Init` starts a
  new lifetime (`src/docs/non_renderer_work_log.md:101`). Only `AsyncWaiters` assumes
  it; without it a wait left over from the earlier lifetime takes the result of a
  new request that was given the same handle, since handles start from one again.
* `Coordinated`, of `Mutex`: `Init` is kept apart from the other calls, because it
  opens the gate before it stores the mirrors. Every mutex of the engine is
  initialised before it is shared. `Shutdown` may come at any time.
* A semaphore or event is initialised again only after its `Shutdown` came back.
* The client's submit ends every pass that it begins (`SubmitClosesPass`, `Host`).
* In `Editor` the allocator hands out no address twice (`AllocatorReuses = FALSE`);
  `AutosaveReuse` is what happens when it does. Edits of the settings file by hand
  come between the operations of the editor, and in `SettingsBackup` only while it is down.
* The client of the watcher takes events as hints, also those of a poll that
  failed, and its buffer holds what one watch can have to report at once. Both
  matter: with a smaller buffer the poll fails at the same watch for ever.

### Fairness

* `CypherResource!FairSpec`: the loop of `Res_Shutdown` goes on, and unload
  callbacks return: they are ordinary functions that free storage. Nothing is
  assumed of load callbacks or of clients, nor of what an unload callback calls
  before it returns.
* `AsyncFairness`: weak fairness of each worker thread and of each
  thread inside a blocking call. The operating system schedules threads. It is not
  assumed that a thread asking for the mutex gets it before others, and
  applications need never call anything.
* `WatchFairness`: weak fairness of the steps of a call, which the calling thread
  runs to its end, and strong fairness of `FS_PollChanges`: a program that watches
  polls in its frame loop, whatever else it does between two polls. Nothing is assumed of
  other programs; `PollsCatchUp` speaks of behaviours in which they stop (here,
  after `MaxChanges`).

## 4. Only model-checked

* Liveness (`ShutdownCompletes`, `CallsReturn`, `PollsCatchUp`): the prover
  does not reason about fairness and `ENABLED`.

Everything else that the passing runs check is also a theorem for all values of the constants,
in places under the further assumptions that the tables of section 5 give.

## 5. Proved

### Asynchronous file requests

The first part of `FileSystemProofs.tla`, for any number of slots, threads, requests and
handles, from `AsyncAssumption` of `FileSystemAsync`:

| Theorem | States | Further assumption |
|---|---|---|
| `TypeCorrect` | `Spec => []TypeOK` | |
| `NoWorkerLost` | `Spec => []RunningWorkersTracked` | |
| `BuffersSafe` | `Spec => []BorrowedBuffersSafe` | handles do not come round |
| `AnswersAgree` | `Spec => []ResultsAgree` | handles do not come round |
| `CancellationWins` | `Spec => []AcceptedCancelWins` | handles do not come round |
| `WaitersFindResults` | `Spec => []WaiterFindsResult` | the same, and `Coordinated` |

"Handles do not come round" is `HandleMax >= MaxRequests`: the program makes fewer
than 2^32 requests. The code does not look for a handle that is still in use.

None of the properties is inductive. The argument has three layers:

1. `Tracking`: what is known without looking at handles. A worker that runs is in
   a used slot; a used slot belongs to a request that was submitted and whose
   worker runs or is done, no two slots to the same one; a shutdown in each of
   its phases has closed admission, and what it waits for covers every
   worker still running; a thread that waits asks about a request it was issued.
2. `Answering`: with distinct handles, looking a request up by its handle finds
   the slot of that request or none. So what a caller is told comes from that
   slot, is what the slot has cached, and a slot caches one answer, which an
   accepted cancellation fixes.
3. `Waiting`: with coordinated lifetimes, every request of this lifetime that is
   no longer in a slot was answered or cancelled, or the filesystem is going
   down; so a waiter that wakes up finds its slot unless one of these happened.

Each layer has a lemma per action that can disturb it; `TrackingInvariant` and
`AnsweringInvariant` are the intermediate theorems.

### Filesystem watcher

The second part of `FileSystemProofs.tla`, for any tree of paths, any number of watches and any
limits of the queues, tables and buffers; from `WatchAssumption`.

| Theorem | States |
|---|---|
| `WatchesAlwaysTyped` | `WatchSpec => []WatchTypeOK` |
| `ChangesAlwaysReported` | `WatchSpec => []NetChangesReported` |

`NetChangesReported` relates the snapshot of a watch to what a client knows from the events it
was handed, so what happens inside a poll decides. The invariant, `WatchKept`, adds the shape of the
tables (`NativesShaped`, `WatchesShaped`) and which watches the call in progress works on (`CallShaped`,
`NativesUsed`). What a poll has emitted is then always a prefix of what it
hands over, also when it fails half way (`EmittedKeeps`), and a snapshot is replaced
only after all its differences to the new one were emitted (`DifferencesEmitted`). The queues
of the kernel need no invariant: an event lost there delays a report until the next
scan and no longer, which is the liveness property `PollsCatchUp`.

### Resource manager

`CypherResourceProofs.tla`, for any number of records, types, keys and references,
any hash and any bounds, from `ConstantAssumption` of `CypherResource`:

| Theorem | States |
|---|---|
| `ManagerTypeCorrect` | `Spec => []TypeOK` |
| `CallbacksMatched` | `Spec => []CallbacksOwnTheirRecord` |
| `LoadersStay` | `Spec => []LoaderEntriesStable` |
| `TablesStayExact` | `Spec => []TablesAgree` |

`TypeOK` is not inductive. The depth may only be counted down because it is the
length of the call stack; the record taken from the free list must be `EMPTY`;
the identity that `RemoveLookup` clears must be that of the record; and
compacting the loader entries is harmless because no callback is in progress and
no record in use has the type. The inductive invariant, `Managing`, conjoins
`TypeOK`, `CallbacksOwnTheirRecord` and `LoaderEntriesStable` with `ListsExact`
(each list names exactly the records in its state, once) and `IdentitiesExact`.
Lemmas say what `Append`, `Tail`, `RemoveAt` and concatenation do to such a list,
what starting a callback (`CallbackStarts`), returning from one
(`CallbackReturns`) and recycling its record (`RecordRecycled`) do to the tables; every
action then has a lemma of its own.

In the rest of the module, on top of `Managing`:

| Theorem | States |
|---|---|
| `CountsAreExact` | `Spec => []ReferencesCounted` |
| `UsersGoFirst` | `Spec => []DependenciesOutliveUsers` |
| `StaleHandlesStayStale` | `Spec => []StaleHandlesRejected` |
| `AnswersAreTrue` | `Spec => []AcquireAnswersTrue` |
| `TablesUsedAsProvided` | `Spec => UsesIndex` |
| `PromiseKept` | `Spec => ImplementsPromise` |

The inductive invariant over references, `Holding`, has four parts. `Granting`: each
load in progress has a free reference of its own to be granted, on behalf of the
application or of a load below it, and none is in progress during a shutdown.
`Counting`: the count of a published record is the number of its holders.
`Resolving`: held handles resolve, until a shutdown. `Depending`: what a payload
holds is published, and stands before it in the live list; since new records go to the end and
the shutdown unloads from there, a dependency is never unloaded first. `Ageing` is
the invariant of stale handles: how far the generation of a slot has moved since the
handle was made. The answers follow from `Managing` alone, and
`TablesUsedAsProvided` is the step simulation of `ResourceIndex`.

`PromiseKept` is a step simulation too. An action changes the
record of one slot, and by `Managing` one key is seen through that slot, so that the
step is a step of the promise for one key and the others look the same; `Holding`
says that a new payload has only the holder that asked for it, and that the count is one
exactly when the last sharer leaves.

`TableProofs.tla`, for any number of records, any set of identities and any hash of them,
from `TableAssumption` of `ResourceTables`:

| Theorem | States |
|---|---|
| `TablesProvideIndex` | `TSpec => ImplementsIndex` |
| `BothRun` | `RegistrySpec => Spec /\ TSpec`, so the run of both has all of this |

With `TablesUsedAsProvided` this closes the chain: the manager uses an index, and the
block implements one. The invariant, `Tabled`, says three things. `Exact`: each record in
use has one entry, ids differ, and probing for an entry passes no empty bucket before it
(`~Missing`). `FreeSound` and `LiveSound`: some list without repetitions has exactly the
links of the records, backward ones included; `WalkIs` shows that following the links yields it.
The operations on the lists are one lemma each (`FreeTaken`, `FreeGiven`, `LiveAppended`,
`LiveRemoved`).

The hard part is the deletion without tombstones. Clearing a bucket breaks `Exact`;
`Mending` says how far it stays broken while `RemoveLookup` inserts the entries of the following
cluster again: only an entry still ahead misses a bucket, and the bucket lies behind. One turn
keeps that (`TurnMends`), since an entry never goes past the bucket it was in, and because an
empty bucket ends the cluster before the loop is back where it began: the table is at most
half full (`HalfFull`, `EmptyBucket`). At that bucket nothing can be missing
(`MendingEnds`): an entry beyond would miss that bucket too. Distances are counted
in probes, so clusters that wrap around the end of the table are no case of their own (`Passing`).

### Synchronisation

`SynchronisationProofs.tla`: the mutex for any number of threads and any depth of
recursion, semaphores and events for any number of callers and permits, lists for any
number of lists and nodes; from `MutexAssumption`, `WaitObjectAssumption` and `TsListAssumption`.

| Theorem | States | Further assumption |
|---|---|---|
| `MutexTypeCorrect` | `XSpec => []XTypeOK` | |
| `HoldersAreOwners` | `XSpec => []HolderHasNative` | |
| `MutexExcludes` | `XSpec => []HoldersKeepTheLock` | `Coordinated` |
| `HoldersUnlock` | `XSpec => []HolderCanUnlock` | stated under `Coordinated` |
| `WaitObjectTyped` | `BSpec => []BTypeOK` | |
| `WaitersAlwaysServed` | `BSpec => []WaitersServed` | |
| `ListsTyped` | `LSpec => []LTypeOK` | |
| `NodesAreAccountedFor` | `LSpec => []NodesAccountedFor` | |

The mutex: the invariant, `Locking`, conjoins the type invariant with `NativeTracked` (how often a
thread has the native mutex, by what it was told and where it is in a call),
`MirrorsBounded` (what the mirrors can be trusted for while an initialisation may overwrite
them) and `Coordinating` (that they are exact when it cannot).

The blocking objects: `WaitersServed` becomes inductive with `WaitShape`. The waiters
that the object counts are the callers that sleep or were woken and have not looked yet,
and one caller at most is shutting it down. Each step moves one caller, or all the
sleepers, from one activity to another, and lemmas say what that does to the sizes of
the sets: a notification that is due and a waiter that was woken each stand for a permit.

The lists: `Linking` says of each list that following its pointers from the head gives
`stack` (`Chained`, stated node by node, so that nothing needs to be walked), and that the nodes
it owns are those on the stack and the one in the hands of the thread that works on the list
(`Accounted`). A node has one owner, so no step on a list touches the nodes of another
(`OthersUntouched`), although the steps interleave.

### Containers

`ContainerProofs.tla`: the generation pool for any number of slots and generations, the
call queue for rings of any capacity and any number of pushes; from `PoolAssumption` and
`CallQueueAssumption`.

| Theorem | States |
|---|---|
| `PoolTypeCorrect` | `GSpec => []GTypeOK` |
| `HandlesStayUnique` | `GSpec => []HandlesNameOneRecord` |
| `MutationsAlwaysTrusted` | `GSpec => []MutationsTrusted` |
| `FreeListAlwaysTrusted` | `GSpec => []FreeListTrusted` |
| `QueueTyped` | `QSpec => []QTypeOK` |
| `CallsStayInTurn` | `QSpec => []CallsRunInTurn` |

The pool: the invariant, `Pooling`, says what a slot can be (`SlotsSound`), that the counters
count (`SlotsCounted`), what separates a handle that resolves from one that never will
again (`HandlesSound`), and, without walking it, what a free list is: the links stay
among the free slots, no two slots share a successor, and none has the head for one
(`FreeListSound`, from `Linked`). The local checks of the code follow from that. For the
audit of the whole pool the invariant has `ListWalked` too: a walk from the head, given as
a sequence of slots, ends after as many of them as are free. A slot that is taken, put
back or grown changes that sequence at its head (`HeadTakenWalked`, `SlotPushedWalked`), a
clear lists the slots anew (`RebuiltIsWalked`), and `FreeWalkFollows` shows that the
recursive walk of the audit is this one: if not, there would be a least place
where they part.

The queue: seen through `Queued`, a push appends (`PushAppends`: the slot it writes to is that
of no queued element, and growth keeps the order) and a pop takes the head off
(`PopDropsFirst`), for every ring that satisfies `IsRing`. The invariant, `Ringing`, adds
that a drain in progress covers no more calls than wait, all pushed before it began.

`CallQueue_CancelTag` pops and pushes in a loop. `Tidy` says what the ring is between
two turns: well formed, the calls not looked at yet first, and after them those that
were kept, in their order. Each turn keeps that (`PushTidy`, `PopTidy`), so the last leaves
the waiting calls without the cancelled ones, in their order (`CancelKeepsOthers`). There
is no induction in it: that the turns of the loop exist as a function (`TurnsExist`) and
are what they should be (`TurnsAre`) follows from the least turn for which they are not.

### Event bus, world, host and renderer

`EngineProofs.tla`: for any number of subscriptions, objects, slots, generations, records
and references; from `HandleTableAssumption`, `EventBusAssumption`, `WorldAssumption`,
`HostAssumption` and `RendererAssumption`.

| Theorem | States | Further assumption |
|---|---|---|
| `BusTyped` | `ESpec => []ETypeOK` | |
| `EmissionsAlwaysKeepTheirWord` | `ESpec => []EmissionsKeepTheirWord` | |
| `WorldTypesHold` | `WSpec => []WTypeOK` | |
| `NamesAlwaysTrue` | `WSpec => []NamesStayTrue` | |
| `HostTyped` | `HSpec => []HTypeOK` | `SubmitClosesPass` |
| `HostingInvariant` | `HSpec => []Hosting` | `SubmitClosesPass` |
| `HostUnwindsAlways` | `HSpec => []HostUnwinds` | |
| `RendererTyped` | `RSpec => []RTypeOK` | |
| `RendererAlwaysSound` | `RSpec => []RendererSound` | |
| `PartsRun` | `EngineSpec => GSpec /\ ESpec /\ ... /\ HSpec` | |
| `EngineTyped` | `EngineSpec => []EngineTypeOK` | `SubmitClosesPass` |

The table comes first, for any table: `Threaded` says that the free list names every slot that is
not occupied, once, and each operation of `HandleTable` has a lemma that keeps it and says
what happens to the slots.

The event bus: a subscription, an unsubscription and a clear, inside a callback or
outside, all do one thing to the table (`Moves`): slots keep what they hold, are given
up, are new, or one of them takes the next subscription. `BusKept` says that the order
lists every occupied slot once, by priority and age (`OrderKept`, kept by a rebase because
the places in the order are its new numbers); that a handle of the snapshot resolves to
what it was taken for or to nothing (`SnapshotKept`); and that the calls made so far are
those of the snapshot up to the current place that were for the event and still
there (`CallsKept`). `EventBusAssumption` lets a behaviour make no more subscriptions than
a slot has generations: beyond that, a handle in the snapshot of an emission could come
round. And `CapacityMax <= SequenceMax`: a rebase leaves room for a number.

The world: `WorldInv` says of the objects that no two slots hold one incarnation
(`WorldKept`), of every id ever given out that it resolves as long as its object is
present and only then (`IdsKept`: what keeps an old id from resolving to a new object is
either the generation of its slot, until that comes round, or the serial), and of
every token that it reads what was built for it (`SubmissionKept`).

The host: there is always an n such that exactly the first n services in the order of
starting are up, and the place of the host in its start, loop or shutdown tells n (`Hosting`).
A client that ends its submit with a pass open makes `Host_EndFrame` fail, which is not
covered: `HostUnwinds` states what is torn down for clients that close their passes, and
for all clients that a request ends the loop, which follows from `Ending`.

The renderer: `Rendering` relates each record to what it uses (`RecordShape`), counts
uses through creations that are refused half way (`ReferencesProtect`), and says how far
a start, a stop or a roll-back has come (`Phases`): what is still to be stopped comes users
first, which is why nothing is destroyed under its user.

`EngineProofs` extends the proofs of the containers and of the synchronisation, and ends
with `PartsRun`: what the run `Engine` does is, seen from a part, a behaviour of that
part. So the theorems about the parts hold of that run, and `EngineTyped` joins the type
invariants into the one that it checks.

### The editor's work

`EditorProofs.tla`: for any budgets, costs and merge keys of the undo journal; for any texts,
any contents, paths and numbers of copies, with edits by hand while the editor runs or
without; from `UndoAssumption`, `SettingsAssumption` and `WorkspaceAssumption`.

| Theorem | States | Further assumption |
|---|---|---|
| `JournalStaysSound` | `Spec => []JournalSound` | |
| `JournalTyped` | `Spec => []UTypeOK` | |
| `CleanAlwaysTellsSaved` | `Spec => []CleanTellsSaved` | |
| `SettingsTypeCorrect` | `SSpec => []STypeOK` | |
| `SettingsNeverLost` | `SSpec => SettingsTextKept` | |
| `MapTyped` | `MSpec => []MTypeOK` | |
| `CleanAlwaysOnDisk` | `MSpec => []CleanMeansOnDisk` | |
| `ReportsAlwaysTrue` | `MSpec => []ReportsAreTrue` | `~AllocatorReuses` |
| `MapsAlwaysSurvive` | `MSpec => MapsSurvive` | |
| `PartsRun` | `EditorSpec => Spec /\ SSpec /\ MSpec` | |
| `EditorTyped` | `EditorSpec => []EditorTypeOK` | |

The journal: the invariant, `JournalKept`, says that along the operations edits and groups only grow and
each begins with the document the one before left (`Linked`), that the live document is the one
at the cursor (`AtCursor`), that an open transaction owns just the end of what is
applied (`TransactionKept`), and that the evicted groups are counted and older than all that
is left (`EvictedKept`). That groups grow is what makes eviction safe: the group a push
extends is the newest one applied, so the groups evicted to make room for it stop at a boundary before it
(`ActiveStarts`, `EvictionsStop`). `GroupFits` asks whether evicting everything older than that group
would be enough.

The budgets: `Budgeted` says that the array holds the journal and that its payloads fit. A push
adds its cost to what is left after making room (`PayloadsOfLonger`), a cut never costs
more (`PayloadsOfPrefix`), and an array that is full can grow because there is room for
another operation (`CapacityGrows`). `Payloads` is a sum along the journal; two
such sums agree where the journals do (`SumsAgree`) and only grow (`SumsGrow`), each by the
first or the last place where it would fail.

The mark of the saved state: `CleanTellsSaved` speaks of the cursor, but undo and redo may take
the cursor to any position, so the invariant, `CleanKept`, says at every position that the mark
would call it clean exactly if its text is the saved one. This holds because positions
differ in their texts (`TextsDiffer`) and in their tokens (`TokensDiffer`), and because no group
that can still grow is shorter than it was when it was marked, unless a callback failed:
otherwise a push could bring the number of its operations back, which is
the run `HistoryFailedUndo`. Every step except a save and a clear leaves a window of the
old journal with at most one operation after it (`Shortened`), so one lemma
(`ShortenedKeeps`) covers them all.

The settings file: what a step may overwrite is decided by the steps before it, so that the properties
are not inductive. The invariant, `Keeping`, adds `Staged` (the staging file that is about
to replace another holds the copy it was written to hold, and when a save publishes,
the backup already has what it replaces) and `Guarded` (while a load is in progress
saving is closed; while it is blocked the text that was rejected is still the settings file,
and once it is open that text is in the `.broken` file). `OverwritesHaveCopies`
concludes that only an edit by hand replaces an only copy.

The maps: `Storing` adds `MarkTrue` (the document behind the clean mark is the one in the
file), `Listed` (an autosave has listed every copy there is, and writes the greatest
number) and `Addressed` (a document whose address is that of the one copied last is that
document, unless the allocator hands addresses out again). Without the last condition the
statement is false, which is the run `AutosaveReuse`; that clean means on disk, and that
the maps survive, does not depend on it.

### What several proofs need

`Counting.tla`: a set of numbers has a least member, a bounded one a greatest, and
`Ascending` lists a finite set once, in order. Loops that the model writes as
recursive functions are reasoned about with the former (`LeastNumber`). These are
proved without induction over data, from the library's facts about finite sets: a family of finite sets has a member that
includes no other (`MinimalSet`).

## 6. Where code and documentation differ

Each is a run that TLC must find violated, with the line it contradicts quoted in
`PROJECT.json`.

* `HistoryFailedUndo`: the clean token is the newest applied group with the number of its operations
  that are applied. After an undo that failed inside a group, a push that merges
  into the group brings the number back to the saved one, and the editor shows
  an edited document as clean (`CypherEditor_History.cpp:252`). The headers say
  that clean means "The document matches its file." and that a merge produces a
  different token. Until a callback fails the statement holds (`CleanTellsSaved`).
* `HistoryCancel`: `UndoRedo_CancelTransaction` cuts the journal at the start of
  the transaction (`CypherCommon_UndoRedo.cpp:487`). A transaction that recorded nothing has
  not dropped the undone operations yet, so these go too, although the header
  says that it discards "operations recorded since BeginTransaction".
* `SettingsBackup`: after a recovery from the backup the damaged text is still the
  main file, and the first save copies it over the backup before it writes
  (`CypherEditor_SettingsFile.cpp:202`). Until that save is through, no readable text
  is on disk, although the comment three lines above says of the backup that it only ever holds a file
  "this build wrote or successfully read."
* `AutosaveReuse`: the autosave tells documents by their address. An edit deletes
  the old document, and after two edits the new one may be where the copied one
  was; the autosave then answers that nothing changed (`CypherMapGui_Autosave.cpp:73`,
  against lines 37 and 43 of its header).

Seen while modelling the watcher, and not made runs because nothing in the
repository says otherwise in so many words: a client cannot replay events in
their order, because an event equal to an earlier one of the same poll is left out
(deleted, created, deleted gives DELETED, CREATED), and CREATED or DELETED may name a
path that is gone or there again; events of a directory that was renamed within a
watch keep naming its old path; the table of directories of a watch never
shrinks; a client that throws the events of a failed poll away loses those of the
watches before the failure; a change and its undoing between two snapshots is only in
the native queue, and lost when that overflows. The client of the model, which looks
at what is there, is served well by all of these.

## 7. Plan

Done: the resource manager with its tables and promise, and the proofs of all three; the
asynchronous requests with their proofs; the watcher; the undo journal with the editor
history; the settings file and the maps; the event bus, the call queue, pools and
tables; Tier 0 synchronisation; world, renderer front end and host; proofs for the
synchronisation objects, the call queue, the generation pool, the world, the host, the
renderer, the undo journal and the editor history, the settings file, the maps, the
event bus and the watcher.

Next, in this order:

1. The memory system: scratch scopes over arenas, and the pools' free lists.
2. Mount priority and overlay resolution, with packages.
3. Listeners of the editor history, which may unsubscribe during a notification
   (`CypherEditor_History.cpp:37`), and calls made back into it from undo callbacks.

## 8. Not modelled

Everything in the last rows of the table of section 1, for the reasons given with
each component in `PROJECT.json`: functions of their input, floating-point
geometry, drivers and widgets, which make up most of the repository's lines.

Inside the modelled components: statistics, diagnostics, labels and byte counts;
the synchronous file API beyond the mutex it takes and its need of an initialised
filesystem; the Windows and macOS watchers, attribute events and times of directories;
a scan of a tree is one step of the watcher, except that a file may go
during it; the OpenGL backend, resizing and readbacks; culling and transforms of the
world; loading the host's startup configuration, which is one step that may fail.

Hazards left out because no bounded model would show anything of them, or because the
code leaves them to its callers: handles and generations that come round after 2^32
(the wrap itself is modelled); the renumbering of groups after 2^64; handles kept
over `Res_Shutdown`; a command in the startup configuration that requests a shutdown;
weak memory orders; and a post that notifies after its semaphore was destroyed
(`CypherCommon_Semaphore.cpp:135`, where the comment at line 27 asks the caller to wait for
its posters).

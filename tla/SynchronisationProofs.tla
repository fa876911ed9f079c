------------------------ MODULE SynchronisationProofs ------------------------
(***************************************************************************)
(* Proofs for Mutex, WaitObject and TsList, for any number of threads, any *)
(* depth of recursion, any number of permits, nodes and lists.             *)
(*                                                                         *)
(* Mutex: NativeTracked relates the native mutex to what the threads were  *)
(* told and are about to do.  MirrorsBounded says how far the mirrors can be*)
(* trusted when an initialisation may overwrite them at any time: an owner *)
(* that they name is one, and they never claim more levels than there are. *)
(* Coordinating is what holds besides when initialisation is kept apart:   *)
(* the mirrors are exact, up to the thread that is giving the mutex up.    *)
(*                                                                         *)
(* WaitObject: WaitShape says that the waiters counted are the callers that*)
(* sleep or were woken and have not looked, and that only one caller shuts the*)
(* object down.  With it, WaitersServed is inductive: every notification that*)
(* is due and every waiter that was woken stands for a permit.             *)
(*                                                                         *)
(* TsList: Chained says that the pointers of a list are its stack, and     *)
(* Accounted who owns what: the nodes on the stack and the one in the hands of*)
(* the thread that works on the list.                                      *)
(***************************************************************************)
EXTENDS Mutex, WaitObject, TsList, FiniteSetTheorems, SequenceTheorems, TLAPS

-----------------------------------------------------------------------------
(* The mutex. *)

-----------------------------------------------------------------------------
Unlocking == {"unlockDepth", "unlockOwner", "release"}

Borrowed(t) == IF pc[t] \in Borrowing THEN 1 ELSE 0

\* One level that Unlock has taken off the mirror and not yet off the native mutex.
GivenUp(t) == IF pc[t] \in {"unlockOwner", "release"} THEN 1 ELSE 0

\* The native mutex is locked once for every level held and every call that has it
\* on loan; whoever is past the second look at the gate keeps it open.
NativeTracked ==
  /\ native = NoThread => nativeDepth = 0 /\ nRecursionDepth = 0
  /\ ~recursive => nativeDepth <= 1 /\ nRecursionDepth = 0
  /\ \A t \in Threads :
       /\ native = t => nativeDepth >= 1 /\ nativeDepth = holds[t] + Borrowed(t)
       /\ native # t => holds[t] = 0 /\ pc[t] \notin Borrowing \cup Unlocking
       /\ pc[t] \in Unlocking => holds[t] >= 1
       /\ pc[t] \in {"publish", "nest", "depth"} => isInitialized
       /\ pc[t] \in {"nest", "depth", "unlockDepth"} => recursive

MirrorsBounded ==
  \A t \in Threads :
    /\ nOwnerThreadId = t => /\ native = t
                             /\ holds[t] >= 1 \/ pc[t] = "depth"
                             /\ pc[t] = "release" => holds[t] >= 2
    /\ native = t => nRecursionDepth <= holds[t] - GivenUp(t)

CoordinatedInit ==
  \A t \in Threads : Initialising(t) =>
    isInitialized /\ \A u \in Threads : holds[u] = 0 /\ (u # t => pc[u] = "idle")

MirrorsExact ==
  \A t \in Threads :
    /\ holds[t] > 0 => /\ isInitialized
                       /\ nOwnerThreadId = t \/ (pc[t] = "release" /\ holds[t] = 1)
                       /\ recursive => nRecursionDepth = holds[t] - GivenUp(t)
    /\ pc[t] = "unlockOwner" => holds[t] = 1
    /\ pc[t] = "nest" => holds[t] >= 1
    /\ pc[t] = "depth" => nOwnerThreadId = t
    /\ pc[t] \in {"publish", "depth", "shutdownDepth", "shutdownTry", "shutdownClose"} =>
         holds[t] = 0

Coordinating == Coordinated => CoordinatedInit /\ MirrorsExact

\* The inductive invariant.
Locking == XTypeOK /\ NativeTracked /\ MirrorsBounded /\ Coordinating

\* Where a call other than Init begins.
Starts == {"shutdownOwner", "unlock", "lock", "lockOwner", "try", "tryOwner"}

USE MutexAssumption
    DEF Locking, Borrowed, Borrowing, Unlocking, GivenUp, Step, Goes, mirrors, lock

-----------------------------------------------------------------------------
(* Initialisation.                                                         *)

\* The initialisation sets the flag and keeps the invariant.
LEMMA InitOpensKeeps ==
  ASSUME Locking, NEW t \in Threads, InitOpens(t)
  PROVE  Locking'
<1>1. XTypeOK'
  BY DEF XTypeOK, NativeTracked, InitOpens, Inside
<1>2. NativeTracked'
  BY DEF XTypeOK, NativeTracked, MirrorsBounded, InitOpens, Inside
<1>3. MirrorsBounded'
  BY DEF XTypeOK, NativeTracked, MirrorsBounded, InitOpens, Inside
<1>4. Coordinating'
  BY DEF XTypeOK, NativeTracked, MirrorsBounded, Coordinating, CoordinatedInit,
           MirrorsExact, Initialising, InitOpens, Inside
<1>5. QED
  BY <1>1, <1>2, <1>3, <1>4

\* The initialisation clears the owner, which nobody is yet.
LEMMA InitOwnerKeeps ==
  ASSUME Locking, NEW t \in Threads, InitOwner(t)
  PROVE  Locking'
<1>1. XTypeOK'
  BY DEF XTypeOK, NativeTracked, InitOwner
<1>2. NativeTracked'
  BY DEF XTypeOK, NativeTracked, MirrorsBounded, InitOwner
<1>3. MirrorsBounded'
  BY DEF XTypeOK, NativeTracked, MirrorsBounded, InitOwner
<1>4. Coordinating'
  BY DEF XTypeOK, NativeTracked, MirrorsBounded, Coordinating, CoordinatedInit,
           MirrorsExact, Initialising, InitOwner
<1>5. QED
  BY <1>1, <1>2, <1>3, <1>4

\* The initialisation clears the depth, which nobody counts yet.
LEMMA InitDepthKeeps ==
  ASSUME Locking, NEW t \in Threads, InitDepth(t)
  PROVE  Locking'
<1>1. XTypeOK'
  BY DEF XTypeOK, NativeTracked, InitDepth
<1>2. NativeTracked'
  BY DEF XTypeOK, NativeTracked, MirrorsBounded, InitDepth
<1>3. MirrorsBounded'
  BY DEF XTypeOK, NativeTracked, MirrorsBounded, InitDepth
<1>4. Coordinating'
  BY DEF XTypeOK, NativeTracked, MirrorsBounded, Coordinating, CoordinatedInit,
           MirrorsExact, Initialising, InitDepth
<1>5. QED
  BY <1>1, <1>2, <1>3, <1>4

-----------------------------------------------------------------------------
(* Every call but Init passes the gate first; then it only reads, until it has the *)
(* native mutex.                                                           *)

\* A thread that begins a call keeps the invariant.
LEMMA EntersKeeps ==
  ASSUME Locking, NEW t \in Threads, NEW step \in Starts, Enters(t, step)
  PROVE  Locking'
<1>1. XTypeOK'
  BY DEF XTypeOK, NativeTracked, Enters, Initialising, Starts
<1>2. NativeTracked'
  BY DEF XTypeOK, NativeTracked, MirrorsBounded, Enters, Initialising, Starts
<1>3. MirrorsBounded'
  BY DEF XTypeOK, NativeTracked, MirrorsBounded, Enters, Initialising, Starts
<1>4. Coordinating'
  BY DEF XTypeOK, NativeTracked, MirrorsBounded, Coordinating, CoordinatedInit,
           MirrorsExact, Enters, Initialising, Starts
<1>5. QED
  BY <1>1, <1>2, <1>3, <1>4

\* The shutdown reads the owner and keeps the invariant.
LEMMA ShutdownReadsOwnerKeeps ==
  ASSUME Locking, NEW t \in Threads, ShutdownReadsOwner(t)
  PROVE  Locking'
<1>1. XTypeOK'
  BY DEF XTypeOK, NativeTracked, ShutdownReadsOwner
<1>2. NativeTracked'
  BY DEF XTypeOK, NativeTracked, MirrorsBounded, ShutdownReadsOwner
<1>3. MirrorsBounded'
  BY DEF XTypeOK, NativeTracked, MirrorsBounded, ShutdownReadsOwner
<1>4. Coordinating'
  BY DEF XTypeOK, NativeTracked, MirrorsBounded, Coordinating, CoordinatedInit,
           MirrorsExact, Initialising, ShutdownReadsOwner
<1>5. QED
  BY <1>1, <1>2, <1>3, <1>4

\* The shutdown reads the depth and keeps the invariant.
LEMMA ShutdownReadsDepthKeeps ==
  ASSUME Locking, NEW t \in Threads, ShutdownReadsDepth(t)
  PROVE  Locking'
<1>1. XTypeOK'
  BY DEF XTypeOK, NativeTracked, ShutdownReadsDepth
<1>2. NativeTracked'
  BY DEF XTypeOK, NativeTracked, MirrorsBounded, ShutdownReadsDepth
<1>3. MirrorsBounded'
  BY DEF XTypeOK, NativeTracked, MirrorsBounded, ShutdownReadsDepth
<1>4. Coordinating'
  BY DEF XTypeOK, NativeTracked, MirrorsBounded, Coordinating, CoordinatedInit,
           MirrorsExact, Initialising, ShutdownReadsDepth
<1>5. QED
  BY <1>1, <1>2, <1>3, <1>4

\* A lock or a try reads the owner and keeps the invariant.
LEMMA LockReadsOwnerKeeps ==
  ASSUME Locking, NEW t \in Threads, LockReadsOwner(t)
  PROVE  Locking'
<1>1. XTypeOK'
  BY DEF XTypeOK, NativeTracked, LockReadsOwner
<1>2. NativeTracked'
  BY DEF XTypeOK, NativeTracked, MirrorsBounded, LockReadsOwner
<1>3. MirrorsBounded'
  BY DEF XTypeOK, NativeTracked, MirrorsBounded, LockReadsOwner
<1>4. Coordinating'
  BY DEF XTypeOK, NativeTracked, MirrorsBounded, Coordinating, CoordinatedInit,
           MirrorsExact, Initialising, LockReadsOwner
<1>5. QED
  BY <1>1, <1>2, <1>3, <1>4

\* A try that fails changes nothing.
LEMMA TryLockFailsKeeps ==
  ASSUME Locking, NEW t \in Threads, TryLockFails(t)
  PROVE  Locking'
<1>1. XTypeOK'
  BY DEF XTypeOK, NativeTracked, TryLockFails, NativeFree
<1>2. NativeTracked'
  BY DEF XTypeOK, NativeTracked, MirrorsBounded, TryLockFails, NativeFree
<1>3. MirrorsBounded'
  BY DEF XTypeOK, NativeTracked, MirrorsBounded, TryLockFails, NativeFree
<1>4. Coordinating'
  BY DEF XTypeOK, NativeTracked, MirrorsBounded, Coordinating, CoordinatedInit,
           MirrorsExact, Initialising, TryLockFails, NativeFree
<1>5. QED
  BY <1>1, <1>2, <1>3, <1>4

\* A thread inside that finds the wrapper shut down goes out again.
LEMMA LockRechecksKeeps ==
  ASSUME Locking, NEW t \in Threads, LockRechecks(t)
  PROVE  Locking'
<1>1. XTypeOK'
  BY DEF XTypeOK, NativeTracked, LockRechecks, StillOpen
<1>2. NativeTracked'
  BY DEF XTypeOK, NativeTracked, MirrorsBounded, LockRechecks, StillOpen
<1>3. MirrorsBounded'
  BY DEF XTypeOK, NativeTracked, MirrorsBounded, LockRechecks, StillOpen
<1>4. Coordinating'
  BY DEF XTypeOK, NativeTracked, MirrorsBounded, Coordinating, CoordinatedInit,
           MirrorsExact, Initialising, LockRechecks, StillOpen
<1>5. QED
  BY <1>1, <1>2, <1>3, <1>4

\* An unlock goes on only for the owner, who holds the native mutex.
LEMMA UnlockReadsOwnerKeeps ==
  ASSUME Locking, NEW t \in Threads, UnlockReadsOwner(t)
  PROVE  Locking'
<1>1. XTypeOK'
  BY DEF XTypeOK, NativeTracked, UnlockReadsOwner
<1>2. NativeTracked'
  BY DEF XTypeOK, NativeTracked, MirrorsBounded, UnlockReadsOwner
<1>3. MirrorsBounded'
  BY DEF XTypeOK, NativeTracked, MirrorsBounded, UnlockReadsOwner
<1>4. Coordinating'
  BY DEF XTypeOK, NativeTracked, MirrorsBounded, Coordinating, CoordinatedInit,
           MirrorsExact, Initialising, UnlockReadsOwner
<1>5. QED
  BY <1>1, <1>2, <1>3, <1>4

-----------------------------------------------------------------------------
(* The native mutex is taken and the gate closed.                          *)

\* The shutdown borrows the native mutex when that is free.
LEMMA ShutdownTriesKeeps ==
  ASSUME Locking, NEW t \in Threads, ShutdownTries(t)
  PROVE  Locking'
<1>1. XTypeOK'
  BY DEF XTypeOK, NativeTracked, ShutdownTries, TakesNative, NativeLock, NativeFree
<1>2. NativeTracked'
  BY DEF XTypeOK, NativeTracked, MirrorsBounded, ShutdownTries, TakesNative,
           NativeLock, NativeFree
<1>3. MirrorsBounded'
  BY DEF XTypeOK, NativeTracked, MirrorsBounded, ShutdownTries, TakesNative,
           NativeLock, NativeFree
<1>4. Coordinating'
  BY DEF XTypeOK, NativeTracked, MirrorsBounded, Coordinating, CoordinatedInit,
           MirrorsExact, Initialising, ShutdownTries, TakesNative, NativeLock, NativeFree
<1>5. QED
  BY <1>1, <1>2, <1>3, <1>4

\* The shutdown clears the flag while it has the native mutex.
LEMMA ShutdownClosesKeeps ==
  ASSUME Locking, NEW t \in Threads, ShutdownCloses(t)
  PROVE  Locking'
<1>1. XTypeOK'
  BY DEF XTypeOK, NativeTracked, ShutdownCloses
<1>2. NativeTracked'
  BY DEF XTypeOK, NativeTracked, MirrorsBounded, ShutdownCloses
<1>3. MirrorsBounded'
  BY DEF XTypeOK, NativeTracked, MirrorsBounded, ShutdownCloses
<1>4. Coordinating'
  BY DEF XTypeOK, NativeTracked, MirrorsBounded, Coordinating, CoordinatedInit,
           MirrorsExact, Initialising, ShutdownCloses
<1>5. QED
  BY <1>1, <1>2, <1>3, <1>4

\* A thread that gets the native mutex is the only one inside, and keeps the invariant.
LEMMA LockNativeKeeps ==
  ASSUME Locking, NEW t \in Threads, LockNative(t)
  PROVE  Locking'
<1>1. XTypeOK'
  BY DEF XTypeOK, NativeTracked, LockNative, NativeLock, NativeFree
<1>2. NativeTracked'
  BY DEF XTypeOK, NativeTracked, MirrorsBounded, LockNative, NativeLock, NativeFree
<1>3. MirrorsBounded'
  BY DEF XTypeOK, NativeTracked, MirrorsBounded, LockNative, NativeLock, NativeFree
<1>4. Coordinating'
  BY DEF XTypeOK, NativeTracked, MirrorsBounded, Coordinating, CoordinatedInit,
           MirrorsExact, Initialising, LockNative, NativeLock, NativeFree
<1>5. QED
  BY <1>1, <1>2, <1>3, <1>4

-----------------------------------------------------------------------------
(* The mirrors are written.                                                *)

\* The thread inside publishes itself as the owner.
LEMMA LockPublishesKeeps ==
  ASSUME Locking, NEW t \in Threads, LockPublishes(t)
  PROVE  Locking'
<1>1. XTypeOK'
  BY DEF XTypeOK, NativeTracked, LockPublishes
<1>2. NativeTracked'
  BY DEF XTypeOK, NativeTracked, MirrorsBounded, LockPublishes
<1>3. MirrorsBounded'
  BY DEF XTypeOK, NativeTracked, MirrorsBounded, LockPublishes
<1>4. Coordinating'
  BY DEF XTypeOK, NativeTracked, MirrorsBounded, Coordinating, CoordinatedInit,
           MirrorsExact, Initialising, LockPublishes
<1>5. QED
  BY <1>1, <1>2, <1>3, <1>4

\* The owner counts one level more.
LEMMA LockDepthKeeps ==
  ASSUME Locking, NEW t \in Threads, LockDepth(t)
  PROVE  Locking'
<1>1. XTypeOK'
  BY DEF XTypeOK, NativeTracked, LockDepth
<1>2. NativeTracked'
  BY DEF XTypeOK, NativeTracked, MirrorsBounded, LockDepth
<1>3. MirrorsBounded'
  BY DEF XTypeOK, NativeTracked, MirrorsBounded, LockDepth
<1>4. Coordinating'
  BY DEF XTypeOK, NativeTracked, MirrorsBounded, Coordinating, CoordinatedInit,
           MirrorsExact, Initialising, LockDepth
<1>5. QED
  BY <1>1, <1>2, <1>3, <1>4

\* The owner counts one level less.
LEMMA UnlockDepthKeeps ==
  ASSUME Locking, NEW t \in Threads, UnlockDepth(t)
  PROVE  Locking'
<1>1. XTypeOK'
  BY DEF XTypeOK, NativeTracked, UnlockDepth, DepthBelow
<1>2. NativeTracked'
  BY DEF XTypeOK, NativeTracked, MirrorsBounded, UnlockDepth, DepthBelow
<1>3. MirrorsBounded'
  BY DEF XTypeOK, NativeTracked, MirrorsBounded, UnlockDepth, DepthBelow
<1>4. Coordinating'
  BY DEF XTypeOK, NativeTracked, MirrorsBounded, Coordinating, CoordinatedInit,
           MirrorsExact, Initialising, UnlockDepth, DepthBelow
<1>5. QED
  BY <1>1, <1>2, <1>3, <1>4

\* The owner gives up the ownership while it has the native mutex.
LEMMA UnlockOwnerKeeps ==
  ASSUME Locking, NEW t \in Threads, UnlockOwner(t)
  PROVE  Locking'
<1>1. XTypeOK'
  BY DEF XTypeOK, NativeTracked, UnlockOwner
<1>2. NativeTracked'
  BY DEF XTypeOK, NativeTracked, MirrorsBounded, UnlockOwner
<1>3. MirrorsBounded'
  BY DEF XTypeOK, NativeTracked, MirrorsBounded, UnlockOwner
<1>4. Coordinating'
  BY DEF XTypeOK, NativeTracked, MirrorsBounded, Coordinating, CoordinatedInit,
           MirrorsExact, Initialising, UnlockOwner
<1>5. QED
  BY <1>1, <1>2, <1>3, <1>4

-----------------------------------------------------------------------------
(* The native mutex is given back.                                         *)

\* A thread that releases the native mutex keeps the invariant.
LEMMA ReleasesKeeps ==
  ASSUME Locking, NEW t \in Threads, Releases(t)
  PROVE  Locking'
<1>1. XTypeOK'
  BY DEF XTypeOK, NativeTracked, Releases, NativeUnlock
<1>2. NativeTracked'
  BY DEF XTypeOK, NativeTracked, MirrorsBounded, Releases, NativeUnlock
<1>3. MirrorsBounded'
  BY DEF XTypeOK, NativeTracked, MirrorsBounded, Releases, NativeUnlock
<1>4. Coordinating'
  BY DEF XTypeOK, NativeTracked, MirrorsBounded, Coordinating, CoordinatedInit,
           MirrorsExact, Initialising, Releases, NativeUnlock
<1>5. QED
  BY <1>1, <1>2, <1>3, <1>4

-----------------------------------------------------------------------------
(* The invariant, and what it shows. *)

\* The invariant holds initially.
LEMMA LockingStarts == XInit => Locking
<1> SUFFICES ASSUME XInit PROVE Locking
  OBVIOUS
<1>1. XTypeOK
  BY DEF XInit, XTypeOK
<1>2. NativeTracked /\ MirrorsBounded
  BY DEF XInit, NativeTracked, MirrorsBounded
<1>3. Coordinating
  BY DEF XInit, Coordinating, CoordinatedInit, MirrorsExact, Initialising
<1>4. QED
  BY <1>1, <1>2, <1>3

\* Every step keeps it.
LEMMA LockingKept == Locking /\ [XNext]_xvars => Locking'
<1> SUFFICES ASSUME Locking, [XNext]_xvars PROVE Locking'
  OBVIOUS
<1>1. ASSUME NEW t \in Threads, Calls(t) PROVE Locking'
  <2>1. CASE InitOpens(t)
    BY <2>1, InitOpensKeeps
  <2>2. CASE \E step \in Starts : Enters(t, step)
    BY <2>2, EntersKeeps
  <2>3. QED
    BY <1>1, <2>1, <2>2 DEF Calls, Starts
<1>2. ASSUME NEW t \in Threads, Continues(t) PROVE Locking'
  BY <1>2, InitOwnerKeeps, InitDepthKeeps, ShutdownReadsOwnerKeeps,
     ShutdownReadsDepthKeeps, ShutdownTriesKeeps, ShutdownClosesKeeps,
     LockReadsOwnerKeeps, LockNativeKeeps, TryLockFailsKeeps, LockRechecksKeeps,
     LockPublishesKeeps, LockDepthKeeps, UnlockReadsOwnerKeeps, UnlockDepthKeeps,
     UnlockOwnerKeeps, ReleasesKeeps
     DEF Continues
<1>3. CASE UNCHANGED xvars
  BY <1>3 DEF xvars, XTypeOK, NativeTracked, MirrorsBounded, Coordinating,
              CoordinatedInit, MirrorsExact, Initialising
<1>4. QED
  BY <1>1, <1>2, <1>3 DEF XNext

\* Holds after every step of every thread.
THEOREM LockingInvariant == XSpec => []Locking
  BY LockingStarts, LockingKept, PTL DEF XSpec

\* Depths are never counted below zero, by any number of threads that lock, unlock,
\* initialise and shut down in any order.
THEOREM MutexTypeCorrect == XSpec => []XTypeOK
  BY LockingInvariant, PTL DEF Locking

\* Whoever was told that it holds the mutex has the native mutex, as many times as it
\* was told, even when an initialisation overwrites the mirrors under it
\* (Cy_MutexInit opens the gate before it stores them).
THEOREM HoldersAreOwners == XSpec => []HolderHasNative
<1>1. Locking => HolderHasNative
  BY DEF XTypeOK, NativeTracked, HolderHasNative
<1>2. QED
  BY <1>1, LockingInvariant, PTL

\* With initialisations kept apart, a shutdown that succeeds finds no holder, none
\* comes after it (the recheck of Cy_MutexLock), and holders exclude each other.
THEOREM MutexExcludes ==
  ASSUME Coordinated PROVE XSpec => []HoldersKeepTheLock
<1>1. Locking => HoldersKeepTheLock
  BY DEF XTypeOK, NativeTracked, Coordinating, MirrorsExact, HoldersKeepTheLock,
         HolderHasNative, HeldMeansOpen
<1>2. QED
  BY <1>1, LockingInvariant, PTL

\* With initialisations kept apart, no holder's Unlock is refused for a mirror that
\* names somebody else or a depth that is off: no lock is stuck.
THEOREM HoldersUnlock == XSpec => []HolderCanUnlock
<1>1. Locking => HolderCanUnlock
  BY DEF XTypeOK, NativeTracked, Coordinating, MirrorsExact, HolderCanUnlock
<1>2. QED
  BY <1>1, LockingInvariant, PTL

-----------------------------------------------------------------------------
(* Semaphores and events. *)

\* Where a caller can be.
Activities ==
  {"idle", "asleep", "asleepTimed", "woken", "wokenTimed", "late",
   "closing", "closingWoken", "notifying", "notifyingAll"}

\* Callers that shut the object down.
Closers == Doing({"closing", "closingWoken"})

\* The waiters counted are those that sleep or have not looked since they were woken.
WaitShape ==
  /\ kind \in {"semaphore", "auto", "manual"}
  /\ objectOpen \in BOOLEAN
  /\ nMaxCount \in 0 .. PermitsMax /\ nCount \in 0 .. nMaxCount
  /\ objectOpen => nMaxCount >= 1 /\ Closers = {}
  /\ given \in Nat /\ taken \in Nat
  /\ doing \in [Callers -> Activities]
  /\ wakes \in [Callers -> 0 .. PermitsMax]
  /\ \A t \in Callers : wakes[t] > 0 <=> doing[t] \in {"notifying", "notifyingAll"}
  /\ nWaiterCount = Cardinality(Asleep) + Cardinality(Woken)
  /\ \A t, u \in Closers : t = u

\* The inductive invariant of WaitObject.
Serving == WaitShape /\ WaitersServed

\* The sets that the model counts are finite.
Counted ==
  /\ IsFiniteSet(Asleep) /\ Cardinality(Asleep) \in Nat
  /\ IsFiniteSet(Woken) /\ Cardinality(Woken) \in Nat
  /\ IsFiniteSet(Notifications) /\ Cardinality(Notifications) \in Nat
  /\ Cardinality(Asleep \cup Woken) = Cardinality(Asleep) + Cardinality(Woken)
  /\ (Cardinality(Asleep) = 0) <=> (Asleep = {})

\* They always are, when the callers are finitely many.
LEMMA WaitingCounted == Counted
<1> USE DEF Counted
<1>1. Asleep \subseteq Callers /\ Woken \subseteq Callers
  BY DEF Asleep, Woken, Doing
<1>2. Notifications \subseteq Callers \X (1 .. PermitsMax)
  BY DEF Notifications
<1>3. IsFiniteSet(Callers \X (1 .. PermitsMax))
  <2>1. IsFiniteSet(1 .. PermitsMax)
    BY FS_Interval, WaitObjectAssumption
  <2> QED
    BY <2>1, FS_Product, WaitObjectAssumption
<1>4. Asleep \cap Woken = {}
  BY DEF Asleep, Woken, Doing
<1>5. Cardinality({}) = 0
  BY FS_EmptySet
<1>6. IsFiniteSet(Asleep) /\ IsFiniteSet(Woken)
  BY <1>1, FS_Subset, WaitObjectAssumption
<1>7. Cardinality(Asleep \cup Woken) = Cardinality(Asleep) + Cardinality(Woken)
  <2>1. Cardinality(Asleep) \in Nat /\ Cardinality(Woken) \in Nat
    BY <1>6, FS_CardinalityType
  <2>2. Cardinality(Asleep \cup Woken) = Cardinality(Asleep) + Cardinality(Woken) - Cardinality(Asleep \cap Woken)
    BY <1>6, FS_Union
  <2> QED
    <3>1. Cardinality(Asleep \cap Woken) = 0
      BY <1>4, <1>5, Zenon
    <3> QED
      BY <2>1, <2>2, <3>1
<1> QED
  BY <1>2, <1>3, <1>6, <1>7, FS_Subset, FS_CardinalityType, FS_EmptySet

\* A caller that has k wake-ups to send adds k to those that are due.
LEMMA NotificationsAdded ==
  ASSUME WaitShape, NEW t \in Callers, doing[t] = "idle",
         NEW k \in 0 .. PermitsMax,
         doing' = [doing EXCEPT ![t] = IF k = 0 THEN "idle" ELSE "notifying"],
         wakes' = [wakes EXCEPT ![t] = k]
  PROVE  Cardinality(Notifications') = Cardinality(Notifications) + k
<1> DEFINE new == {t} \X (1 .. k)
<1>1. IsFiniteSet({t}) /\ Cardinality({t}) = 1
  BY FS_Singleton
<1>2. IsFiniteSet(1 .. k) /\ Cardinality(1 .. k) = k
  BY FS_Interval, WaitObjectAssumption
<1>3. IsFiniteSet(new) /\ Cardinality(new) = k
  BY <1>1, <1>2, FS_Product
<1>4. Notifications' = Notifications \cup new
  <2>1. \A u \in Callers : u # t => doing'[u] = doing[u] /\ wakes'[u] = wakes[u]
    BY DEF WaitShape
  <2>2. wakes'[t] = k /\ (doing'[t] = "notifying" \/ k = 0)
    BY DEF WaitShape
  <2>3. \A i \in 1 .. PermitsMax : i <= k <=> i \in 1 .. k
    BY WaitObjectAssumption
  <2>4. 1 .. k \subseteq 1 .. PermitsMax
    BY WaitObjectAssumption
  <2>5. \A p \in Callers \X (1 .. PermitsMax) : p \in Notifications' <=> p \in Notifications \cup new
    <3> TAKE p \in Callers \X (1 .. PermitsMax)
    <3>1. p = <<p[1], p[2]>> /\ p[1] \in Callers /\ p[2] \in 1 .. PermitsMax
      OBVIOUS
    <3>2. p \in Notifications' <=> doing'[p[1]] = "notifying" /\ p[2] <= wakes'[p[1]]
      BY DEF Notifications
    <3>3. p \in Notifications <=> doing[p[1]] = "notifying" /\ p[2] <= wakes[p[1]]
      BY DEF Notifications
    <3>4. p \in new <=> p[1] = t /\ p[2] \in 1 .. k
      BY <3>1
    <3>5. k = 0 => ~(p[2] \in 1 .. k)
      OBVIOUS
    <3> HIDE DEF new
    <3>6. CASE p[1] = t
      BY <2>2, <2>3, <3>1, <3>2, <3>3, <3>4, <3>5, <3>6
    <3>7. CASE p[1] # t
      BY <2>1, <3>1, <3>2, <3>3, <3>4, <3>7
    <3> QED
      BY <3>6, <3>7
  <2>6. new \subseteq Callers \X (1 .. PermitsMax)
    BY <2>4
  <2>7. Notifications \subseteq Callers \X (1 .. PermitsMax) /\ Notifications' \subseteq Callers \X (1 .. PermitsMax)
    BY DEF Notifications
  <2> QED
    BY <2>5, <2>6, <2>7
<1>5. Notifications \cap new = {}
  BY DEF Notifications
<1> HIDE DEF new
<1>6. IsFiniteSet(Notifications) /\ Cardinality(Notifications) \in Nat
  BY WaitingCounted DEF Counted
<1>7. Cardinality({}) = 0
  BY FS_EmptySet
<1>8. Cardinality(Notifications \cap new) = 0
  BY <1>5, <1>7, Zenon
<1>9. Cardinality(Notifications \cup new) =
        Cardinality(Notifications) + Cardinality(new) - Cardinality(Notifications \cap new)
  BY <1>3, <1>6, FS_Union
<1> QED
  BY <1>3, <1>4, <1>6, <1>8, <1>9

\* One wake-up is sent.
LEMMA NotificationSent ==
  ASSUME WaitShape, NEW t \in Callers, doing[t] = "notifying",
         wakes' = [wakes EXCEPT ![t] = @ - 1],
         doing' \in [Callers -> Activities],
         doing'[t] = IF wakes[t] = 1 THEN "idle" ELSE "notifying",
         \A u \in Callers \ {t} : doing'[u] = "notifying" <=> doing[u] = "notifying"
  PROVE  Cardinality(Notifications') = Cardinality(Notifications) - 1
<1>1. wakes[t] \in 1 .. PermitsMax
  BY DEF WaitShape
<1> DEFINE sent == <<t, wakes[t]>>
<1>2. sent \in Notifications
  BY <1>1 DEF Notifications
<1>3. Notifications' = Notifications \ {sent}
  <2>1. \A u \in Callers : u # t => wakes'[u] = wakes[u]
    BY DEF WaitShape
  <2>2. wakes'[t] = wakes[t] - 1
    BY DEF WaitShape
  <2>3. \A p \in Callers \X (1 .. PermitsMax) : p \in Notifications' <=> p \in Notifications /\ p # sent
    <3> TAKE p \in Callers \X (1 .. PermitsMax)
    <3>1. p = <<p[1], p[2]>> /\ p[1] \in Callers /\ p[2] \in 1 .. PermitsMax
      OBVIOUS
    <3>2. p \in Notifications' <=> doing'[p[1]] = "notifying" /\ p[2] <= wakes'[p[1]]
      BY DEF Notifications
    <3>3. p \in Notifications <=> doing[p[1]] = "notifying" /\ p[2] <= wakes[p[1]]
      BY DEF Notifications
    <3>4. p = sent <=> p[1] = t /\ p[2] = wakes[t]
      BY <3>1
    <3> HIDE DEF sent
    <3>6. CASE p[1] = t
      <4>1. p \in Notifications <=> p[2] <= wakes[t]
        BY <3>3, <3>6
      <4>2. p \in Notifications' <=> (wakes[t] # 1 /\ p[2] <= wakes[t] - 1)
        BY <2>2, <3>2, <3>6
      <4>3. (wakes[t] # 1 /\ p[2] <= wakes[t] - 1) <=> (p[2] <= wakes[t] /\ p[2] # wakes[t])
        BY <1>1, <3>1
      <4> QED
        BY <3>4, <3>6, <4>1, <4>2, <4>3
    <3>7. CASE p[1] # t
      BY <2>1, <3>1, <3>2, <3>3, <3>4, <3>7
    <3> QED
      BY <3>6, <3>7
  <2>7. Notifications \subseteq Callers \X (1 .. PermitsMax) /\ Notifications' \subseteq Callers \X (1 .. PermitsMax)
    BY DEF Notifications
  <2> QED
    BY <2>3, <2>7
<1> HIDE DEF sent
<1> QED
  BY <1>2, <1>3, WaitingCounted, FS_RemoveElement DEF Counted

\* What `doing` alone decides.
LEMMA NotificationsKept ==
  ASSUME wakes' = wakes, \A t \in Callers : doing'[t] = "notifying" <=> doing[t] = "notifying"
  PROVE  Notifications' = Notifications
BY DEF Notifications

\* One caller goes elsewhere.
LEMMA OneMoves ==
  ASSUME WaitShape, NEW t \in Callers, NEW to \in Activities,
         doing' = [doing EXCEPT ![t] = to]
  PROVE  /\ doing' \in [Callers -> Activities]
         /\ \A u \in Callers : doing'[u] = IF u = t THEN to ELSE doing[u]
         /\ Asleep' = IF to \in {"asleep", "asleepTimed"} THEN Asleep \cup {t} ELSE Asleep \ {t}
         /\ Woken' = IF to \in {"woken", "wokenTimed", "late"} THEN Woken \cup {t} ELSE Woken \ {t}
         /\ Closers' = IF to \in {"closing", "closingWoken"} THEN Closers \cup {t} ELSE Closers \ {t}
<1>1. doing' \in [Callers -> Activities] /\ \A u \in Callers : doing'[u] = IF u = t THEN to ELSE doing[u]
  BY DEF WaitShape
<1> QED
  BY <1>1 DEF Asleep, Woken, Closers, Doing

\* All sleepers wake while one caller goes on.
LEMMA AllMove ==
  ASSUME WaitShape, NEW t \in Callers, NEW to \in {"idle", "closing"},
         doing[t] \notin {"asleep", "asleepTimed"},
         doing' = [AllWoken(doing) EXCEPT ![t] = to]
  PROVE  /\ doing' \in [Callers -> Activities]
         /\ \A u \in Callers : doing'[u] = IF u = t THEN to ELSE WokenFrom(doing[u])
         /\ Asleep' = {}
         /\ Woken' = (Asleep \cup Woken) \ {t}
         /\ Closers' = IF to = "closing" THEN Closers \cup {t} ELSE Closers \ {t}
         /\ \A u \in Doing({"closing"})' : u = t /\ to = "closing"
<1>1. /\ doing' \in [Callers -> Activities]
      /\ \A u \in Callers : doing'[u] = IF u = t THEN to ELSE WokenFrom(doing[u])
  BY DEF WaitShape, AllWoken, WokenFrom, Activities
<1>2. \A u \in Callers : doing[u] \in Activities
  BY DEF WaitShape
<1> QED
  BY <1>1, <1>2 DEF Asleep, Woken, Closers, Doing, WokenFrom, Activities

\* The counts after one caller goes elsewhere.
LEMMA WaitersMove ==
  ASSUME WaitShape, NEW s \in Callers, NEW to \in Activities,
         doing' = [doing EXCEPT ![s] = to]
  PROVE  /\ doing[s] \in {"asleep", "asleepTimed"} /\ to \in {"woken", "wokenTimed", "late"} =>
              /\ Cardinality(Asleep') = Cardinality(Asleep) - 1
              /\ Cardinality(Woken') = Cardinality(Woken) + 1
         /\ doing[s] \in {"woken", "wokenTimed", "late"} /\ to \in {"asleep", "asleepTimed"} =>
              /\ Cardinality(Asleep') = Cardinality(Asleep) + 1
              /\ Cardinality(Woken') = Cardinality(Woken) - 1
         /\ s \notin Asleep \cup Woken /\ to \in {"asleep", "asleepTimed"} =>
              /\ Cardinality(Asleep') = Cardinality(Asleep) + 1
              /\ Woken' = Woken
         /\ s \in Woken /\ to = "idle" =>
              /\ Asleep' = Asleep
              /\ Cardinality(Woken') = Cardinality(Woken) - 1
         /\ s \notin Asleep \cup Woken /\ to \notin {"asleep", "asleepTimed", "woken", "wokenTimed", "late"} =>
              /\ Asleep' = Asleep
              /\ Woken' = Woken
<1>1. /\ Asleep' = IF to \in {"asleep", "asleepTimed"} THEN Asleep \cup {s} ELSE Asleep \ {s}
      /\ Woken' = IF to \in {"woken", "wokenTimed", "late"} THEN Woken \cup {s} ELSE Woken \ {s}
  BY OneMoves
<1>2. /\ doing[s] \in {"asleep", "asleepTimed"} <=> s \in Asleep
      /\ doing[s] \in {"woken", "wokenTimed", "late"} <=> s \in Woken
      /\ ~(s \in Asleep /\ s \in Woken)
  BY DEF Asleep, Woken, Doing
<1>3. /\ IsFiniteSet(Asleep) /\ Cardinality(Asleep) \in Nat
      /\ IsFiniteSet(Woken) /\ Cardinality(Woken) \in Nat
  BY WaitingCounted DEF Counted
<1>4. /\ s \in Asleep => Cardinality(Asleep \ {s}) = Cardinality(Asleep) - 1
      /\ s \in Woken => Cardinality(Woken \ {s}) = Cardinality(Woken) - 1
  BY <1>3, FS_RemoveElement
<1>5. /\ s \notin Asleep => Cardinality(Asleep \cup {s}) = Cardinality(Asleep) + 1
      /\ s \notin Woken => Cardinality(Woken \cup {s}) = Cardinality(Woken) + 1
  BY <1>3, FS_AddElement
<1>6. /\ s \notin Asleep => Asleep \ {s} = Asleep
      /\ s \notin Woken => Woken \ {s} = Woken
  OBVIOUS
<1>7. ~(to \in {"asleep", "asleepTimed"} /\ to \in {"woken", "wokenTimed", "late"})
  OBVIOUS
<1>8. to = "idle" => to \notin {"asleep", "asleepTimed"} /\ to \notin {"woken", "wokenTimed", "late"}
  OBVIOUS
<1>9. (to \notin {"asleep", "asleepTimed", "woken", "wokenTimed", "late"})
        <=> to \notin {"asleep", "asleepTimed"} /\ to \notin {"woken", "wokenTimed", "late"}
  OBVIOUS
<1> DEFINE sleeping == to \in {"asleep", "asleepTimed"}
           waking == to \in {"woken", "wokenTimed", "late"}
<1>10. CASE sleeping
  BY <1>1, <1>2, <1>3, <1>4, <1>5, <1>6, <1>7, <1>8, <1>9, <1>10
<1>11. CASE waking
  BY <1>1, <1>2, <1>3, <1>4, <1>5, <1>6, <1>7, <1>8, <1>9, <1>11
<1>12. CASE ~sleeping /\ ~waking
  BY <1>1, <1>2, <1>3, <1>4, <1>5, <1>6, <1>7, <1>8, <1>9, <1>12
<1> QED
  BY <1>10, <1>11, <1>12

\* The sets are finite after a step as well.
LEMMA CountedNext == Counted'
BY WaitingCounted, PTL

\* Nobody moves.
LEMMA DoingKept ==
  ASSUME doing' = doing
  PROVE  /\ Asleep' = Asleep /\ Woken' = Woken /\ Closers' = Closers
         /\ Doing({"notifyingAll"})' = Doing({"notifyingAll"})
         /\ Doing({"closing"})' = Doing({"closing"})
BY DEF Asleep, Woken, Closers, Doing

\* The invariant holds initially.
LEMMA ServingStarts == BInit => Serving
<1> SUFFICES ASSUME BInit PROVE Serving
  OBVIOUS
<1>1. Asleep = {} /\ Woken = {} /\ Closers = {}
  BY DEF BInit, Asleep, Woken, Closers, Doing
<1>2. Cardinality(Asleep) = 0 /\ Cardinality(Woken) = 0
  BY <1>1, FS_EmptySet, Zenon
<1>3. WaitShape
  <2>1. /\ doing \in [Callers -> Activities] /\ wakes \in [Callers -> 0 .. PermitsMax]
        /\ \A t \in Callers : wakes[t] > 0 <=> doing[t] \in {"notifying", "notifyingAll"}
    BY WaitObjectAssumption DEF BInit, Activities
  <2>2. \A t, u \in Closers : t = u
    BY <1>1
  <2>3. objectOpen \in BOOLEAN /\ ~objectOpen
    BY DEF BInit
  <2>4. nWaiterCount = Cardinality(Asleep) + Cardinality(Woken)
    BY <1>2 DEF BInit
  <2> QED
    BY <2>1, <2>2, <2>3, <2>4, WaitObjectAssumption DEF WaitShape, BInit
<1>4. Doing({"closing"}) = {}
  BY DEF BInit, Doing
<1>5. WaitersServed
  BY <1>1, <1>4 DEF WaitersServed, PermitsAccountedFor, NobodyOversleeps, ShutdownOutlastsWaiters, BInit
<1> QED
  BY <1>3, <1>5 DEF Serving

\* The object is initialised.
LEMMA ServingInit ==
  ASSUME Serving, NEW k \in {"semaphore", "auto", "manual"}, NEW limit \in 1 .. PermitsMax,
         NEW count \in 0 .. limit, ObjectInit(k, count, limit)
  PROVE  Serving'
<1>1. doing' = doing /\ wakes' = wakes /\ nWaiterCount' = nWaiterCount
  BY DEF ObjectInit
<1>2. /\ Asleep' = Asleep /\ Woken' = Woken /\ Closers' = Closers
      /\ Doing({"closing"})' = Doing({"closing"})
  BY <1>1, DoingKept
<1>3. nWaiterCount = 0 /\ Closers = {}
  BY DEF ObjectInit, Closers
<1>4. Asleep = {}
  BY <1>3, WaitingCounted DEF Serving, WaitShape, Counted
<1>5. WaitShape'
  BY <1>1, <1>2, <1>3, WaitObjectAssumption DEF Serving, WaitShape, ObjectInit
<1>6. Doing({"closing"}) = {}
  BY <1>3 DEF Closers, Doing
<1>7. WaitersServed'
  BY <1>1, <1>2, <1>3, <1>4, <1>6 DEF WaitersServed, PermitsAccountedFor, NobodyOversleeps, ShutdownOutlastsWaiters, ObjectInit
<1> QED
  BY <1>5, <1>7 DEF Serving

\* A shutdown marks the object closed and wakes all its waiters.
LEMMA ServingShutdown ==
  ASSUME Serving, NEW t \in Callers, ObjectShutdown(t)
  PROVE  Serving'
<1> DEFINE to == IF nWaiterCount = 0 THEN "idle" ELSE "closing"
<1>1. doing[t] = "idle" /\ objectOpen /\ objectOpen' = FALSE /\ nCount' = 0
  BY DEF ObjectShutdown
<1>2. doing' = [AllWoken(doing) EXCEPT ![t] = to] /\ to \in {"idle", "closing"}
  BY DEF ObjectShutdown
<1> HIDE DEF to
<1>3. /\ doing' \in [Callers -> Activities]
      /\ \A u \in Callers : doing'[u] = IF u = t THEN to ELSE WokenFrom(doing[u])
      /\ Asleep' = {}
      /\ Woken' = (Asleep \cup Woken) \ {t}
      /\ Closers' = IF to = "closing" THEN Closers \cup {t} ELSE Closers \ {t}
      /\ \A u \in Doing({"closing"})' : u = t /\ to = "closing"
  BY <1>1, <1>2, AllMove DEF Serving
<1>4. t \notin Asleep \cup Woken
  BY <1>1 DEF Asleep, Woken, Doing
<1>5. Woken' = Asleep \cup Woken
  BY <1>3, <1>4
<1>6. Cardinality(Woken') = nWaiterCount /\ Cardinality(Asleep') = 0 /\ nWaiterCount \in Nat
  <2>1. Cardinality(Asleep') = 0
    BY <1>3, FS_EmptySet, Zenon
  <2>2. Cardinality(Woken') = Cardinality(Asleep \cup Woken)
    BY <1>5, Zenon
  <2> QED
    BY <2>1, <2>2, WaitingCounted DEF Counted, Serving, WaitShape
<1>7. Closers = {} /\ Closers' = IF to = "closing" THEN {t} ELSE {}
  BY <1>1, <1>3 DEF Serving, WaitShape
<1>8. \A u \in Callers : wakes[u] > 0 <=> doing'[u] \in {"notifying", "notifyingAll"}
  BY <1>1, <1>2, <1>3 DEF Serving, WaitShape, WokenFrom, Activities
<1>9. WaitShape'
  <2>1. nWaiterCount' = Cardinality(Asleep') + Cardinality(Woken')
    BY <1>6 DEF ObjectShutdown
  <2>2. \A a, b \in Closers' : a = b
    BY <1>7
  <2>3. nMaxCount' \in 0 .. PermitsMax /\ nCount' \in 0 .. nMaxCount' /\ given' \in Nat /\ taken' \in Nat
    BY <1>1, WaitObjectAssumption DEF Serving, WaitShape, ObjectShutdown
  <2>4. /\ wakes' = wakes /\ wakes \in [Callers -> 0 .. PermitsMax]
        /\ kind' \in {"semaphore", "auto", "manual"}
    BY DEF Serving, WaitShape, ObjectShutdown
  <2> QED
    BY <1>1, <1>3, <1>8, <2>1, <2>2, <2>3, <2>4 DEF WaitShape
<1>10. Doing({"closing"})' # {} => to = "closing"
  BY <1>3
<1>11. to = "closing" <=> nWaiterCount # 0
  BY DEF to
<1>12. /\ Doing({"closing", "closingWoken"})' = {} => nWaiterCount' = 0
       /\ Doing({"closing"})' # {} => nWaiterCount' > 0
  BY <1>6, <1>7, <1>10, <1>11 DEF Closers, ObjectShutdown
<1>13. WaitersServed'
  BY <1>1, <1>3, <1>12 DEF WaitersServed, PermitsAccountedFor, NobodyOversleeps, ShutdownOutlastsWaiters
<1> QED
  BY <1>9, <1>13 DEF Serving

\* The shutdown looks again whether waiters are left.
LEMMA ServingCloserWakes ==
  ASSUME Serving, NEW t \in Callers, ShutdownWakes(t)
  PROVE  Serving'
<1> DEFINE to == IF nWaiterCount = 0 THEN "idle" ELSE "closing"
<1>1. doing[t] = "closingWoken" /\ doing' = [doing EXCEPT ![t] = to] /\ to \in Activities
      /\ to \in {"idle", "closing"}
  BY DEF ShutdownWakes, Activities
<1>2. to = "closing" <=> nWaiterCount # 0
  OBVIOUS
<1> HIDE DEF to
<1>3. t \notin Asleep \cup Woken /\ t \in Closers
  BY <1>1 DEF Asleep, Woken, Closers, Doing
<1>4. Asleep' = Asleep /\ Woken' = Woken
  BY <1>1, <1>3, WaitersMove DEF Serving
<1>5. /\ doing' \in [Callers -> Activities]
      /\ \A u \in Callers : doing'[u] = IF u = t THEN to ELSE doing[u]
      /\ Closers' = IF to \in {"closing", "closingWoken"} THEN Closers \cup {t} ELSE Closers \ {t}
  BY <1>1, OneMoves DEF Serving
<1>6. Closers = {t} /\ ~objectOpen
  BY <1>3 DEF Serving, WaitShape
<1>7. \A u \in Callers : wakes[u] > 0 <=> doing'[u] \in {"notifying", "notifyingAll"}
  BY <1>1, <1>5 DEF Serving, WaitShape
<1>8. WaitShape'
  BY <1>1, <1>4, <1>5, <1>6, <1>7 DEF Serving, WaitShape, ShutdownWakes
<1>9. Doing({"closing"})' # {} => to = "closing"
  BY <1>5, <1>6, <1>1 DEF Doing, Closers
<1>10. Doing({"closing", "closingWoken"})' = {} => to = "idle"
  BY <1>1, <1>5, <1>6 DEF Closers
<1>11. nWaiterCount \in Nat
  BY WaitingCounted DEF Counted, Serving, WaitShape
<1>12. WaitersServed'
  BY <1>1, <1>2, <1>4, <1>6, <1>9, <1>10, <1>11
  DEF WaitersServed, PermitsAccountedFor, NobodyOversleeps, ShutdownOutlastsWaiters, ShutdownWakes, Serving
<1> QED
  BY <1>8, <1>12 DEF Serving

\* A post adds permits and as many wake-ups.
LEMMA ServingPost ==
  ASSUME Serving, NEW t \in Callers, NEW n \in 1 .. PermitsMax, Cy_SemaphorePost(t, n)
  PROVE  Serving'
<1> DEFINE k == WakesFor(n)
           to == IF k = 0 THEN "idle" ELSE "notifying"
<1>1. /\ doing[t] = "idle" /\ objectOpen /\ kind = "semaphore"
      /\ doing' = [doing EXCEPT ![t] = to] /\ wakes' = [wakes EXCEPT ![t] = k]
      /\ to \in Activities /\ to \in {"idle", "notifying"}
  BY DEF Cy_SemaphorePost, Activities
<1>2. nWaiterCount \in Nat /\ Cardinality(Notifications) \in Nat /\ Cardinality(Asleep) \in Nat
      /\ Cardinality(Woken) \in Nat /\ (Cardinality(Asleep) = 0 <=> Asleep = {})
      /\ nWaiterCount = Cardinality(Asleep) + Cardinality(Woken)
  BY WaitingCounted DEF Counted, Serving, WaitShape
<1>3. /\ k \in 0 .. PermitsMax /\ k \in Nat /\ n \in Nat
      /\ k = n \/ k = nWaiterCount
  BY <1>2, WaitObjectAssumption DEF WakesFor
<1>4. to = "idle" <=> k = 0
  OBVIOUS
<1>5. Cardinality(Notifications') = Cardinality(Notifications) + k
  BY <1>1, <1>3, NotificationsAdded DEF Serving
<1> HIDE DEF to, k
<1>6. t \notin Asleep \cup Woken /\ t \notin Closers
  BY <1>1 DEF Asleep, Woken, Closers, Doing
<1>7. Asleep' = Asleep /\ Woken' = Woken
  BY <1>1, <1>6, WaitersMove DEF Serving
<1>8. /\ doing' \in [Callers -> Activities]
      /\ \A u \in Callers : doing'[u] = IF u = t THEN to ELSE doing[u]
      /\ Closers' = IF to \in {"closing", "closingWoken"} THEN Closers \cup {t} ELSE Closers \ {t}
  BY <1>1, OneMoves DEF Serving
<1>9. Closers' = Closers
  BY <1>1, <1>6, <1>8
<1>10. /\ wakes' \in [Callers -> 0 .. PermitsMax]
       /\ \A u \in Callers : wakes'[u] = IF u = t THEN k ELSE wakes[u]
  BY <1>1, <1>3 DEF Serving, WaitShape
<1>11. \A u \in Callers : wakes'[u] > 0 <=> doing'[u] \in {"notifying", "notifyingAll"}
  <2>1. k > 0 <=> to \in {"notifying", "notifyingAll"}
    BY <1>1, <1>3, <1>4
  <2> QED
    BY <1>8, <1>10, <2>1 DEF Serving, WaitShape
<1>12. /\ nCount' \in 0 .. nMaxCount /\ nCount' = nCount + n /\ nCount \in Nat
       /\ given' = given + n /\ given' \in Nat
  BY <1>3 DEF Cy_SemaphorePost, Fits, Serving, WaitShape
<1>13. WaitShape'
  BY <1>1, <1>7, <1>8, <1>9, <1>10, <1>11, <1>12 DEF Serving, WaitShape, Cy_SemaphorePost
<1>14. PermitsAccountedFor'
  BY <1>1, <1>12 DEF Serving, WaitShape, WaitersServed, PermitsAccountedFor, Cy_SemaphorePost
<1>15. Doing({"notifyingAll"})' = Doing({"notifyingAll"}) /\ Doing({"closing"})' = Doing({"closing"})
  BY <1>1, <1>8 DEF Doing
<1>16. NobodyOversleeps'
  BY <1>1, <1>2, <1>3, <1>5, <1>7, <1>12, <1>15
  DEF Serving, WaitersServed, NobodyOversleeps, Cy_SemaphorePost
<1>17. ShutdownOutlastsWaiters'
  BY <1>1, <1>15 DEF Serving, WaitersServed, ShutdownOutlastsWaiters, Cy_SemaphorePost
<1> QED
  BY <1>13, <1>14, <1>16, <1>17 DEF Serving, WaitersServed

\* A signal wakes one sleeper, or all of a manual event.
LEMMA ServingSignal ==
  ASSUME Serving, NEW t \in Callers, Cy_EventSignal(t)
  PROVE  Serving'
<1> DEFINE to == IF kind = "auto" THEN "notifying" ELSE "notifyingAll"
<1>1. /\ doing[t] = "idle" /\ objectOpen /\ kind # "semaphore"
      /\ doing' = [doing EXCEPT ![t] = to] /\ wakes' = [wakes EXCEPT ![t] = 1]
      /\ to \in Activities /\ to \in {"notifying", "notifyingAll"}
  BY DEF Cy_EventSignal, Activities
<1>2. Cardinality(Notifications) \in Nat /\ Cardinality(Woken) \in Nat
  BY WaitingCounted DEF Counted
<1>3. /\ kind = "auto" => Cardinality(Notifications') = Cardinality(Notifications) + 1
      /\ kind # "auto" => to = "notifyingAll"
  <2>1. kind # "auto" => to = "notifyingAll"
    OBVIOUS
  <2>2. SUFFICES ASSUME kind = "auto"
                 PROVE  Cardinality(Notifications') = Cardinality(Notifications) + 1
    BY <2>1
  <2>3. doing' = [doing EXCEPT ![t] = IF 1 = 0 THEN "idle" ELSE "notifying"] /\ 1 \in 0 .. PermitsMax
    BY <1>1, <2>2, WaitObjectAssumption
  <2> QED
    BY <1>1, <2>3, NotificationsAdded DEF Serving
<1> HIDE DEF to
<1>6. t \notin Asleep \cup Woken /\ t \notin Closers
  BY <1>1 DEF Asleep, Woken, Closers, Doing
<1>7. Asleep' = Asleep /\ Woken' = Woken
  BY <1>1, <1>6, WaitersMove DEF Serving
<1>8. /\ doing' \in [Callers -> Activities]
      /\ \A u \in Callers : doing'[u] = IF u = t THEN to ELSE doing[u]
      /\ Closers' = IF to \in {"closing", "closingWoken"} THEN Closers \cup {t} ELSE Closers \ {t}
  BY <1>1, OneMoves DEF Serving
<1>9. Closers' = Closers
  BY <1>1, <1>6, <1>8
<1>10. /\ wakes' \in [Callers -> 0 .. PermitsMax]
       /\ \A u \in Callers : wakes'[u] = IF u = t THEN 1 ELSE wakes[u]
  BY <1>1, WaitObjectAssumption DEF Serving, WaitShape
<1>11. \A u \in Callers : wakes'[u] > 0 <=> doing'[u] \in {"notifying", "notifyingAll"}
  BY <1>1, <1>8, <1>10 DEF Serving, WaitShape
<1>12. /\ nCount' \in 0 .. nMaxCount /\ nCount' = 1 /\ nCount \in Nat /\ taken \in Nat
       /\ given' = given + 1 /\ given \in Nat
  BY <1>1, WaitObjectAssumption DEF Cy_EventSignal, Serving, WaitShape
<1>13. WaitShape'
  BY <1>1, <1>7, <1>8, <1>9, <1>10, <1>11, <1>12 DEF Serving, WaitShape, Cy_EventSignal
<1>14. PermitsAccountedFor'
  BY <1>1, <1>12 DEF Serving, WaitersServed, PermitsAccountedFor, Cy_EventSignal
<1>15. /\ Doing({"closing"})' = Doing({"closing"})
       /\ to = "notifyingAll" => t \in Doing({"notifyingAll"})'
  BY <1>1, <1>8 DEF Doing
<1>16. NobodyOversleeps'
  BY <1>1, <1>2, <1>3, <1>7, <1>12, <1>15 DEF NobodyOversleeps, Cy_EventSignal
<1>17. ShutdownOutlastsWaiters'
  BY <1>1, <1>15 DEF Serving, WaitersServed, ShutdownOutlastsWaiters, Cy_EventSignal
<1> QED
  BY <1>13, <1>14, <1>16, <1>17 DEF Serving, WaitersServed

\* An event is reset.
LEMMA ServingReset ==
  ASSUME Serving, NEW t \in Callers, Cy_EventReset(t)
  PROVE  Serving'
<1>1. doing' = doing /\ wakes' = wakes /\ nCount' = 0 /\ nWaiterCount' = nWaiterCount /\ objectOpen
  BY DEF Cy_EventReset
<1>2. /\ Asleep' = Asleep /\ Woken' = Woken /\ Closers' = Closers
      /\ Doing({"closing"})' = Doing({"closing"})
  BY <1>1, DoingKept
<1>3. WaitShape'
  BY <1>1, <1>2 DEF Serving, WaitShape, Cy_EventReset
<1>4. WaitersServed'
  BY <1>1, <1>2
  DEF Serving, WaitShape, WaitersServed, PermitsAccountedFor, NobodyOversleeps, ShutdownOutlastsWaiters, Cy_EventReset
<1> QED
  BY <1>3, <1>4 DEF Serving

\* A permit is taken without waiting.
LEMMA ServingTry ==
  ASSUME Serving, NEW t \in Callers, Cy_TryWait(t)
  PROVE  Serving'
<1>1. doing' = doing /\ wakes' = wakes /\ nWaiterCount' = nWaiterCount /\ objectOpen /\ nCount > 0
  BY DEF Cy_TryWait
<1>2. /\ Asleep' = Asleep /\ Woken' = Woken /\ Closers' = Closers
      /\ Doing({"closing"})' = Doing({"closing"})
      /\ Doing({"notifyingAll"})' = Doing({"notifyingAll"})
  BY <1>1, DoingKept
<1>3. Notifications' = Notifications
  BY <1>1, NotificationsKept
<1>4. /\ nCount \in Nat /\ nCount' \in Nat /\ nCount' = IF kind = "manual" THEN nCount ELSE nCount - 1
      /\ nCount' \in 0 .. nMaxCount /\ taken' = taken + 1 /\ taken \in Nat /\ kind' = kind
      /\ given' = given /\ given \in Nat /\ objectOpen' = objectOpen
  BY <1>1 DEF Cy_TryWait, Consumed, Serving, WaitShape
<1>5. Cardinality(Notifications) \in Nat /\ Cardinality(Woken) \in Nat
  BY WaitingCounted DEF Counted
<1>6. WaitShape'
  BY <1>1, <1>2, <1>4 DEF Serving, WaitShape, Cy_TryWait
<1>7. PermitsAccountedFor'
  BY <1>1, <1>4 DEF Serving, WaitersServed, PermitsAccountedFor
<1>8. NobodyOversleeps'
  BY <1>1, <1>2, <1>3, <1>4, <1>5 DEF Serving, WaitersServed, NobodyOversleeps
<1>9. ShutdownOutlastsWaiters'
  BY <1>1, <1>4 DEF ShutdownOutlastsWaiters, Serving, WaitersServed, WaitShape, Closers, Doing
<1> QED
  BY <1>6, <1>7, <1>8, <1>9 DEF Serving, WaitersServed

\* One wake-up reaches a sleeper, or nobody.
LEMMA ServingNotifyOne ==
  ASSUME Serving, NEW t \in Callers, NotifyOne(t)
  PROVE  Serving'
<1> DEFINE after == IF wakes[t] = 1 THEN "idle" ELSE "notifying"
<1>1. /\ doing[t] = "notifying" /\ wakes' = [wakes EXCEPT ![t] = @ - 1]
      /\ after \in Activities /\ after \in {"idle", "notifying"}
      /\ after = "idle" <=> wakes[t] = 1
  BY DEF NotifyOne, Activities
<1>2. \/ Sleepers = {} /\ doing' = [doing EXCEPT ![t] = after]
      \/ \E s \in Sleepers : doing' = [doing EXCEPT ![t] = after, ![s] = WokenFrom(@)]
  BY DEF NotifyOne
<1> HIDE DEF after
<1>3. /\ wakes[t] \in 1 .. PermitsMax
      /\ wakes' \in [Callers -> 0 .. PermitsMax]
      /\ \A u \in Callers : wakes'[u] = IF u = t THEN wakes[t] - 1 ELSE wakes[u]
  BY <1>1, WaitObjectAssumption DEF Serving, WaitShape
<1>4. ~objectOpen => Asleep = {}
  BY DEF Serving, WaitersServed, ShutdownOutlastsWaiters
<1>5. /\ IsFiniteSet(Asleep) /\ Cardinality(Asleep) \in Nat
      /\ IsFiniteSet(Woken) /\ Cardinality(Woken) \in Nat
      /\ Cardinality(Notifications) \in Nat
      /\ (Cardinality(Asleep) = 0 <=> Asleep = {})
  BY WaitingCounted DEF Counted
<1> DEFINE woke == /\ doing' \in [Callers -> Activities]
                   /\ \A u \in Callers : doing'[u] \in {"notifying", "notifyingAll"} <=>
                        IF u = t THEN after = "notifying" ELSE doing[u] \in {"notifying", "notifyingAll"}
                   /\ doing'[t] = after
                   /\ \A u \in Callers \ {t} : doing'[u] = "notifying" <=> doing[u] = "notifying"
                   /\ Doing({"notifyingAll"})' = Doing({"notifyingAll"})
                   /\ Closers' = Closers
                   /\ \A u \in Doing({"closing"})' : u \in Doing({"closing"})
                   /\ \/ Asleep = {} /\ Asleep' = Asleep /\ Woken' = Woken
                      \/ \E s \in Asleep \ Woken : Asleep' = Asleep \ {s} /\ Woken' = Woken \cup {s} /\ objectOpen
<1>6. woke
  <2>1. CASE Sleepers = {} /\ doing' = [doing EXCEPT ![t] = after]
    <3>1. /\ doing' \in [Callers -> Activities]
          /\ \A u \in Callers : doing'[u] = IF u = t THEN after ELSE doing[u]
      BY <1>1, <2>1 DEF Serving, WaitShape
    <3>2. Asleep = {} /\ Asleep' = {} /\ Woken' = Woken
      BY <1>1, <2>1, <3>1 DEF Sleepers, Asleep, Woken, Doing
    <3>3. Doing({"notifyingAll"})' = Doing({"notifyingAll"}) /\ Closers' = Closers
          /\ Doing({"closing"})' = Doing({"closing"})
      BY <1>1, <3>1 DEF Closers, Doing
    <3> QED
      BY <1>1, <3>1, <3>2, <3>3
  <2>2. ASSUME NEW s \in Sleepers, doing' = [doing EXCEPT ![t] = after, ![s] = WokenFrom(@)]
        PROVE  woke
    <3>1. s \in Callers /\ doing[s] \in {"asleep", "asleepTimed", "closing"} /\ s # t
      BY <1>1 DEF Sleepers, Asleep, Doing
    <3>2. WokenFrom(doing[s]) \in {"woken", "wokenTimed", "closingWoken"}
          /\ (WokenFrom(doing[s]) = "closingWoken" <=> doing[s] = "closing")
          /\ WokenFrom(doing[s]) \in Activities
      BY <3>1 DEF WokenFrom, Activities
    <3>3. /\ doing' \in [Callers -> Activities]
          /\ \A u \in Callers :
               doing'[u] = IF u = s THEN WokenFrom(doing[s]) ELSE IF u = t THEN after ELSE doing[u]
      BY <1>1, <2>2, <3>1, <3>2 DEF Serving, WaitShape
    <3>4. \A u \in Callers :
            /\ doing'[u] \in {"notifying", "notifyingAll"} <=>
                 IF u = t THEN after = "notifying" ELSE doing[u] \in {"notifying", "notifyingAll"}
            /\ u # t => (doing'[u] = "notifying" <=> doing[u] = "notifying")
      BY <1>1, <3>1, <3>2, <3>3
    <3>5. Doing({"notifyingAll"})' = Doing({"notifyingAll"}) /\ Closers' = Closers
          /\ \A u \in Doing({"closing"})' : u \in Doing({"closing"})
      BY <1>1, <3>1, <3>2, <3>3 DEF Closers, Doing
    <3>6. CASE doing[s] = "closing"
      <4>1. ~objectOpen
        BY <3>1, <3>6 DEF Serving, WaitShape, Closers, Doing
      <4>2. Asleep' = Asleep /\ Woken' = Woken
        BY <1>1, <3>1, <3>2, <3>3, <3>6 DEF Asleep, Woken, Doing
      <4> QED
        BY <1>4, <3>1, <3>3, <3>4, <3>5, <4>1, <4>2
    <3>7. CASE doing[s] # "closing"
      <4>1. s \in Asleep \ Woken
        BY <3>1, <3>7 DEF Asleep, Woken, Doing
      <4>2. Asleep' = Asleep \ {s} /\ Woken' = Woken \cup {s}
        BY <1>1, <3>1, <3>2, <3>3, <3>7 DEF Asleep, Woken, Doing
      <4> QED
        BY <1>4, <3>1, <3>3, <3>4, <3>5, <4>1, <4>2
    <3> QED
      BY <3>6, <3>7
  <2> QED
    BY <1>2, <2>1, <2>2
<1>7. Cardinality(Notifications') = Cardinality(Notifications) - 1
  BY <1>1, <1>6, NotificationSent DEF Serving, after
<1>8. \/ Asleep = {} /\ Asleep' = Asleep /\ Woken' = Woken
      \/ /\ Cardinality(Asleep') = Cardinality(Asleep) - 1
         /\ Cardinality(Woken') = Cardinality(Woken) + 1
  <2>1. ASSUME NEW s \in Asleep \ Woken, Asleep' = Asleep \ {s}, Woken' = Woken \cup {s}
        PROVE  /\ Cardinality(Asleep') = Cardinality(Asleep) - 1
               /\ Cardinality(Woken') = Cardinality(Woken) + 1
    BY <1>5, <2>1, FS_AddElement, FS_RemoveElement
  <2> QED
    BY <1>6, <2>1
<1>9. nWaiterCount' = Cardinality(Asleep') + Cardinality(Woken')
  BY <1>5, <1>8 DEF NotifyOne, Serving, WaitShape
<1>10. \A u \in Callers : wakes'[u] > 0 <=> doing'[u] \in {"notifying", "notifyingAll"}
  <2>1. wakes[t] - 1 > 0 <=> after = "notifying"
    BY <1>1, <1>3
  <2> QED
    BY <1>3, <1>6, <2>1 DEF Serving, WaitShape
<1>11. WaitShape'
  BY <1>3, <1>6, <1>9, <1>10 DEF Serving, WaitShape, NotifyOne
<1>12. PermitsAccountedFor'
  BY DEF Serving, WaitersServed, PermitsAccountedFor, NotifyOne
<1>13. Asleep' # {} => Asleep # {}
  BY <1>6
<1>14. nCount \in Nat
  BY DEF Serving, WaitShape
<1>15. NobodyOversleeps'
  BY <1>5, <1>6, <1>7, <1>8, <1>13, <1>14 DEF Serving, WaitersServed, NobodyOversleeps, NotifyOne
<1>16. ~objectOpen => Asleep' = {}
  BY <1>4, <1>6
<1>17. ShutdownOutlastsWaiters'
  BY <1>6, <1>16 DEF Serving, WaitersServed, ShutdownOutlastsWaiters, NotifyOne, Closers
<1> QED
  BY <1>11, <1>12, <1>15, <1>17 DEF Serving, WaitersServed

\* A wake-up reaches all sleepers.
LEMMA ServingNotifyAll ==
  ASSUME Serving, NEW t \in Callers, NotifyAll(t)
  PROVE  Serving'
<1>1. /\ doing[t] = "notifyingAll" /\ wakes' = [wakes EXCEPT ![t] = 0]
      /\ doing' = [AllWoken(doing) EXCEPT ![t] = "idle"]
  BY DEF NotifyAll
<1>2. /\ doing' \in [Callers -> Activities]
      /\ \A u \in Callers : doing'[u] = IF u = t THEN "idle" ELSE WokenFrom(doing[u])
      /\ Asleep' = {}
      /\ Woken' = (Asleep \cup Woken) \ {t}
      /\ Closers' = Closers \ {t}
      /\ Doing({"closing"})' = {}
  BY <1>1, AllMove DEF Serving
<1>3. t \notin Asleep \cup Woken /\ t \notin Closers
  BY <1>1 DEF Asleep, Woken, Closers, Doing
<1>4. Woken' = Asleep \cup Woken /\ Closers' = Closers
  BY <1>2, <1>3
<1>5. nWaiterCount' = Cardinality(Asleep') + Cardinality(Woken')
  <2>1. Cardinality(Asleep') = 0
    BY <1>2, FS_EmptySet, Zenon
  <2>2. Cardinality(Woken') = Cardinality(Asleep \cup Woken)
    BY <1>4, Zenon
  <2> QED
    BY <2>1, <2>2, WaitingCounted DEF Counted, Serving, WaitShape, NotifyAll
<1>6. /\ wakes' \in [Callers -> 0 .. PermitsMax]
      /\ \A u \in Callers : wakes'[u] = IF u = t THEN 0 ELSE wakes[u]
  BY <1>1, WaitObjectAssumption DEF Serving, WaitShape
<1>7. \A u \in Callers : wakes'[u] > 0 <=> doing'[u] \in {"notifying", "notifyingAll"}
  BY <1>2, <1>6 DEF Serving, WaitShape, WokenFrom, Activities
<1>8. WaitShape'
  BY <1>2, <1>4, <1>5, <1>6, <1>7 DEF Serving, WaitShape, NotifyAll
<1>9. WaitersServed'
  BY <1>2, <1>4
  DEF Serving, WaitersServed, PermitsAccountedFor, NobodyOversleeps, ShutdownOutlastsWaiters, NotifyAll, Closers
<1> QED
  BY <1>8, <1>9 DEF Serving

\* A caller goes to sleep because no permit is left.
LEMMA ServingSleeps ==
  ASSUME Serving, NEW t \in Callers, NEW isTimed \in BOOLEAN, WaitSleeps(t, isTimed)
  PROVE  Serving'
<1> DEFINE to == IF isTimed THEN "asleepTimed" ELSE "asleep"
<1>1. /\ doing[t] = "idle" /\ objectOpen /\ nCount = 0
      /\ doing' = [doing EXCEPT ![t] = to]
      /\ to \in Activities /\ to \in {"asleep", "asleepTimed"}
  BY DEF WaitSleeps, Activities
<1> HIDE DEF to
<1>2. t \notin Asleep \cup Woken /\ t \notin Closers
  BY <1>1 DEF Asleep, Woken, Closers, Doing
<1>3. Cardinality(Asleep') = Cardinality(Asleep) + 1 /\ Woken' = Woken
  BY <1>1, <1>2, WaitersMove DEF Serving
<1>4. /\ doing' \in [Callers -> Activities]
      /\ \A u \in Callers : doing'[u] = IF u = t THEN to ELSE doing[u]
      /\ Closers' = Closers \ {t}
  BY <1>1, OneMoves DEF Serving
<1>5. Closers' = Closers
  BY <1>2, <1>4
<1>6. nWaiterCount' = Cardinality(Asleep') + Cardinality(Woken')
  BY <1>3, WaitingCounted DEF Counted, WaitSleeps, Serving, WaitShape
<1>7. \A u \in Callers : wakes[u] > 0 <=> doing'[u] \in {"notifying", "notifyingAll"}
  BY <1>1, <1>4 DEF Serving, WaitShape
<1>8. WaitShape'
  BY <1>1, <1>4, <1>5, <1>6, <1>7 DEF Serving, WaitShape, WaitSleeps
<1>9. Doing({"closing"})' = {}
  BY <1>1, <1>5 DEF Serving, WaitShape, Closers, Doing
<1>10. WaitersServed'
  BY <1>1, <1>9
  DEF Serving, WaitersServed, PermitsAccountedFor, NobodyOversleeps, ShutdownOutlastsWaiters, WaitSleeps
<1> QED
  BY <1>8, <1>10 DEF Serving

\* A sleeper wakes without being notified, or by its timeout.
LEMMA ServingUnasked ==
  ASSUME Serving, NEW t \in Callers, WakesUnasked(t)
  PROVE  Serving'
<1>1. PICK to \in {"woken", "wokenTimed", "late", "closingWoken"} :
        /\ doing[t] \in {"asleep", "asleepTimed", "closing"}
        /\ doing' = [doing EXCEPT ![t] = to]
        /\ to = "closingWoken" <=> doing[t] = "closing"
  BY DEF WakesUnasked, WokenFrom
<1>2. to \in Activities
  BY DEF Activities
<1>3. /\ doing' \in [Callers -> Activities]
      /\ \A u \in Callers : doing'[u] = IF u = t THEN to ELSE doing[u]
      /\ Closers' = IF to \in {"closing", "closingWoken"} THEN Closers \cup {t} ELSE Closers \ {t}
      /\ Asleep' = Asleep \ {t}
  BY <1>1, <1>2, OneMoves DEF Serving
<1>4. Closers' = Closers
  BY <1>1, <1>3 DEF Closers, Doing
<1>5. \/ Asleep' = Asleep /\ Woken' = Woken
      \/ /\ Cardinality(Asleep') = Cardinality(Asleep) - 1
         /\ Cardinality(Woken') = Cardinality(Woken) + 1
  <2>1. CASE doing[t] = "closing"
    <3>1. t \notin Asleep \cup Woken
      BY <2>1 DEF Asleep, Woken, Doing
    <3> QED
      BY <1>1, <1>2, <2>1, <3>1, WaitersMove DEF Serving
  <2>2. CASE doing[t] # "closing"
    BY <1>1, <1>2, <2>2, WaitersMove DEF Serving
  <2> QED
    BY <2>1, <2>2
<1>6. /\ Cardinality(Asleep) \in Nat /\ Cardinality(Woken) \in Nat
      /\ Cardinality(Notifications) \in Nat /\ nCount \in Nat
  BY WaitingCounted DEF Counted, Serving, WaitShape
<1>7. nWaiterCount' = Cardinality(Asleep') + Cardinality(Woken')
  BY <1>5, <1>6 DEF Serving, WaitShape, WakesUnasked
<1>8. /\ \A u \in Callers : wakes[u] > 0 <=> doing'[u] \in {"notifying", "notifyingAll"}
      /\ \A u \in Callers : doing'[u] = "notifying" <=> doing[u] = "notifying"
  BY <1>1, <1>3 DEF Serving, WaitShape
<1>9. WaitShape'
  BY <1>3, <1>4, <1>7, <1>8 DEF Serving, WaitShape, WakesUnasked
<1>10. Notifications' = Notifications
  BY <1>8, NotificationsKept DEF WakesUnasked
<1>11. /\ Doing({"notifyingAll"})' = Doing({"notifyingAll"})
       /\ \A u \in Doing({"closing"})' : u \in Doing({"closing"})
  BY <1>1, <1>3 DEF Doing
<1>12. Asleep' # {} => Asleep # {}
  BY <1>3
<1>13. NobodyOversleeps'
  BY <1>5, <1>6, <1>10, <1>11, <1>12 DEF Serving, WaitersServed, NobodyOversleeps, WakesUnasked
<1>14. ShutdownOutlastsWaiters'
  BY <1>4, <1>11, <1>12 DEF Serving, WaitersServed, ShutdownOutlastsWaiters, WakesUnasked, Closers
<1> QED
  BY <1>9, <1>13, <1>14 DEF Serving, WaitersServed, PermitsAccountedFor, WakesUnasked

\* A waiter that was woken finds nothing and sleeps on.
LEMMA ServingGoesOn ==
  ASSUME Serving, NEW t \in Callers, WaitGoesOn(t)
  PROVE  Serving'
<1> DEFINE to == IF doing[t] = "woken" THEN "asleep" ELSE "asleepTimed"
<1>1. /\ doing[t] \in {"woken", "wokenTimed"} /\ objectOpen /\ nCount = 0
      /\ doing' = [doing EXCEPT ![t] = to]
      /\ to \in Activities /\ to \in {"asleep", "asleepTimed"}
  BY DEF WaitGoesOn, Activities
<1> HIDE DEF to
<1>2. t \notin Closers
  BY <1>1 DEF Closers, Doing
<1>3. Cardinality(Asleep') = Cardinality(Asleep) + 1 /\ Cardinality(Woken') = Cardinality(Woken) - 1
  BY <1>1, WaitersMove DEF Serving
<1>4. /\ doing' \in [Callers -> Activities]
      /\ \A u \in Callers : doing'[u] = IF u = t THEN to ELSE doing[u]
      /\ Closers' = Closers \ {t}
  BY <1>1, OneMoves DEF Serving
<1>5. Closers' = Closers
  BY <1>2, <1>4
<1>6. nWaiterCount' = Cardinality(Asleep') + Cardinality(Woken')
  BY <1>3, WaitingCounted DEF Counted, WaitGoesOn, Serving, WaitShape
<1>7. \A u \in Callers : wakes[u] > 0 <=> doing'[u] \in {"notifying", "notifyingAll"}
  BY <1>1, <1>4 DEF Serving, WaitShape
<1>8. WaitShape'
  BY <1>1, <1>4, <1>5, <1>6, <1>7 DEF Serving, WaitShape, WaitGoesOn
<1>9. Doing({"closing"})' = {}
  BY <1>1, <1>5 DEF Serving, WaitShape, Closers, Doing
<1>10. WaitersServed'
  BY <1>1, <1>9
  DEF Serving, WaitersServed, PermitsAccountedFor, NobodyOversleeps, ShutdownOutlastsWaiters, WaitGoesOn
<1> QED
  BY <1>8, <1>10 DEF Serving

\* A waiter leaves, with a permit or without.
LEMMA ServingEnds ==
  ASSUME Serving, NEW t \in Callers, WaitEnds(t)
  PROVE  Serving'
<1>1. /\ t \in Woken /\ doing' = WaiterLeft(t) /\ nWaiterCount' = nWaiterCount - 1
      /\ UNCHANGED <<kind, objectOpen, nMaxCount, wakes, given>>
  BY DEF WaitEnds
<1>2. doing[t] \in {"woken", "wokenTimed", "late"} /\ t \notin Closers /\ t \notin Asleep
  BY <1>1 DEF Woken, Closers, Asleep, Doing
<1>3. /\ IsFiniteSet(Asleep) /\ Cardinality(Asleep) \in Nat
      /\ IsFiniteSet(Woken) /\ Cardinality(Woken) \in Nat
      /\ Cardinality(Notifications) \in Nat
      /\ (Cardinality(Asleep) = 0 <=> Asleep = {})
      /\ nWaiterCount = Cardinality(Asleep) + Cardinality(Woken)
      /\ nCount \in Nat /\ taken \in Nat /\ given \in Nat
  BY WaitingCounted DEF Counted, Serving, WaitShape
<1>4. Cardinality(Woken \ {t}) = Cardinality(Woken) - 1 /\ Cardinality(Woken) - 1 \in Nat
  <2>1. Cardinality(Woken \ {t}) = Cardinality(Woken) - 1
    BY <1>1, <1>3, FS_RemoveElement
  <2>2. IsFiniteSet(Woken \ {t})
    BY <1>3, FS_Subset
  <2> QED
    BY <2>1, <2>2, FS_CardinalityType
<1>5. ~objectOpen => Asleep = {}
  BY DEF Serving, WaitersServed, ShutdownOutlastsWaiters
<1> DEFINE left == /\ doing' \in [Callers -> Activities]
                   /\ \A u \in Callers : doing'[u] = IF u = t THEN "idle"
                        ELSE IF ~objectOpen /\ nWaiterCount = 1 THEN WokenFrom(doing[u]) ELSE doing[u]
                   /\ Asleep' = Asleep /\ Woken' = Woken \ {t} /\ Closers' = Closers
                   /\ Doing({"notifyingAll"})' = Doing({"notifyingAll"})
                   /\ \A u \in Doing({"closing"})' : u \in Doing({"closing"})
                   /\ ~objectOpen /\ nWaiterCount = 1 => Doing({"closing"})' = {}
                   /\ \A u \in Callers :
                        /\ doing'[u] = "notifying" <=> doing[u] = "notifying"
                        /\ doing'[u] = "notifyingAll" <=> doing[u] = "notifyingAll"
<1>6. left
  <2>1. CASE ~objectOpen /\ nWaiterCount = 1
    <3>1. doing' = [AllWoken(doing) EXCEPT ![t] = "idle"]
      BY <1>1, <2>1 DEF WaiterLeft
    <3>2. /\ doing' \in [Callers -> Activities]
          /\ \A u \in Callers : doing'[u] = IF u = t THEN "idle" ELSE WokenFrom(doing[u])
          /\ Asleep' = {}
          /\ Woken' = (Asleep \cup Woken) \ {t}
          /\ Closers' = Closers \ {t}
          /\ Doing({"closing"})' = {}
      BY <1>2, <3>1, AllMove DEF Serving
    <3>3. Asleep' = Asleep /\ Woken' = Woken \ {t} /\ Closers' = Closers
      BY <1>2, <1>5, <2>1, <3>2
    <3>4. \A u \in Callers : /\ WokenFrom(doing[u]) = "notifying" <=> doing[u] = "notifying"
                             /\ WokenFrom(doing[u]) = "notifyingAll" <=> doing[u] = "notifyingAll"
      BY DEF WokenFrom
    <3>5. \A u \in Callers : /\ doing'[u] = "notifying" <=> doing[u] = "notifying"
                             /\ doing'[u] = "notifyingAll" <=> doing[u] = "notifyingAll"
      BY <1>2, <3>2, <3>4
    <3>6. Doing({"notifyingAll"})' = Doing({"notifyingAll"})
      BY <3>5 DEF Doing
    <3> QED
      BY <2>1, <3>2, <3>3, <3>5, <3>6
  <2>2. CASE ~(~objectOpen /\ nWaiterCount = 1)
    <3>1. doing' = [doing EXCEPT ![t] = "idle"] /\ "idle" \in Activities
      BY <1>1, <2>2 DEF WaiterLeft, Activities
    <3>2. /\ doing' \in [Callers -> Activities]
          /\ \A u \in Callers : doing'[u] = IF u = t THEN "idle" ELSE doing[u]
          /\ Asleep' = Asleep \ {t} /\ Woken' = Woken \ {t} /\ Closers' = Closers \ {t}
      BY <3>1, OneMoves DEF Serving
    <3>3. Asleep' = Asleep /\ Closers' = Closers
      BY <1>2, <3>2
    <3>5. \A u \in Callers : /\ doing'[u] = "notifying" <=> doing[u] = "notifying"
                             /\ doing'[u] = "notifyingAll" <=> doing[u] = "notifyingAll"
                             /\ doing'[u] = "closing" <=> doing[u] = "closing"
      BY <1>2, <3>2
    <3>6. Doing({"notifyingAll"})' = Doing({"notifyingAll"}) /\ Doing({"closing"})' = Doing({"closing"})
      BY <3>5 DEF Doing
    <3> QED
      BY <2>2, <3>2, <3>3, <3>5, <3>6
  <2> QED
    BY <2>1, <2>2
<1>7. nWaiterCount' = Cardinality(Asleep') + Cardinality(Woken')
      /\ nWaiterCount' \in Nat /\ Cardinality(Woken') = Cardinality(Woken) - 1
  BY <1>1, <1>3, <1>4, <1>6
<1>8. \/ /\ objectOpen /\ nCount > 0 /\ nCount' = Consumed /\ taken' = taken + 1
      \/ /\ ~(objectOpen /\ nCount > 0) /\ nCount' = nCount /\ taken' = taken
  BY DEF WaitEnds
<1>9. /\ taken' \in Nat /\ nCount' \in 0 .. nMaxCount
      /\ objectOpen /\ nCount > 0 => nCount' = IF kind = "manual" THEN nCount ELSE nCount - 1
  BY <1>3, <1>8 DEF Consumed, Serving, WaitShape
<1>10. \A u \in Callers : wakes[u] > 0 <=> doing'[u] \in {"notifying", "notifyingAll"}
  BY <1>6 DEF Serving, WaitShape
<1>11. WaitShape'
  BY <1>1, <1>6, <1>7, <1>9, <1>10 DEF Serving, WaitShape
<1>12. PermitsAccountedFor'
  BY <1>1, <1>3, <1>8 DEF Consumed, Serving, WaitersServed, PermitsAccountedFor
<1>13. Notifications' = Notifications
  BY <1>1, <1>6, NotificationsKept
<1>14. NobodyOversleeps'
  BY <1>1, <1>3, <1>6, <1>7, <1>8, <1>9, <1>13 DEF Serving, WaitersServed, NobodyOversleeps
<1>15. ShutdownOutlastsWaiters'
  <2>1. Doing({"closing", "closingWoken"})' = {} /\ ~objectOpen' => nWaiterCount' = 0
    BY <1>1, <1>3, <1>6, <1>7 DEF Serving, WaitersServed, ShutdownOutlastsWaiters, Closers
  <2>2. Doing({"closing"})' # {} => nWaiterCount' > 0
    <3>1. Doing({"closing"})' # {} => Doing({"closing"}) # {} /\ ~objectOpen /\ nWaiterCount # 1
      BY <1>6 DEF Serving, WaitShape, Closers, Doing
    <3>2. Doing({"closing"}) # {} => nWaiterCount > 0
      BY DEF Serving, WaitersServed, ShutdownOutlastsWaiters
    <3> QED
      <4>1. nWaiterCount' > 0 <=> nWaiterCount > 1
        BY <1>1, <1>3
      <4>2. nWaiterCount > 0 /\ nWaiterCount # 1 => nWaiterCount > 1
        BY <1>3
      <4> QED
        BY <3>1, <3>2, <4>1, <4>2
  <2> QED
    BY <1>1, <1>5, <1>6, <2>1, <2>2 DEF ShutdownOutlastsWaiters
<1> QED
  BY <1>11, <1>12, <1>14, <1>15 DEF Serving, WaitersServed

\* Every step keeps the invariant.
LEMMA ServingSteps == Serving /\ [BNext]_bvars => Serving'
<1> SUFFICES ASSUME Serving, [BNext]_bvars PROVE Serving'
  OBVIOUS
<1>1. ASSUME UNCHANGED bvars PROVE Serving'
  <2>1. doing' = doing /\ wakes' = wakes
    BY <1>1 DEF bvars
  <2>2. /\ Asleep' = Asleep /\ Woken' = Woken /\ Closers' = Closers
        /\ Doing({"notifyingAll"})' = Doing({"notifyingAll"})
        /\ Doing({"closing"})' = Doing({"closing"})
    BY <2>1, DoingKept
  <2>3. Notifications' = Notifications
    BY <2>1, NotificationsKept
  <2> QED
    BY <1>1, <2>2, <2>3
    DEF bvars, Serving, WaitShape, WaitersServed, PermitsAccountedFor, NobodyOversleeps,
        ShutdownOutlastsWaiters, Closers
<1>2. CASE BNext
  <2>1. ASSUME NEW t \in Callers,
               \/ ObjectShutdown(t) \/ ShutdownWakes(t)
               \/ \E n \in 1 .. PermitsMax : Cy_SemaphorePost(t, n)
               \/ Cy_EventSignal(t) \/ Cy_EventReset(t)
               \/ NotifyOne(t) \/ NotifyAll(t)
               \/ Cy_TryWait(t) \/ \E isTimed \in BOOLEAN : WaitSleeps(t, isTimed)
               \/ WakesUnasked(t) \/ WaitEnds(t) \/ WaitGoesOn(t)
        PROVE  Serving'
    BY <2>1, ServingShutdown, ServingCloserWakes, ServingPost, ServingSignal, ServingReset,
       ServingNotifyOne, ServingNotifyAll, ServingTry, ServingSleeps, ServingUnasked,
       ServingEnds, ServingGoesOn
  <2>2. ASSUME NEW k \in {"semaphore", "auto", "manual"}, NEW limit \in 1 .. PermitsMax,
               NEW count \in 0 .. limit, ObjectInit(k, count, limit)
        PROVE  Serving'
    BY <2>2, ServingInit
  <2> QED
    BY <1>2, <2>1, <2>2 DEF BNext
<1> QED
  BY <1>1, <1>2

\* No permit is lost or made up, nobody sleeps while a permit is there that no wake-up is
\* on its way for, and a shutdown is not left waiting for waiters that have gone:
\* for any number of callers and permits, however waits time out or wake unasked.
THEOREM WaitersAlwaysServed == BSpec => []WaitersServed
<1>1. Serving => WaitersServed
  BY DEF Serving
<1> QED
  BY <1>1, ServingStarts, ServingSteps, PTL DEF BSpec

\* For any number of callers and permits the object keeps its shape.
THEOREM WaitObjectTyped == BSpec => []BTypeOK
<1>1. Serving => BTypeOK
  <2> SUFFICES ASSUME Serving PROVE BTypeOK
    OBVIOUS
  <2>1. nWaiterCount = Cardinality(Asleep \cup Woken)
    BY WaitingCounted DEF Counted, Serving, WaitShape
  <2>2. Cardinality(Closers) <= 1
    <3>1. CASE Closers = {}
      <4>1. Cardinality(Closers) = 0
        BY <3>1, FS_EmptySet, Zenon
      <4> QED
        BY <4>1
    <3>2. CASE Closers # {}
      <4>1. PICK t \in Closers : TRUE
        BY <3>2
      <4>2. Closers = {t}
        BY DEF Serving, WaitShape
      <4> QED
        <5>1. Cardinality(Closers) = 1
          BY <4>2, FS_Singleton, Zenon
        <5> QED
          BY <5>1
    <3> QED
      BY <3>1, <3>2
  <2>3. wakes \in [Callers -> Nat]
    BY WaitObjectAssumption DEF Serving, WaitShape
  <2> QED
    BY <2>1, <2>2, <2>3 DEF BTypeOK, Serving, WaitShape, Closers
<1> QED
  BY <1>1, ServingStarts, ServingSteps, PTL DEF BSpec

-----------------------------------------------------------------------------
(* The intrusive list. *)

\* What a stack says of the links below it.
Chained(l) ==
  /\ pHead[l] = Below(l, Len(stack[l]) + 1)
  /\ \A i \in 1 .. Len(stack[l]) : pNext[stack[l][i]] = Below(l, i)
  /\ \A i, j \in 1 .. Len(stack[l]) : stack[l][i] = stack[l][j] => i = j
  /\ \A i \in 1 .. Len(stack[l]) : pOwner[stack[l][i]] = l

\* Who is owned by a list without being on its stack: the node in the hands of the
\* thread that works on the list.
Accounted(l) ==
  /\ \A n \in Nodes : pOwner[n] = l => n = task[l].node \/ \E i \in 1 .. Len(stack[l]) : stack[l][i] = n
  /\ task[l].step = "unlocked" => task[l].node = NoNode
  /\ task[l].step # "unlocked" =>
       /\ task[l].node \in Nodes /\ pOwner[task[l].node] = l
       /\ \A i \in 1 .. Len(stack[l]) : stack[l][i] # task[l].node
  /\ task[l].step \in {"link", "release"} => pNext[task[l].node] = NoNode
  /\ task[l].step = "publish" => pNext[task[l].node] = pHead[l]
  /\ nNodes[l] = Len(stack[l]) + (IF task[l].step \in {"clear", "release"} THEN 1 ELSE 0)

\* A node without an owner points nowhere.
NobodysNodes == \A n \in Nodes : pOwner[n] = NoList => pNext[n] = NoNode

\* The inductive invariant of TsList.
Linking ==
  /\ LTypeOK /\ NobodysNodes
  /\ \A l \in Lists : Chained(l) /\ Accounted(l)

\* The invariant holds initially.
LEMMA LinkingStarts == LInit => Linking
<1> SUFFICES ASSUME LInit PROVE Linking
  OBVIOUS
<1> USE DEF LInit, Unlocked, Engaged
<1>1. LTypeOK
  BY DEF LTypeOK
<1>2. NobodysNodes
  BY DEF NobodysNodes
<1>3. \A l \in Lists : Chained(l) /\ Accounted(l)
  BY TsListAssumption DEF Chained, Accounted, Below
<1>4. QED
  BY <1>1, <1>2, <1>3 DEF Linking

\* Every step keeps the types.
LEMMA TypeKept == Linking /\ [LNext]_lvars => LTypeOK'
<1> SUFFICES ASSUME Linking, [LNext]_lvars PROVE LTypeOK'
  OBVIOUS
<1> USE DEF LTypeOK, Linking, Engaged
<1>1. CASE UNCHANGED lvars
  BY <1>1 DEF lvars
<1>2. CASE LNext
  <2>1. PICK l \in Lists :
          \/ Cy_TsListInit(l) \/ Cy_TsListShutdown(l)
          \/ \E n \in Nodes : PushClaims(l, n)
          \/ PushSetsNext(l) \/ PushEnds(l) \/ PopTakes(l) \/ PopGoesOn(l)
    BY <1>2 DEF LNext
  <2>2. CASE Cy_TsListInit(l) \/ Cy_TsListShutdown(l)
    BY <2>2 DEF Cy_TsListInit, Cy_TsListShutdown
  <2>3. CASE \E n \in Nodes : PushClaims(l, n)
    BY <2>3 DEF PushClaims
  <2>4. CASE PushSetsNext(l)
    BY <2>4 DEF PushSetsNext
  <2>5. CASE PushEnds(l)
    <3>1. task[l].node \in Nodes
      BY <2>5 DEF PushEnds, Accounted
    <3>2. Append(stack[l], task[l].node) \in Seq(Nodes)
      BY <3>1
    <3>3. QED
      BY <2>5, <3>1, <3>2 DEF PushEnds, Unlocked
  <2>6. CASE PopTakes(l)
    <3>1. Len(stack[l]) # 0
      BY <2>6 DEF PopTakes, Chained, Below
    <3>2. Front(stack[l]) \in Seq(Nodes)
      BY <3>1 DEF Front
    <3>3. pHead[l] \in Nodes
      BY <2>6 DEF PopTakes
    <3>4. QED
      BY <2>6, <3>2, <3>3 DEF PopTakes
  <2>7. CASE PopGoesOn(l)
    <3>1. nNodes[l] - 1 \in Nat
      BY <2>7 DEF PopGoesOn, Accounted
    <3>2. task[l].node \in Nodes
      BY <2>7 DEF PopGoesOn, Accounted
    <3>3. CASE task[l].step = "clear"
      <4>1. pNext' = [pNext EXCEPT ![task[l].node] = NoNode] /\ task' = [task EXCEPT ![l] = Engaged("release", task[l].node)]
            /\ UNCHANGED <<listOpen, pHead, nNodes, pOwner, stack>>
        BY <2>7, <3>3 DEF PopGoesOn, OwnerGoes
      <4>2. QED
        BY <3>2, <4>1
    <3>4. CASE task[l].step = "release"
      <4>1. pOwner' = [pOwner EXCEPT ![task[l].node] = NoList] /\ task' = [task EXCEPT ![l] = Unlocked]
            /\ nNodes' = [nNodes EXCEPT ![l] = @ - 1]
            /\ UNCHANGED <<listOpen, pHead, pNext, stack>>
        BY <2>7, <3>4 DEF PopGoesOn, OwnerGoes
      <4>2. QED
        BY <3>1, <3>2, <4>1 DEF Unlocked
    <3>5. QED
      BY <2>7, <3>3, <3>4 DEF PopGoesOn
  <2>8. QED
    BY <2>1, <2>2, <2>3, <2>4, <2>5, <2>6, <2>7
<1>3. QED
  BY <1>1, <1>2

\* The parts of the invariant at one list.
LEMMA ListShape ==
  ASSUME Linking, NEW l \in Lists
  PROVE  /\ Chained(l) /\ Accounted(l) /\ NobodysNodes
         /\ stack[l] \in Seq(Nodes) /\ Len(stack[l]) \in Nat
         /\ \A i \in 1 .. Len(stack[l]) : stack[l][i] \in Nodes
         /\ \A n \in Nodes : n # NoNode
         /\ \A m \in Lists : m # NoList
         /\ task[l].step \in {"unlocked", "link", "publish", "clear", "release"}
  BY TsListAssumption DEF Linking, LTypeOK

\* A list none of whose nodes is touched keeps its part of the invariant.
LEMMA OthersUntouched ==
  ASSUME Linking, NEW m \in Lists,
         stack'[m] = stack[m], pHead'[m] = pHead[m], nNodes'[m] = nNodes[m], task'[m] = task[m],
         \A n \in Nodes : pOwner[n] = m <=> pOwner'[n] = m,
         \A n \in Nodes : pOwner[n] = m => pNext'[n] = pNext[n]
  PROVE  Chained(m)' /\ Accounted(m)'
<1>1. /\ Chained(m) /\ Accounted(m)
      /\ \A i \in 1 .. Len(stack[m]) : stack[m][i] \in Nodes
  BY ListShape
<1>2. Chained(m)'
  <2>1. \A i : Below(m, i)' = Below(m, i)
    BY DEF Below
  <2>2. QED
    BY <1>1, <2>1 DEF Chained
<1>3. Accounted(m)'
  BY <1>1 DEF Accounted
<1>4. QED
  BY <1>2, <1>3

\* A step that moves no node keeps the invariant.
LEMMA Unmoved ==
  ASSUME Linking, LTypeOK', UNCHANGED <<pHead, nNodes, pNext, pOwner, task, stack>>
  PROVE  Linking'
<1>1. \A m \in Lists : Chained(m)' /\ Accounted(m)'
  BY OthersUntouched
<1>2. NobodysNodes'
  BY DEF Linking, NobodysNodes
<1>3. QED
  BY <1>1, <1>2 DEF Linking

\* Every step keeps the invariant.
LEMMA LinkingKept == Linking /\ [LNext]_lvars => Linking'
<1> SUFFICES ASSUME Linking, [LNext]_lvars PROVE Linking'
  OBVIOUS
<1>1. LTypeOK'
  BY TypeKept
<1>2. CASE UNCHANGED lvars
  BY <1>1, <1>2, Unmoved DEF lvars
<1>3. CASE LNext
  <2>1. PICK l \in Lists :
          \/ Cy_TsListInit(l) \/ Cy_TsListShutdown(l)
          \/ \E n \in Nodes : PushClaims(l, n)
          \/ PushSetsNext(l) \/ PushEnds(l) \/ PopTakes(l) \/ PopGoesOn(l)
    BY <1>3 DEF LNext
  <2>s. /\ Chained(l) /\ Accounted(l) /\ NobodysNodes
        /\ Len(stack[l]) \in Nat /\ \A i \in 1 .. Len(stack[l]) : stack[l][i] \in Nodes
        /\ \A n \in Nodes : n # NoNode
    BY ListShape
  <2>2. CASE Cy_TsListInit(l) \/ Cy_TsListShutdown(l)
    BY <1>1, <2>2, Unmoved DEF Cy_TsListInit, Cy_TsListShutdown
  <2>3. CASE \E n \in Nodes : PushClaims(l, n)
    <3>1. PICK n \in Nodes : PushClaims(l, n)
      BY <2>3
    <3>2. NobodysNodes'
      BY <3>1, TsListAssumption DEF PushClaims, Claims, Linking, NobodysNodes, LTypeOK
    <3>3. ASSUME NEW m \in Lists, m # l PROVE Chained(m)' /\ Accounted(m)'
      <4>1. /\ pOwner' = [pOwner EXCEPT ![n] = l] /\ pOwner[n] = NoList /\ m # NoList /\ l # NoList
            /\ task' = [task EXCEPT ![l] = Engaged("link", n)]
            /\ pHead' = pHead /\ nNodes' = nNodes /\ pNext' = pNext /\ stack' = stack
        BY <3>1, TsListAssumption DEF PushClaims, Claims
      <4>2. \A x \in Nodes : pOwner[x] = m <=> pOwner'[x] = m
        BY <3>3, <4>1 DEF Linking, LTypeOK
      <4>3. task'[m] = task[m]
        BY <3>3, <4>1 DEF Linking, LTypeOK
      <4> QED
        BY <4>1, <4>2, <4>3, OthersUntouched
    <3>4. \A i \in 1 .. Len(stack[l]) : stack[l][i] # n
      BY <3>1, TsListAssumption DEF PushClaims, Claims, Linking, LTypeOK, Chained
    <3>5. Chained(l)'
      BY <1>1, <3>1, <3>4 DEF PushClaims, Linking, LTypeOK, Chained, Below
    <3>6. Accounted(l)'
      <4>1. /\ task[l].step = "unlocked" /\ task[l].node = NoNode /\ pOwner[n] = NoList
            /\ task'[l].step = "link" /\ task'[l].node = n
            /\ \A x \in Nodes : pOwner'[x] = IF x = n THEN l ELSE pOwner[x]
            /\ UNCHANGED <<pHead, nNodes, pNext, stack>>
        BY <3>1 DEF PushClaims, Claims, Free, Unlocked, Engaged, Linking, LTypeOK
      <4>2. pNext[n] = NoNode
        BY <4>1, <2>s DEF NobodysNodes
      <4>3. \A x \in Nodes : pOwner'[x] = l => x = n \/ \E i \in 1 .. Len(stack[l]) : stack[l][i] = x
        BY <4>1, <2>s DEF Accounted
      <4>4. nNodes[l] = Len(stack[l])
        BY <4>1, <2>s DEF Accounted
      <4>5. QED
        BY <3>4, <4>1, <4>2, <4>3, <4>4 DEF Accounted
    <3>7. QED
      BY <1>1, <3>2, <3>3, <3>5, <3>6 DEF Linking
  <2>4. CASE PushSetsNext(l)
    <3>1. task[l].node \in Nodes /\ pOwner[task[l].node] = l
      BY <2>4 DEF PushSetsNext, Linking, Accounted
    <3>2. NobodysNodes'
      BY <2>4, <3>1, TsListAssumption DEF PushSetsNext, Linking, NobodysNodes, LTypeOK
    <3>3. ASSUME NEW m \in Lists, m # l PROVE Chained(m)' /\ Accounted(m)'
      BY <1>1, <2>4, <3>1, <3>3, OthersUntouched DEF PushSetsNext, Linking, LTypeOK
    <3>e. /\ task[l].step = "link" /\ task'[l].step = "publish" /\ task'[l].node = task[l].node
          /\ \A x \in Nodes : pNext'[x] = IF x = task[l].node THEN pHead[l] ELSE pNext[x]
          /\ UNCHANGED <<pHead, nNodes, pOwner, stack>>
      BY <2>4 DEF PushSetsNext, Engaged, Linking, LTypeOK
    <3>s. \A i \in 1 .. Len(stack[l]) : stack[l][i] \in Nodes /\ stack[l][i] # task[l].node
      BY <3>e, <2>s DEF Accounted
    <3>4. Chained(l)'
      <4>1. \A i : Below(l, i)' = Below(l, i)
        BY <3>e DEF Below
      <4>2. QED
        BY <3>e, <3>s, <4>1, <2>s DEF Chained
    <3>5. Accounted(l)'
      <4>1. nNodes[l] = Len(stack[l]) /\ pNext'[task[l].node] = pHead[l]
        BY <3>1, <3>e, <2>s DEF Accounted
      <4>2. \A x \in Nodes : pOwner[x] = l => x = task[l].node \/ \E i \in 1 .. Len(stack[l]) : stack[l][i] = x
        BY <2>s DEF Accounted
      <4>3. QED
        BY <3>1, <3>e, <3>s, <4>1, <4>2 DEF Accounted
    <3>6. QED
      BY <1>1, <3>2, <3>3, <3>4, <3>5 DEF Linking
  <2>5. CASE PushEnds(l)
    <3>1. task[l].node \in Nodes /\ pOwner[task[l].node] = l
      BY <2>5 DEF PushEnds, Linking, Accounted
    <3>2. NobodysNodes'
      BY <2>5 DEF PushEnds, Linking, NobodysNodes
    <3>3. ASSUME NEW m \in Lists, m # l PROVE Chained(m)' /\ Accounted(m)'
      BY <1>1, <2>5, <3>3, OthersUntouched DEF PushEnds, Linking, LTypeOK
    <3>4. stack'[l] = Append(stack[l], task[l].node) /\ stack[l] \in Seq(Nodes)
      BY <2>5 DEF PushEnds, Linking, LTypeOK
    <3>5. /\ Len(stack'[l]) = Len(stack[l]) + 1 /\ Len(stack[l]) \in Nat
          /\ stack'[l][Len(stack[l]) + 1] = task[l].node
          /\ \A i \in 1 .. Len(stack[l]) : stack'[l][i] = stack[l][i]
      BY <3>1, <3>4
    <3>6. Chained(l)'
      <4>1. /\ task[l].step = "publish" /\ pHead'[l] = task[l].node
            /\ UNCHANGED <<pNext, pOwner>>
        BY <2>5 DEF PushEnds, Linking, LTypeOK
      <4>2. /\ pNext[task[l].node] = pHead[l]
            /\ \A i \in 1 .. Len(stack[l]) : stack[l][i] # task[l].node
        BY <2>s, <4>1 DEF Accounted
      <4>3. \A i \in 1 .. Len(stack[l]) + 1 : Below(l, i)' = Below(l, i)
        <5> TAKE i \in 1 .. Len(stack[l]) + 1
        <5>1. ~(i > 1) \/ (i > 1 /\ i - 1 \in 1 .. Len(stack[l]))
          BY <3>5
        <5> QED
          BY <3>5, <5>1 DEF Below
      <4>4. Below(l, Len(stack[l]) + 1)' = task[l].node
        <5>1. (Len(stack[l]) + 1) + 1 > 1 /\ ((Len(stack[l]) + 1) + 1) - 1 = Len(stack[l]) + 1
          BY <3>5
        <5>2. Below(l, Len(stack[l]) + 1)' = stack'[l][((Len(stack[l]) + 1) + 1) - 1]
          BY <3>5, <5>1 DEF Below
        <5> QED
          BY <3>5, <5>1, <5>2
      <4>5. /\ pHead[l] = Below(l, Len(stack[l]) + 1)
            /\ \A i \in 1 .. Len(stack[l]) : pNext[stack[l][i]] = Below(l, i)
            /\ \A i, j \in 1 .. Len(stack[l]) : stack[l][i] = stack[l][j] => i = j
            /\ \A i \in 1 .. Len(stack[l]) : pOwner[stack[l][i]] = l
        BY <2>s DEF Chained
      <4>6. \A i \in 1 .. Len(stack'[l]) : i \in 1 .. Len(stack[l]) \/ i = Len(stack[l]) + 1
        BY <3>5
      <4>7. \A i \in 1 .. Len(stack'[l]) : pNext'[stack'[l][i]] = Below(l, i)'
        <5> TAKE i \in 1 .. Len(stack'[l])
        <5>1. CASE i \in 1 .. Len(stack[l])
          <6>1. i \in 1 .. Len(stack[l]) + 1
            BY <3>5
          <6> QED
            BY <3>5, <4>1, <4>3, <4>5, <5>1, <6>1
        <5>2. CASE i = Len(stack[l]) + 1
          <6>1. i \in 1 .. Len(stack[l]) + 1
            BY <3>5, <5>2
          <6> QED
            BY <3>5, <4>1, <4>2, <4>3, <4>5, <5>2, <6>1
        <5> QED
          BY <4>6, <5>1, <5>2
      <4>8. \A i, j \in 1 .. Len(stack'[l]) : stack'[l][i] = stack'[l][j] => i = j
        BY <3>5, <4>2, <4>5, <4>6
      <4>9. \A i \in 1 .. Len(stack'[l]) : pOwner'[stack'[l][i]] = l
        BY <3>1, <3>5, <4>1, <4>5, <4>6
      <4>10. pHead'[l] = Below(l, Len(stack[l]) + 1)'
        BY <4>1, <4>4
      <4> QED
        BY <4>7, <4>8, <4>9, <4>10 DEF Chained
    <3>7. Accounted(l)'
      <4>1. /\ task[l].step = "publish" /\ task'[l].step = "unlocked" /\ task'[l].node = NoNode
            /\ nNodes'[l] = nNodes[l] + 1 /\ UNCHANGED <<pNext, pOwner>>
        BY <2>5 DEF PushEnds, Unlocked, Engaged, Linking, LTypeOK
      <4>2. nNodes[l] = Len(stack[l])
            /\ \A x \in Nodes : pOwner[x] = l => x = task[l].node \/ \E i \in 1 .. Len(stack[l]) : stack[l][i] = x
        BY <4>1, <2>s DEF Accounted
      <4>3. \A x \in Nodes : pOwner[x] = l => \E i \in 1 .. Len(stack'[l]) : stack'[l][i] = x
        <5> SUFFICES ASSUME NEW x \in Nodes, pOwner[x] = l PROVE \E i \in 1 .. Len(stack'[l]) : stack'[l][i] = x
          OBVIOUS
        <5>1. CASE x = task[l].node
          BY <3>5, <5>1
        <5>2. CASE \E i \in 1 .. Len(stack[l]) : stack[l][i] = x
          BY <3>5, <5>2
        <5>3. QED
          BY <4>2, <5>1, <5>2
      <4>4. QED
        BY <3>5, <4>1, <4>2, <4>3 DEF Accounted
    <3>8. QED
      BY <1>1, <3>2, <3>3, <3>6, <3>7 DEF Linking
  <2>6. CASE PopTakes(l)
    <3> DEFINE k == Len(stack[l])
    <3>1. k \in Nat \ {0} /\ pHead[l] = stack[l][k] /\ pHead[l] \in Nodes /\ pOwner[pHead[l]] = l
      <4>1. pHead[l] # NoNode /\ pHead[l] = Below(l, k + 1) /\ k \in Nat
        BY <2>6, <2>s DEF PopTakes, Chained
      <4>2. k # 0 /\ pHead[l] = stack[l][k]
        BY <4>1 DEF Below
      <4>3. k \in 1 .. k
        BY <4>1, <4>2
      <4>4. stack[l][k] \in Nodes /\ pOwner[stack[l][k]] = l
        BY <2>s, <4>3 DEF Chained
      <4>5. QED
        BY <4>1, <4>2, <4>4
    <3>2. NobodysNodes'
      BY <2>6 DEF PopTakes, Linking, NobodysNodes
    <3>3. ASSUME NEW m \in Lists, m # l PROVE Chained(m)' /\ Accounted(m)'
      BY <1>1, <2>6, <3>3, OthersUntouched DEF PopTakes, Linking, LTypeOK
    <3>4. stack'[l] = Front(stack[l]) /\ stack[l] \in Seq(Nodes)
      BY <2>6 DEF PopTakes, Linking, LTypeOK
    <3>5. Len(stack'[l]) = k - 1 /\ \A i \in 1 .. k - 1 : stack'[l][i] = stack[l][i]
      BY <3>1, <3>4 DEF Front
    <3>6. pHead'[l] = pNext[stack[l][k]] /\ pNext[stack[l][k]] = Below(l, k)
      BY <2>6, <3>1 DEF PopTakes, Linking, LTypeOK, Chained
    <3> HIDE DEF k
    <3>e. /\ task[l].step = "unlocked" /\ task[l].node = NoNode
          /\ task'[l].step = "clear" /\ task'[l].node = stack[l][k]
          /\ UNCHANGED <<nNodes, pNext, pOwner>>
      BY <2>6, <3>1 DEF PopTakes, Free, Unlocked, Engaged, Linking, LTypeOK
    <3>7. Chained(l)'
      <4>1. \A i \in 1 .. k : Below(l, i)' = Below(l, i)
        BY <3>1, <3>5 DEF Below
      <4>2. /\ \A i \in 1 .. k : pNext[stack[l][i]] = Below(l, i) /\ pOwner[stack[l][i]] = l
            /\ \A i, j \in 1 .. k : stack[l][i] = stack[l][j] => i = j
        BY <2>s DEF Chained, k
      <4>3. k \in 1 .. k /\ 1 .. k - 1 \subseteq 1 .. k /\ (k - 1) + 1 = k
        BY <3>1
      <4>4. pHead'[l] = Below(l, Len(stack[l]) + 1)'
        BY <3>5, <3>6, <4>1, <4>3
      <4>5. \A i \in 1 .. k - 1 : i \in 1 .. k /\ stack'[l][i] = stack[l][i]
        BY <3>1, <3>5
      <4>6. \A i \in 1 .. k - 1 : pNext'[stack'[l][i]] = Below(l, i)' /\ pOwner'[stack'[l][i]] = l
        BY <3>e, <4>1, <4>2, <4>5
      <4>7. \A i, j \in 1 .. k - 1 : stack'[l][i] = stack'[l][j] => i = j
        BY <4>2, <4>5
      <4>8. QED
        BY <3>5, <4>4, <4>6, <4>7 DEF Chained
    <3>8. Accounted(l)'
      <4>1. nNodes[l] = k /\ \A x \in Nodes : pOwner[x] = l => \E i \in 1 .. k : stack[l][i] = x
        BY <3>e, <2>s DEF Accounted, k
      <4>2. \A i, j \in 1 .. k : stack[l][i] = stack[l][j] => i = j
        BY <2>s DEF Chained, k
      <4>3. \A i \in 1 .. k - 1 : stack'[l][i] # stack[l][k]
        BY <3>1, <3>5, <4>2
      <4>4. \A x \in Nodes : pOwner[x] = l => x = stack[l][k] \/ \E i \in 1 .. k - 1 : stack'[l][i] = x
        BY <3>1, <3>5, <4>1
      <4>5. QED
        BY <3>1, <3>5, <3>e, <4>1, <4>3, <4>4 DEF Accounted
    <3>9. QED
      BY <1>1, <3>2, <3>3, <3>7, <3>8 DEF Linking
  <2>7. CASE PopGoesOn(l)
    <3>1. task[l].node \in Nodes /\ pOwner[task[l].node] = l
      BY <2>7 DEF PopGoesOn, Linking, Accounted
    <3>2. stack' = stack /\ pHead' = pHead
      BY <2>7 DEF PopGoesOn
    <3>3. CASE task[l].step = "clear"
      <4>1. /\ pNext' = [pNext EXCEPT ![task[l].node] = NoNode]
            /\ task' = [task EXCEPT ![l] = Engaged("release", task[l].node)]
            /\ UNCHANGED <<pOwner, nNodes>>
        BY <2>7, <3>3 DEF PopGoesOn, OwnerGoes
      <4>2. NobodysNodes'
        BY <3>1, <4>1, TsListAssumption DEF Linking, NobodysNodes, LTypeOK
      <4>3. ASSUME NEW m \in Lists, m # l PROVE Chained(m)' /\ Accounted(m)'
        BY <1>1, <3>1, <3>2, <4>1, <4>3, OthersUntouched DEF Linking, LTypeOK
      <4>4. Chained(l)'
        <5>1. \A i : Below(l, i)' = Below(l, i)
          BY <3>2 DEF Below
        <5>2. \A i \in 1 .. Len(stack[l]) : stack[l][i] \in Nodes /\ stack[l][i] # task[l].node
          BY <3>3, <2>s DEF Accounted
        <5>3. \A x \in Nodes : x # task[l].node => pNext'[x] = pNext[x]
          BY <4>1 DEF Linking, LTypeOK
        <5>4. QED
          BY <3>2, <4>1, <5>1, <5>2, <5>3, <2>s DEF Chained
      <4>5. Accounted(l)'
        <5>1. /\ task'[l].step = "release" /\ task'[l].node = task[l].node
              /\ pNext'[task[l].node] = NoNode
          BY <3>1, <4>1 DEF Engaged, Linking, LTypeOK
        <5>2. QED
          BY <3>1, <3>2, <3>3, <4>1, <5>1, <2>s DEF Accounted
      <4>6. QED
        BY <1>1, <4>2, <4>3, <4>4, <4>5 DEF Linking
    <3>4. CASE task[l].step = "release"
      <4>1. /\ pOwner' = [pOwner EXCEPT ![task[l].node] = NoList]
            /\ task' = [task EXCEPT ![l] = Unlocked]
            /\ nNodes' = [nNodes EXCEPT ![l] = @ - 1] /\ UNCHANGED pNext
        BY <2>7, <3>4 DEF PopGoesOn, OwnerGoes
      <4>2. NobodysNodes'
        BY <3>1, <3>4, <4>1, TsListAssumption DEF Linking, NobodysNodes, LTypeOK, Accounted
      <4>3. ASSUME NEW m \in Lists, m # l PROVE Chained(m)' /\ Accounted(m)'
        BY <1>1, <3>1, <3>2, <4>1, <4>3, OthersUntouched, TsListAssumption DEF Linking, LTypeOK
      <4>4. Chained(l)'
        <5>1. \A i : Below(l, i)' = Below(l, i)
          BY <3>2 DEF Below
        <5>2. \A i \in 1 .. Len(stack[l]) : stack[l][i] \in Nodes /\ stack[l][i] # task[l].node
          BY <3>4, <2>s DEF Accounted
        <5>3. \A x \in Nodes : x # task[l].node => pOwner'[x] = pOwner[x]
          BY <4>1 DEF Linking, LTypeOK
        <5>4. QED
          BY <3>2, <4>1, <5>1, <5>2, <5>3, <2>s DEF Chained
      <4>5. Accounted(l)'
        BY <1>1, <3>1, <3>2, <3>4, <4>1, TsListAssumption DEF Unlocked, Engaged, Linking, LTypeOK, Accounted
      <4>6. QED
        BY <1>1, <4>2, <4>3, <4>4, <4>5 DEF Linking
    <3>5. QED
      BY <2>7, <3>3, <3>4 DEF PopGoesOn
  <2>8. QED
    BY <2>1, <2>2, <2>3, <2>4, <2>5, <2>6, <2>7
<1>4. QED
  BY <1>2, <1>3

\* The invariant accounts for the nodes.
LEMMA LinkingAccounts == Linking => NodesAccountedFor
<1> SUFFICES ASSUME Linking PROVE NodesAccountedFor
  OBVIOUS
<1>1. ASSUME NEW l \in Lists
      PROVE  /\ Chained(l) /\ Accounted(l) /\ NobodysNodes /\ DOMAIN stack[l] = 1 .. Len(stack[l]) /\ ToSet(stack[l]) = {stack[l][i] : i \in 1 .. Len(stack[l])}
             /\ \A i \in 1 .. Len(stack[l]) : stack[l][i] \in Nodes
  BY ListShape DEF ToSet
<1>2. ListsAreStacks
  BY <1>1 DEF ListsAreStacks, Linking, Chained, IsInjective
<1>3. ListsAreWhole
  <2> SUFFICES ASSUME NEW l \in Lists, Free(l)
               PROVE  ToSet(stack[l]) = {n \in Nodes : pOwner[n] = l} /\ nNodes[l] = Len(stack[l])
    BY DEF ListsAreWhole
  <2>1. task[l].step = "unlocked" /\ task[l].node = NoNode
    BY DEF Free, Unlocked, Engaged
  <2>2. nNodes[l] = Len(stack[l])
    <3>1. Accounted(l) /\ Len(stack[l]) \in Nat
      BY ListShape
    <3>2. QED
      BY <2>1, <3>1 DEF Accounted
  <2>3. ToSet(stack[l]) \subseteq {n \in Nodes : pOwner[n] = l}
    <3>1. Chained(l) /\ ToSet(stack[l]) = {stack[l][i] : i \in 1 .. Len(stack[l])}
          /\ \A i \in 1 .. Len(stack[l]) : stack[l][i] \in Nodes
      BY <1>1
    <3>2. QED
      BY <3>1 DEF Chained
  <2>4. {n \in Nodes : pOwner[n] = l} \subseteq ToSet(stack[l])
    <3>1. Accounted(l) /\ ToSet(stack[l]) = {stack[l][i] : i \in 1 .. Len(stack[l])}
      BY <1>1
    <3>2. QED
      BY <2>1, <3>1, TsListAssumption DEF Accounted
  <2>5. QED
    BY <2>2, <2>3, <2>4
<1>4. NodesHaveOneList
  <2>1. ASSUME NEW l \in Lists, NEW n \in ToSet(stack[l]) PROVE n \in Nodes /\ pOwner[n] = l
    <3>1. Chained(l) /\ ToSet(stack[l]) = {stack[l][i] : i \in 1 .. Len(stack[l])}
          /\ \A i \in 1 .. Len(stack[l]) : stack[l][i] \in Nodes
      BY <1>1
    <3>2. PICK i \in 1 .. Len(stack[l]) : n = stack[l][i]
      BY <3>1
    <3>3. QED
      BY <3>1, <3>2 DEF Chained
  <2>2. QED
    BY <1>1, <2>1, TsListAssumption, SMTT(40) DEF NodesHaveOneList, Linking, NobodysNodes
<1>5. QED
  BY <1>2, <1>3, <1>4 DEF NodesAccountedFor

\* A node is on at most one list, once, whose owner mark it has; what the walk of a list
\* reaches are the nodes on it; and a node that nobody has can be pushed: whatever threads
\* claim one node at the same time.
THEOREM NodesAreAccountedFor == LSpec => []NodesAccountedFor
  BY LinkingStarts, LinkingKept, LinkingAccounts, PTL DEF LSpec

\* For any number of nodes and lists the heads, counts, links and owners keep their shape.
THEOREM ListsTyped == LSpec => []LTypeOK
<1>1. Linking => LTypeOK
  BY DEF Linking
<1>2. QED
  BY <1>1, LinkingStarts, LinkingKept, PTL DEF LSpec

=============================================================================

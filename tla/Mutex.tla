-------------------------------- MODULE Mutex --------------------------------
(***************************************************************************)
(* The mutex wrappers of Tier 0 (src/CypherCommon/Tier0/                   *)
(* CypherCommon_Mutex.cpp): a native mutex, recursive or not, an atomic    *)
(* flag that gates the interface, and atomic mirrors of the owner and of   *)
(* the recursion depth.  Every access to an atomic or to the native mutex  *)
(* is a step of its own, and what a thread does next is in pc.  Accesses   *)
(* take effect in one order; the weaker orders that the code asks for are  *)
(* not modelled.                                                           *)
(*                                                                         *)
(* Shutdown may be called at any time, as the comments at lines 60 and 105 *)
(* intend.  Init stores the mirrors after it has opened the gate, so the   *)
(* callers keep it apart from the other calls when Coordinated holds.      *)
(***************************************************************************)
EXTENDS Integers

CONSTANTS
  Threads, NoThread,   \* NoThread is CY_THREAD_INVALID_ID
  MaxDepth,            \* bound on the locks one thread holds
  Coordinated          \* whether Init is kept apart from the other calls

ASSUME MutexAssumption ==
  /\ NoThread \notin Threads
  /\ MaxDepth \in Nat \ {0}
  /\ Coordinated \in BOOLEAN

VARIABLES
  recursive,           \* cy_recursive_mutex_t rather than cy_mutex_t
  isInitialized, nOwnerThreadId, nRecursionDepth,
  native, nativeDepth, \* the native mutex: its owner and how often it is locked
  pc,
  holds                \* calls of Lock answered TRUE and not yet unlocked

mirrors == <<nOwnerThreadId, nRecursionDepth>>
lock == <<native, nativeDepth>>
xvars == <<recursive, isInitialized, mirrors, lock, pc, holds>>

Inside(u) == pc[u] # "idle"
Initialising(u) == pc[u] \in {"initOwner", "initDepth"}

Goes(t, step) == pc' = [pc EXCEPT ![t] = step]
Step(t, from, to) == pc[t] = from /\ Goes(t, to)

-----------------------------------------------------------------------------
(* std::mutex and std::recursive_mutex. *)

NativeFree(t) == native = NoThread \/ (recursive /\ native = t)
NativeLock(t) == NativeFree(t) /\ native' = t /\ nativeDepth' = nativeDepth + 1
NativeUnlock(t) ==
  /\ nativeDepth' = nativeDepth - 1
  /\ native' = IF nativeDepth = 1 THEN NoThread ELSE native

-----------------------------------------------------------------------------
(* Cy_MutexInit and Cy_RecursiveMutexInit. *)

InitOpens(t) ==
  /\ Step(t, "idle", "initOwner")
  /\ Coordinated => \A u \in Threads : ~Inside(u)
  /\ ~isInitialized /\ isInitialized' = TRUE
  /\ UNCHANGED <<recursive, mirrors, lock, holds>>

InitOwner(t) ==
  /\ Step(t, "initOwner", IF recursive THEN "initDepth" ELSE "idle")
  /\ nOwnerThreadId' = NoThread
  /\ UNCHANGED <<recursive, isInitialized, nRecursionDepth, lock, holds>>

InitDepth(t) ==
  /\ Step(t, "initDepth", "idle")
  /\ nRecursionDepth' = 0
  /\ UNCHANGED <<recursive, isInitialized, nOwnerThreadId, lock, holds>>

-----------------------------------------------------------------------------
(* Every call returns unless the wrapper is initialised. *)

Enters(t, step) ==
  /\ Step(t, "idle", step)
  /\ Coordinated => \A u \in Threads : ~Initialising(u)
  /\ isInitialized
  /\ UNCHANGED <<recursive, isInitialized, mirrors, lock, holds>>

(* Cy_MutexShutdown and Cy_RecursiveMutexShutdown. *)

ShutdownReadsOwner(t) ==
  /\ pc[t] = "shutdownOwner"
  /\ Goes(t, IF nOwnerThreadId # NoThread THEN "idle"
             ELSE IF recursive THEN "shutdownDepth" ELSE "shutdownTry")
  /\ UNCHANGED <<recursive, isInitialized, mirrors, lock, holds>>

ShutdownReadsDepth(t) ==
  /\ Step(t, "shutdownDepth", IF nRecursionDepth # 0 THEN "idle" ELSE "shutdownTry")
  /\ UNCHANGED <<recursive, isInitialized, mirrors, lock, holds>>

TakesNative(t) ==
  IF NativeFree(t) THEN NativeLock(t) /\ Goes(t, "shutdownClose")
  ELSE Goes(t, "idle") /\ UNCHANGED lock

ShutdownTries(t) ==
  /\ pc[t] = "shutdownTry" /\ TakesNative(t)
  /\ UNCHANGED <<recursive, isInitialized, mirrors, holds>>

ShutdownCloses(t) ==
  /\ Step(t, "shutdownClose", "unlockNative")
  /\ isInitialized' = FALSE
  /\ UNCHANGED <<recursive, mirrors, lock, holds>>

-----------------------------------------------------------------------------
(* Lock and TryLock.  Only the plain mutex refuses its own owner.            *)

LockReadsOwner(t) ==
  /\ pc[t] \in {"lockOwner", "tryOwner"} /\ ~recursive
  /\ Goes(t, IF nOwnerThreadId = t THEN "idle"
             ELSE IF pc[t] = "lockOwner" THEN "lock" ELSE "try")
  /\ UNCHANGED <<recursive, isInitialized, mirrors, lock, holds>>

LockNative(t) ==
  /\ pc[t] \in {"lock", "try"}
  /\ NativeLock(t) /\ Goes(t, "recheck")
  /\ UNCHANGED <<recursive, isInitialized, mirrors, holds>>

TryLockFails(t) ==
  /\ Step(t, "try", "idle") /\ ~NativeFree(t)
  /\ UNCHANGED <<recursive, isInitialized, mirrors, lock, holds>>

\* A slip: the lock is taken whether or not the wrapper was shut down meanwhile.
NoRecheck == TRUE

StillOpen == isInitialized

LockRechecks(t) ==
  /\ Step(t, "recheck", IF ~StillOpen THEN "unlockNative"
                        ELSE IF recursive /\ nOwnerThreadId = t THEN "nest"
                        ELSE "publish")
  /\ UNCHANGED <<recursive, isInitialized, mirrors, lock, holds>>

LockPublishes(t) ==
  /\ Step(t, "publish", IF recursive THEN "depth" ELSE "idle")
  /\ nOwnerThreadId' = t
  /\ holds' = IF recursive THEN holds ELSE [holds EXCEPT ![t] = @ + 1]
  /\ UNCHANGED <<recursive, isInitialized, nRecursionDepth, lock>>

LockDepth(t) ==
  /\ pc[t] \in {"nest", "depth"} /\ Goes(t, "idle")
  /\ nRecursionDepth' = IF pc[t] = "nest" THEN nRecursionDepth + 1 ELSE 1
  /\ holds' = [holds EXCEPT ![t] = @ + 1]
  /\ UNCHANGED <<recursive, isInitialized, nOwnerThreadId, lock>>

-----------------------------------------------------------------------------
(* Unlock.  Only the outermost level gives the ownership up, and gives up    *)
(* the mirrors before the native mutex.                                      *)

UnlockReadsOwner(t) ==
  /\ pc[t] = "unlock"
  /\ Goes(t, IF nOwnerThreadId # t THEN "idle"
             ELSE IF recursive THEN "unlockDepth" ELSE "unlockOwner")
  /\ UNCHANGED <<recursive, isInitialized, mirrors, lock, holds>>

\* A slip: the mirrored depth of the outermost level stays.
DepthKept == nRecursionDepth

DepthBelow == nRecursionDepth - 1

UnlockDepth(t) ==
  /\ Step(t, "unlockDepth", IF nRecursionDepth = 0 THEN "idle"
                            ELSE IF nRecursionDepth = 1 THEN "unlockOwner"
                            ELSE "release")
  /\ nRecursionDepth' = IF nRecursionDepth = 0 THEN 0 ELSE DepthBelow
  /\ UNCHANGED <<recursive, isInitialized, nOwnerThreadId, lock, holds>>

UnlockOwner(t) ==
  /\ Step(t, "unlockOwner", "release")
  /\ nOwnerThreadId' = NoThread
  /\ UNCHANGED <<recursive, isInitialized, nRecursionDepth, lock, holds>>

\* The last step of Unlock, and of the calls that only borrowed the mutex.
Releases(t) ==
  /\ pc[t] \in {"release", "unlockNative"} /\ Goes(t, "idle")
  /\ NativeUnlock(t)
  /\ holds' = IF pc[t] = "release" THEN [holds EXCEPT ![t] = @ - 1] ELSE holds
  /\ UNCHANGED <<recursive, isInitialized, mirrors>>

-----------------------------------------------------------------------------
XInit ==
  /\ recursive \in BOOLEAN
  /\ isInitialized = FALSE
  /\ nOwnerThreadId = NoThread /\ nRecursionDepth = 0
  /\ native = NoThread /\ nativeDepth = 0
  /\ pc = [t \in Threads |-> "idle"]
  /\ holds = [t \in Threads |-> 0]

Calls(t) ==
  \/ InitOpens(t)
  \/ Enters(t, "shutdownOwner") \/ Enters(t, "unlock")
  \/ /\ holds[t] < MaxDepth
     /\ \/ Enters(t, IF recursive THEN "lock" ELSE "lockOwner")
        \/ Enters(t, IF recursive THEN "try" ELSE "tryOwner")

Continues(t) ==
  \/ InitOwner(t) \/ InitDepth(t)
  \/ ShutdownReadsOwner(t) \/ ShutdownReadsDepth(t) \/ ShutdownTries(t)
  \/ ShutdownCloses(t)
  \/ LockReadsOwner(t) \/ LockNative(t) \/ TryLockFails(t) \/ LockRechecks(t)
  \/ LockPublishes(t) \/ LockDepth(t)
  \/ UnlockReadsOwner(t) \/ UnlockDepth(t) \/ UnlockOwner(t) \/ Releases(t)

XNext == \E t \in Threads : Calls(t) \/ Continues(t)

XSpec == XInit /\ [][XNext]_xvars

-----------------------------------------------------------------------------
(* Properties. *)

Borrowing == {"shutdownClose", "recheck", "publish", "nest", "depth", "unlockNative"}

XTypeOK ==
  /\ recursive \in BOOLEAN /\ isInitialized \in BOOLEAN
  /\ nOwnerThreadId \in Threads \cup {NoThread} /\ nRecursionDepth \in Nat
  /\ native \in Threads \cup {NoThread} /\ nativeDepth \in Nat
  /\ pc \in [Threads ->
       {"idle", "initOwner", "initDepth", "shutdownOwner", "shutdownDepth",
        "shutdownTry", "lockOwner", "tryOwner", "lock", "try", "unlock",
        "unlockDepth", "unlockOwner", "release"} \cup Borrowing]
  /\ holds \in [Threads -> Nat]

\* Whoever was told that it holds the mutex, or is about to release it in the
\* native mutex, does hold the native mutex, as often as it was told.
HolderHasNative ==
  \A t \in Threads :
    holds[t] > 0 \/ pc[t] \in Borrowing \cup {"unlockDepth", "unlockOwner", "release"} =>
      /\ native = t
      /\ nativeDepth = holds[t] + (IF pc[t] \in Borrowing THEN 1 ELSE 0)

\* "Do not publish ownership for a wrapper whose lifecycle has already ended"
\* (CypherCommon_Mutex.cpp:105): a shutdown that succeeds finds no holder, and
\* nobody becomes one after it.
HeldMeansOpen == \A t \in Threads : holds[t] > 0 => isInitialized

\* When initialisation is kept apart from the other calls, a thread that holds
\* the mutex between two calls is the one the mirrors name, so its Unlock is not
\* refused and no lock is stuck.
HolderCanUnlock ==
  Coordinated =>
    \A t \in Threads : holds[t] > 0 /\ pc[t] = "idle" =>
      nOwnerThreadId = t /\ (recursive => nRecursionDepth = holds[t])

\* Mutual exclusion through every lock, unlock and shutdown.
HoldersKeepTheLock == HolderHasNative /\ HeldMeansOpen
=============================================================================

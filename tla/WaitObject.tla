------------------------------ MODULE WaitObject ------------------------------
(***************************************************************************)
(* The blocking objects of Tier 0: the counting semaphore and the event,   *)
(* in its auto-reset and manual-reset modes.  Each keeps a count (of an    *)
(* event: 1 when signalled), the number of threads inside a wait, and one  *)
(* condition variable on which the waiters sleep and, at the end, the      *)
(* thread that shuts the object down too.  A critical section of the       *)
(* object's mutex is one step; the notifications that a post sends after   *)
(* it left the mutex are steps of their own, and a sleeper that was woken  *)
(* looks at its condition in a later step, when it has the mutex again.    *)
(*                                                                         *)
(* Init is not called while a Shutdown is still waiting: its header says   *)
(* that the object may be reused once Shutdown came back.                  *)
(***************************************************************************)
EXTENDS Naturals, FiniteSets

CONSTANTS
  Callers,      \* the threads that use the object
  PermitsMax,   \* the largest limit given to Cy_SemaphoreInit
  PostsMax      \* bound: permits given in one life of the object

ASSUME WaitObjectAssumption ==
  /\ IsFiniteSet(Callers)
  /\ PermitsMax \in Nat \ {0}
  /\ PostsMax \in Nat

VARIABLES
  kind,          \* "semaphore", "auto" or "manual"
  objectOpen,    \* isInitialized
  nCount, nMaxCount, nWaiterCount,
  doing,         \* what each thread is doing
  wakes,         \* the notifications a posting thread has still to send
  given, taken   \* history: permits given and taken since Init

bvars ==
  <<kind, objectOpen, nCount, nMaxCount, nWaiterCount, doing, wakes, given, taken>>

Doing(activity) == {t \in Callers : doing[t] \in activity}

\* The threads inside a wait: asleep on the condition variable, or woken and
\* about to take the mutex again.  A "timed" one gives up; it is "late" once it has.
Asleep == Doing({"asleep", "asleepTimed"})
Woken == Doing({"woken", "wokenTimed", "late"})
Sleepers == Asleep \union Doing({"closing"})

WokenFrom(activity) ==
  CASE activity = "asleep" -> "woken"
    [] activity = "asleepTimed" -> "wokenTimed"
    [] activity = "closing" -> "closingWoken"
    [] OTHER -> activity

AllWoken(activities) == [t \in Callers |-> WokenFrom(activities[t])]

\* Cy_SemaphoreInit and Cy_EventInit.
ObjectInit(k, count, limit) ==
  /\ ~objectOpen /\ nWaiterCount = 0
  /\ Doing({"closing", "closingWoken"}) = {}
  /\ count \in 0 .. limit
  /\ k # "semaphore" => limit = 1
  /\ kind' = k
  /\ objectOpen' = TRUE
  /\ nCount' = count /\ nMaxCount' = limit
  /\ given' = count /\ taken' = 0
  /\ UNCHANGED <<nWaiterCount, doing, wakes>>

\* Shutdown closes the object, wakes everybody, and sleeps while a waiter is inside.
ObjectShutdown(t) ==
  /\ doing[t] = "idle" /\ objectOpen
  /\ objectOpen' = FALSE
  /\ nCount' = 0
  /\ doing' = [AllWoken(doing) EXCEPT
                 ![t] = IF nWaiterCount = 0 THEN "idle" ELSE "closing"]
  /\ UNCHANGED <<kind, nMaxCount, nWaiterCount, wakes, given, taken>>

ShutdownWakes(t) ==
  /\ doing[t] = "closingWoken"
  /\ doing' = [doing EXCEPT ![t] = IF nWaiterCount = 0 THEN "idle" ELSE "closing"]
  /\ UNCHANGED <<kind, objectOpen, nCount, nMaxCount, nWaiterCount, wakes, given, taken>>

\* The whole post is refused when it does not fit under the limit.
Fits(n) == n <= nMaxCount - nCount

\* One notification for each new permit, and none for which nobody waits.
SingleWake(n) == IF nWaiterCount = 0 THEN 0 ELSE 1

WakesFor(n) == IF n < nWaiterCount THEN n ELSE nWaiterCount

Cy_SemaphorePost(t, n) ==
  /\ doing[t] = "idle" /\ objectOpen /\ kind = "semaphore"
  /\ given + n <= PostsMax
  /\ Fits(n)
  /\ nCount' = nCount + n
  /\ given' = given + n
  /\ wakes' = [wakes EXCEPT ![t] = WakesFor(n)]
  /\ doing' = [doing EXCEPT ![t] = IF WakesFor(n) = 0 THEN "idle" ELSE "notifying"]
  /\ UNCHANGED <<kind, objectOpen, nMaxCount, nWaiterCount, taken>>

\* Signals that find the event signalled merge with the one before.
Cy_EventSignal(t) ==
  /\ doing[t] = "idle" /\ objectOpen /\ kind # "semaphore"
  /\ given < PostsMax
  /\ nCount' = 1
  /\ given' = given + 1
  /\ wakes' = [wakes EXCEPT ![t] = 1]
  /\ doing' = [doing EXCEPT ![t] = IF kind = "auto" THEN "notifying" ELSE "notifyingAll"]
  /\ UNCHANGED <<kind, objectOpen, nMaxCount, nWaiterCount, taken>>

Cy_EventReset(t) ==
  /\ doing[t] = "idle" /\ objectOpen /\ kind # "semaphore"
  /\ nCount' = 0
  /\ UNCHANGED <<kind, objectOpen, nMaxCount, nWaiterCount, doing, wakes, given, taken>>

\* notify_one wakes some sleeper, whoever that is, or nobody when none sleeps.
NotifyOne(t) ==
  LET after == IF wakes[t] = 1 THEN "idle" ELSE "notifying" IN
  /\ doing[t] = "notifying"
  /\ wakes' = [wakes EXCEPT ![t] = @ - 1]
  /\ \/ /\ Sleepers = {}
        /\ doing' = [doing EXCEPT ![t] = after]
     \/ \E s \in Sleepers :
          doing' = [doing EXCEPT ![t] = after, ![s] = WokenFrom(@)]
  /\ UNCHANGED <<kind, objectOpen, nCount, nMaxCount, nWaiterCount, given, taken>>

NotifyAll(t) ==
  /\ doing[t] = "notifyingAll"
  /\ wakes' = [wakes EXCEPT ![t] = 0]
  /\ doing' = [AllWoken(doing) EXCEPT ![t] = "idle"]
  /\ UNCHANGED <<kind, objectOpen, nCount, nMaxCount, nWaiterCount, given, taken>>

\* A wait that succeeds takes one permit; a manual-reset event keeps its signal.
Consumed == IF kind = "manual" THEN nCount ELSE nCount - 1

Cy_TryWait(t) ==
  /\ doing[t] = "idle" /\ objectOpen /\ nCount > 0
  /\ kind = "manual" => taken < PostsMax
  /\ nCount' = Consumed
  /\ taken' = taken + 1
  /\ UNCHANGED <<kind, objectOpen, nMaxCount, nWaiterCount, doing, wakes, given>>

\* A wait that finds no permit registers and goes to sleep in one critical section.
WaitSleeps(t, isTimed) ==
  /\ doing[t] = "idle" /\ objectOpen /\ nCount = 0
  /\ nWaiterCount' = nWaiterCount + 1
  /\ doing' = [doing EXCEPT ![t] = IF isTimed THEN "asleepTimed" ELSE "asleep"]
  /\ UNCHANGED <<kind, objectOpen, nCount, nMaxCount, wakes, given, taken>>

\* A sleeper wakes for no reason, or because its time is up.
WakesUnasked(t) ==
  /\ doing[t] \in {"asleep", "asleepTimed", "closing"}
  /\ \/ doing' = [doing EXCEPT ![t] = WokenFrom(@)]
     \/ /\ doing[t] = "asleepTimed"
        /\ doing' = [doing EXCEPT ![t] = "late"]
  /\ UNCHANGED <<kind, objectOpen, nCount, nMaxCount, nWaiterCount, wakes, given, taken>>

\* The last waiter to leave a closed object wakes the thread that closes it.
WaiterLeft(t) ==
  IF ~objectOpen /\ nWaiterCount = 1
  THEN [AllWoken(doing) EXCEPT ![t] = "idle"]
  ELSE [doing EXCEPT ![t] = "idle"]

\* A woken waiter leaves with a permit, because the object closed, or because it
\* is late; a late one still takes a permit it finds.  Otherwise it sleeps again.
WaitEnds(t) ==
  /\ t \in Woken
  /\ ~objectOpen \/ nCount > 0 \/ doing[t] = "late"
  /\ nWaiterCount' = nWaiterCount - 1
  /\ doing' = WaiterLeft(t)
  /\ IF objectOpen /\ nCount > 0
     THEN /\ kind = "manual" => taken < PostsMax
          /\ nCount' = Consumed
          /\ taken' = taken + 1
     ELSE UNCHANGED <<nCount, taken>>
  /\ UNCHANGED <<kind, objectOpen, nMaxCount, wakes, given>>

WaitGoesOn(t) ==
  /\ doing[t] \in {"woken", "wokenTimed"} /\ objectOpen /\ nCount = 0
  /\ doing' = [doing EXCEPT ![t] = IF @ = "woken" THEN "asleep" ELSE "asleepTimed"]
  /\ UNCHANGED <<kind, objectOpen, nCount, nMaxCount, nWaiterCount, wakes, given, taken>>

BInit ==
  /\ kind = "semaphore"
  /\ objectOpen = FALSE
  /\ nCount = 0 /\ nMaxCount = 0 /\ nWaiterCount = 0
  /\ doing = [t \in Callers |-> "idle"]
  /\ wakes = [t \in Callers |-> 0]
  /\ given = 0 /\ taken = 0

BNext ==
  \/ \E k \in {"semaphore", "auto", "manual"}, limit \in 1 .. PermitsMax :
       \E count \in 0 .. limit : ObjectInit(k, count, limit)
  \/ \E t \in Callers :
       \/ ObjectShutdown(t) \/ ShutdownWakes(t)
       \/ \E n \in 1 .. PermitsMax : Cy_SemaphorePost(t, n)
       \/ Cy_EventSignal(t) \/ Cy_EventReset(t)
       \/ NotifyOne(t) \/ NotifyAll(t)
       \/ Cy_TryWait(t) \/ \E isTimed \in BOOLEAN : WaitSleeps(t, isTimed)
       \/ WakesUnasked(t) \/ WaitEnds(t) \/ WaitGoesOn(t)

BSpec == BInit /\ [][BNext]_bvars
-------------------------------------------------------------------------------
\* The count stays under its limit, and nWaiterCount counts the threads inside a
\* wait whatever way they leave by: a permit, a timeout or a shutdown.
BTypeOK ==
  /\ kind \in {"semaphore", "auto", "manual"}
  /\ objectOpen \in BOOLEAN
  /\ nMaxCount \in 0 .. PermitsMax /\ nCount \in 0 .. nMaxCount
  /\ nWaiterCount = Cardinality(Asleep \union Woken)
  /\ wakes \in [Callers -> Nat]
  /\ \A t \in Callers : wakes[t] > 0 <=> doing[t] \in {"notifying", "notifyingAll"}
  /\ Cardinality(Doing({"closing", "closingWoken"})) <= 1

\* No permit is lost or made up: what a semaphore was given is either still there
\* or was taken by one wait, and one signal of an auto-reset event lets one through.
PermitsAccountedFor ==
  objectOpen => /\ kind = "semaphore" => nCount + taken = given
                /\ kind = "auto" => nCount + taken <= given

\* The notifications for one sleeper that are still to be sent.
Notifications ==
  {p \in Callers \X (1 .. PermitsMax) : doing[p[1]] = "notifying" /\ p[2] <= wakes[p[1]]}

\* A notification is sent after the mutex was left and may wake the wrong thread,
\* yet nobody oversleeps: while a waiter sleeps beside a permit, either every sleeper
\* is about to be notified or as many threads are on their way as there are permits.
NobodyOversleeps ==
  objectOpen /\ nCount > 0 /\ Asleep # {} =>
    \/ Doing({"notifyingAll"}) # {}
    \/ Cardinality(Asleep) <= Cardinality(Notifications)
    \/ /\ kind # "manual"
       /\ nCount <= Cardinality(Woken) + Cardinality(Notifications)

\* A shutdown comes back when no thread is inside a wait any more, and the thread
\* that waits for the last of them is never left asleep after that one has gone.
ShutdownOutlastsWaiters ==
  /\ ~objectOpen /\ Doing({"closing", "closingWoken"}) = {} => nWaiterCount = 0
  /\ Doing({"closing"}) # {} => nWaiterCount > 0
  /\ ~objectOpen => Asleep = {}

\* What a wait, a post, a timeout and a shutdown owe each other.
WaitersServed == PermitsAccountedFor /\ NobodyOversleeps /\ ShutdownOutlastsWaiters
=============================================================================

--------------------------- MODULE ResourcePromise ---------------------------
(***************************************************************************)
(* What the resource manager promises its clients, without tables, slots,  *)
(* generations or callbacks: each key is absent, being loaded, ready or    *)
(* being unloaded; a ready key is shared by the references acquired on it  *)
(* and goes away when the last one is released, or when the manager closes.*)
(***************************************************************************)
CONSTANTS Keys, Refs

VARIABLES phase, sharers, closing

pvars == <<phase, sharers, closing>>

Init ==
  /\ phase = [k \in Keys |-> "absent"]
  /\ sharers = [k \in Keys |-> {}]
  /\ closing = FALSE

Move(k, from, to) == phase[k] = from /\ phase' = [phase EXCEPT ![k] = to]

\* No reference is shared by two keys.
Unused(r) == \A k \in Keys : r \notin sharers[k]

StartLoad(k) ==
  ~closing /\ Move(k, "absent", "loading") /\ UNCHANGED <<sharers, closing>>

\* A key becomes ready complete, with the reference that asked for it.
Publish(k, r) ==
  /\ Move(k, "loading", "ready") /\ Unused(r)
  /\ sharers' = [sharers EXCEPT ![k] = {r}]
  /\ UNCHANGED closing

Abandon(k) == Move(k, "loading", "absent") /\ UNCHANGED <<sharers, closing>>

Join(k, r) ==
  /\ ~closing /\ phase[k] = "ready" /\ Unused(r)
  /\ sharers' = [sharers EXCEPT ![k] = @ \union {r}]
  /\ UNCHANGED <<phase, closing>>

Leave(k, r) ==
  /\ phase[k] = "ready" /\ r \in sharers[k]
  /\ sharers' = [sharers EXCEPT ![k] = @ \ {r}]
  /\ IF sharers[k] = {r} THEN Move(k, "ready", "unloading")
                         ELSE UNCHANGED phase
  /\ UNCHANGED closing

\* Only a closing manager takes a payload away from its sharers.
Evict(k) ==
  /\ closing /\ Move(k, "ready", "unloading")
  /\ sharers' = [sharers EXCEPT ![k] = {}]
  /\ UNCHANGED closing

Finish(k) == Move(k, "unloading", "absent") /\ UNCHANGED <<sharers, closing>>

\* Closing starts when nothing is in progress and ends when nothing is left.
Close ==
  /\ ~closing /\ \A k \in Keys : phase[k] \in {"absent", "ready"}
  /\ closing' = TRUE /\ UNCHANGED <<phase, sharers>>

Closed ==
  /\ closing /\ \A k \in Keys : phase[k] = "absent"
  /\ closing' = FALSE /\ UNCHANGED <<phase, sharers>>

Next ==
  \/ Close \/ Closed
  \/ \E k \in Keys :
       \/ StartLoad(k) \/ Abandon(k) \/ Evict(k) \/ Finish(k)
       \/ \E r \in Refs : Publish(k, r) \/ Join(k, r) \/ Leave(k, r)

Spec == Init /\ [][Next]_pvars
=============================================================================

---------------------------- MODULE ResourceIndex ----------------------------
(***************************************************************************)
(* What the resource manager needs of its tables: a map from identities to *)
(* slots, a last-in first-out list of free slots and a list of published   *)
(* slots in the order they were published.  CypherResource uses the tables *)
(* this way and ResourceTables, the tables of the code, provides it.       *)
(***************************************************************************)
EXTENDS Naturals, Sequences

CONSTANTS Ids, SlotCount, NoSlot

Slots == 0 .. SlotCount - 1

VARIABLES index, free, live

ivars == <<index, free, live>>

Used(s) == \E i \in Ids : index[i] = s
Listed(s) == \E n \in DOMAIN live : live[n] = s

Init ==
  /\ index = [i \in Ids |-> NoSlot]
  /\ free = [n \in 1 .. SlotCount |-> n - 1]
  /\ live = <<>>

Reserve(i) ==
  /\ index[i] = NoSlot /\ free # <<>>
  /\ index' = [index EXCEPT ![i] = Head(free)]
  /\ free' = Tail(free)
  /\ UNCHANGED live

Publish(s) ==
  /\ Used(s) /\ ~Listed(s)
  /\ live' = Append(live, s)
  /\ UNCHANGED <<index, free>>

Retire(n) ==
  /\ live' = SubSeq(live, 1, n - 1) \o SubSeq(live, n + 1, Len(live))
  /\ UNCHANGED <<index, free>>

Recycle(i) ==
  /\ index[i] # NoSlot /\ ~Listed(index[i])
  /\ index' = [index EXCEPT ![i] = NoSlot]
  /\ free' = <<index[i]>> \o free
  /\ UNCHANGED live

\* The tables are freed and made anew, only when nothing is in them.
Reset ==
  /\ live = <<>> /\ \A i \in Ids : index[i] = NoSlot
  /\ index' = [i \in Ids |-> NoSlot]
  /\ free' = [n \in 1 .. SlotCount |-> n - 1]
  /\ UNCHANGED live

Next ==
  \/ Reset
  \/ \E i \in Ids : Reserve(i) \/ Recycle(i)
  \/ \E s \in Slots : Publish(s)
  \/ \E n \in DOMAIN live : Retire(n)

Spec == Init /\ [][Next]_ivars
=============================================================================

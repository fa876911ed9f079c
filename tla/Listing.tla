------------------------------- MODULE Listing -------------------------------
(***************************************************************************)
(* A set of numbers as a list: what a loop over a table in the order of    *)
(* its slots, or a sort of numbered files, leaves; and what is left of a   *)
(* list when a loop over it leaves some of its entries out.                *)
(***************************************************************************)
EXTENDS Naturals, FiniteSets

\* So many of the numbers are not above the n-th one.
Rank(numbered, i) == Cardinality({j \in numbered : j <= i})

\* The numbers of a finite set, lowest first.
Ascending(numbered) ==
  [n \in 1 .. Cardinality(numbered) |-> CHOOSE i \in numbered : Rank(numbered, i) = n]

\* What a list has at these places, in their order.
Picked(list, places) == [n \in 1 .. Cardinality(places) |-> list[Ascending(places)[n]]]
=============================================================================

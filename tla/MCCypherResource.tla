-------------------------- MODULE MCCypherResource --------------------------
(***************************************************************************)
(* Values for the functions of CypherResource.  Two types of which one has *)
(* two keys, two keys that hash to the same identity, and the same without *)
(* collisions; symmetry in the references, and in the keys where one type  *)
(* and distinct identities make them interchangeable.                      *)
(***************************************************************************)
EXTENDS CypherResource, TLC

CONSTANTS k1, k2, k3, t1, t2, id1, id2

TwoTypes == k1 :> t1 @@ k2 :> t1 @@ k3 :> t2
OneType == [k \in Keys |-> t1]
Colliding == k1 :> id1 @@ k2 :> id2 @@ k3 :> id1
Distinct == [k \in Keys |-> k]

RefSymmetry == Permutations(Refs)
KeyAndRefSymmetry == Permutations(Refs) \union Permutations(Keys)
=============================================================================

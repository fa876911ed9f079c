------------------------- MODULE MCResourceRegistry -------------------------
(***************************************************************************)
(* The resource manager and the tables in its block, side by side in one   *)
(* run: a behaviour runs the one that `part` names.  Identities are told   *)
(* apart by their hash alone, so the tables start with one of the hash     *)
(* functions that give the same hashes to different identities.            *)
(***************************************************************************)
EXTENDS MCCypherResource, ResourceTables

CONSTANT Parts   \* the parts a run checks
VARIABLE part

registryVars == <<part, vars, tvars>>

RegistryInit ==
  /\ part \in Parts /\ Init /\ TInit
  /\ \A i, j \in Identities : i <= j => hash[i] <= hash[j]
  /\ part # "tables" => \A i \in Identities : hash[i] = 0

RegistryNext ==
  \/ part = "manager" /\ Next /\ UNCHANGED <<part, tvars>>
  \/ part = "tables" /\ TNext /\ UNCHANGED <<part, vars>>

RegistrySpec == RegistryInit /\ [][RegistryNext]_registryVars
=============================================================================

------------------------------ MODULE MCEngine ------------------------------
(***************************************************************************)
(* The engine around the resource manager and the file system: its host,   *)
(* its renderer, its world, and the containers and primitives below them,  *)
(* checked side by side in one run: a behaviour runs the one that `part`   *)
(* names, and the choices that the others start with are made for them.    *)
(***************************************************************************)
EXTENDS
  GenerationPool, EventBus, World, CallQueue,
  Mutex, WaitObject, TsList, Renderer, Host

CONSTANT Parts   \* the parts a run checks
VARIABLE part

EngineInit ==
  /\ part \in Parts
  /\ GInit /\ EInit /\ WInit /\ QInit
  /\ XInit /\ BInit /\ LInit /\ RInit /\ HInit
  /\ part # "bus" => eventId = CHOOSE e \in EventIds : TRUE
  /\ part # "mutex" => recursive

EngineNext ==
  \/ /\ part = "pool" /\ GNext
     /\ UNCHANGED <<part, evars, wvars, qvars, xvars, bvars, lvars, rvars, hvars>>
  \/ /\ part = "bus" /\ ENext
     /\ UNCHANGED <<part, gvars, wvars, qvars, xvars, bvars, lvars, rvars, hvars>>
  \/ /\ part = "world" /\ WNext
     /\ UNCHANGED <<part, gvars, evars, qvars, xvars, bvars, lvars, rvars, hvars>>
  \/ /\ part = "calls" /\ QNext
     /\ UNCHANGED <<part, gvars, evars, wvars, xvars, bvars, lvars, rvars, hvars>>
  \/ /\ part = "mutex" /\ XNext
     /\ UNCHANGED <<part, gvars, evars, wvars, qvars, bvars, lvars, rvars, hvars>>
  \/ /\ part = "waits" /\ BNext
     /\ UNCHANGED <<part, gvars, evars, wvars, qvars, xvars, lvars, rvars, hvars>>
  \/ /\ part = "lists" /\ LNext
     /\ UNCHANGED <<part, gvars, evars, wvars, qvars, xvars, bvars, rvars, hvars>>
  \/ /\ part = "renderer" /\ RNext
     /\ UNCHANGED <<part, gvars, evars, wvars, qvars, xvars, bvars, lvars, hvars>>
  \/ /\ part = "host" /\ HNext
     /\ UNCHANGED <<part, gvars, evars, wvars, qvars, xvars, bvars, lvars, rvars>>

engineVars ==
  <<part, gvars, evars, wvars, qvars, xvars, bvars, lvars, rvars, hvars>>

EngineSpec == EngineInit /\ [][EngineNext]_engineVars

\* The state of every part has its shape, among it what the IsValid functions of the
\* bus, the tables and the queue audit.
EngineTypeOK ==
  /\ GTypeOK /\ ETypeOK /\ WTypeOK /\ QTypeOK
  /\ XTypeOK /\ BTypeOK /\ LTypeOK /\ RTypeOK /\ HTypeOK
=============================================================================

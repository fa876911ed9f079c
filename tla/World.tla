-------------------------------- MODULE World --------------------------------
(***************************************************************************)
(* The object table of a world (src/CypherWorld/CypherWorld_Public.cpp)    *)
(* over HandleTable, and the submissions built from it for a view          *)
(* (src/CypherWorld/Submission/CypherWorld_Submission.cpp).  An object is  *)
(* one of a few contents, and a view accepts some of them.  Handles come   *)
(* round when generations wrap; serials and incarnations never do: at      *)
(* their limit the code refuses.                                           *)
(***************************************************************************)
EXTENDS HandleTable

CONSTANTS
  Objects,             \* contents of an object
  WorldCapacity, SubmissionCapacity,
  WorldSerialMax, SubmissionSerialMax,
  IncarnationMax, BuildMax      \* each is CY_U64_MAX

ASSUME WorldAssumption ==
  /\ WorldCapacity \in 1 .. CapacityMax /\ SubmissionCapacity \in Nat \ {0}
  /\ WorldSerialMax \in Nat /\ SubmissionSerialMax \in Nat
  /\ IncarnationMax \in Nat /\ BuildMax \in Nat

VARIABLES
  gLastWorldSerial, gLastSubmissionSerial,
  objects, serial, lastIncarnation,               \* world_t; serial 0: no world
  submission,                                     \* world_submission_t; serial 0: none
  ids,        \* the ids handed out, and whether their object is still there
  tokens      \* the tokens handed out, and what was submitted under them

world == <<gLastWorldSerial, objects, serial, lastIncarnation, ids>>
submitted == <<gLastSubmissionSerial, submission, tokens>>
wvars == <<world, submitted>>

NoSubmission ==
  [serial |-> 0, generation |-> 0, active |-> FALSE, count |-> 0, pRecords |-> <<>>]

\* A slip: the handle decides.
SlotDecides(id) == id.worldSerial = serial /\ Resolves(objects, id.slot)

IsLiveId(id) ==
  /\ id.worldSerial = serial /\ Resolves(objects, id.slot)
  /\ Get(objects, id.slot).incarnation = id.incarnation

-----------------------------------------------------------------------------
World_Init ==
  /\ serial = 0 /\ gLastWorldSerial < WorldSerialMax
  /\ serial' = gLastWorldSerial + 1 /\ gLastWorldSerial' = serial'
  /\ objects' = Reserved(EmptyTable, WorldCapacity)
  /\ lastIncarnation' = 0
  /\ UNCHANGED <<ids, submitted>>

World_Shutdown ==
  /\ serial' = 0
  /\ objects' = EmptyTable /\ lastIncarnation' = 0
  /\ ids' = {[i EXCEPT !.present = FALSE] : i \in ids}
  /\ UNCHANGED <<gLastWorldSerial, submitted>>

World_AddObject ==
  /\ serial # 0 /\ Count(objects) < WorldCapacity
  /\ lastIncarnation < IncarnationMax
  /\ lastIncarnation' = lastIncarnation + 1
  /\ \E o \in Objects :
       objects' = Emplace(objects, [object |-> o, incarnation |-> lastIncarnation'])
  /\ ids' = ids \cup {[id |-> [slot |-> HandleOf(objects, Head(objects.free)),
                               worldSerial |-> serial,
                               incarnation |-> lastIncarnation'],
                       present |-> TRUE]}
  /\ UNCHANGED <<gLastWorldSerial, serial, submitted>>

\* Any id that was ever handed out may be given back, stale ones too.
World_RemoveObject ==
  /\ \E i \in ids :
       /\ IsLiveId(i.id)
       /\ objects' = Removed(objects, i.id.slot)
       /\ ids' = (ids \ {i}) \cup {[i EXCEPT !.present = FALSE]}
  /\ UNCHANGED <<gLastWorldSerial, serial, lastIncarnation, submitted>>

World_UpdateObject ==
  /\ \E i \in ids, o \in Objects :
       /\ IsLiveId(i.id)
       /\ objects' = Assigned(objects, i.id.slot,
                              [object |-> o, incarnation |-> Get(objects, i.id.slot).incarnation])
  /\ UNCHANGED <<gLastWorldSerial, serial, lastIncarnation, ids, submitted>>

\* World_QueryView: the objects that the view accepts, in the order of slots.
QueryView(accepted) ==
  LET seen == {i \in Occupied(objects) : objects.slots[i].value.object \in accepted}
  IN  [n \in 1 .. Cardinality(seen) |->
         objects.slots[Ascending(seen)[n]].value]

-----------------------------------------------------------------------------
WorldSubmission_Init ==
  /\ submission.serial = 0 /\ gLastSubmissionSerial < SubmissionSerialMax
  /\ gLastSubmissionSerial' = gLastSubmissionSerial + 1
  /\ submission' = [NoSubmission EXCEPT !.serial = gLastSubmissionSerial']
  /\ UNCHANGED <<world, tokens>>

WorldSubmission_Shutdown ==
  /\ submission' = NoSubmission
  /\ UNCHANGED <<world, gLastSubmissionSerial, tokens>>

WorldSubmission_Build ==
  /\ submission.serial # 0 /\ serial # 0 /\ ~submission.active
  /\ submission.generation < BuildMax
  /\ \E accepted \in SUBSET Objects :
       LET seen == QueryView(accepted)
           token == [storageSerial |-> submission.serial,
                     generation |-> submission.generation + 1]
       IN  /\ Len(seen) <= SubmissionCapacity
           /\ submission' = [submission EXCEPT
                !.pRecords = seen \o SubSeq(@, Len(seen) + 1, Len(@)),
                !.count = Len(seen), !.generation = token.generation, !.active = TRUE]
           /\ tokens' = tokens \cup {[token |-> token, seen |-> seen, ended |-> FALSE]}
  /\ UNCHANGED <<world, gLastSubmissionSerial>>

WorldSubmission_End ==
  /\ submission.serial # 0
  /\ submission' = [submission EXCEPT !.active = FALSE, !.count = 0]
  /\ tokens' = {[t EXCEPT !.ended = TRUE] : t \in tokens}
  /\ UNCHANGED <<world, gLastSubmissionSerial>>

IsCurrentToken(token) ==
  /\ submission.active
  /\ token.storageSerial = submission.serial
  /\ token.generation = submission.generation

WInit ==
  /\ gLastWorldSerial = 0 /\ gLastSubmissionSerial = 0
  /\ objects = EmptyTable /\ serial = 0 /\ lastIncarnation = 0
  /\ submission = NoSubmission /\ ids = {} /\ tokens = {}

WNext ==
  \/ World_Init \/ World_Shutdown
  \/ World_AddObject \/ World_RemoveObject \/ World_UpdateObject
  \/ WorldSubmission_Init \/ WorldSubmission_Shutdown
  \/ WorldSubmission_Build \/ WorldSubmission_End

WSpec == WInit /\ [][WNext]_wvars

-----------------------------------------------------------------------------
(* Properties. *)

\* An id names the object it was handed out for as long as that object is in the
\* world, and nothing afterwards: not when its slot is used again, not when the
\* generation of the slot has come round, not in another world.
IdsNameTheirObject == \A i \in ids : IsLiveId(i.id) <=> i.present

\* Whoever holds a token reads what was submitted under it, whatever became of
\* the world, and reads nothing once the submission ended or its storage was
\* used again.
TokensReadTheirBuild ==
  \A t \in tokens : IsCurrentToken(t.token) =>
    ~t.ended /\ SubSeq(submission.pRecords, 1, submission.count) = t.seen

WTypeOK ==
  /\ gLastWorldSerial \in 0 .. WorldSerialMax
  /\ gLastSubmissionSerial \in 0 .. SubmissionSerialMax
  /\ serial \in {0, gLastWorldSerial} /\ lastIncarnation \in 0 .. IncarnationMax
  /\ serial # 0 => TableSound(objects) /\ Len(objects.slots) = WorldCapacity
  /\ submission.serial \in {0, gLastSubmissionSerial}
  /\ submission.count \in 0 .. SubmissionCapacity
  /\ submission.count <= Len(submission.pRecords)

\* Ids and tokens kept by callers name what they were handed out for, or nothing.
NamesStayTrue == IdsNameTheirObject /\ TokensReadTheirBuild
=============================================================================

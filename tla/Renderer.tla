------------------------------- MODULE Renderer -------------------------------
(***************************************************************************)
(* The renderer front end (src/CypherRender): seven resource systems that  *)
(* R_Init starts and R_Shutdown stops, the records in them, the references *)
(* that records hold on other records, and frames and target passes.  What *)
(* a backend does is left out; it may refuse or fail any call.  Names      *)
(* stand for handles; HandleTable shows that a stale one is refused.       *)
(***************************************************************************)
EXTENDS Naturals, FiniteSets, SequencesExt

CONSTANTS
  Buffers, VertexInputs, Shaders, Pipelines, Textures, Samplers, Targets,
  NoTarget,        \* R_INVALID_TARGET
  ReferenceMax,    \* CY_U32_MAX
  BindingsMax      \* bound on the buffers of a vertex input or of a draw

Used == Buffers \cup Shaders \cup Textures
Users == VertexInputs \cup Pipelines \cup Targets
Renderables == Used \cup Users \cup Samplers

RecordsOf(system) ==
  CASE system = "buffer" -> Buffers [] system = "vertexInput" -> VertexInputs
    [] system = "shader" -> Shaders [] system = "pipeline" -> Pipelines
    [] system = "texture" -> Textures [] system = "sampler" -> Samplers
    [] system = "target" -> Targets

StartOrder ==
  <<"buffer", "vertexInput", "shader", "pipeline", "texture", "sampler", "target">>

StopOrder ==
  <<"target", "pipeline", "sampler", "texture", "shader", "vertexInput", "buffer">>

\* Every system has handles of its own, and a table of fixed capacity.
ASSUME RendererAssumption ==
  /\ NoTarget \notin Targets
  /\ ReferenceMax \in Nat \ {0} /\ BindingsMax \in Nat \ {0}
  /\ IsFiniteSet(Users)
  /\ \A s, r \in ToSet(StartOrder) : s # r => RecordsOf(s) \cap RecordsOf(r) = {}

VARIABLES
  backendUp, initialized, frameActive, activeTarget,    \* tr
  ready,           \* the systems that are initialised
  toStart, toStop, \* what is left of R_Init, or of R_Shutdown or a rollback
  present,         \* records in the tables
  references,      \* references held on each record
  uses,            \* the records that each record holds references on
  mapped           \* buffers that are mapped

tr == <<backendUp, initialized, frameActive, activeTarget>>
systems == <<ready, toStart, toStop>>
records == <<present, references, uses, mapped>>
rvars == <<tr, systems, records>>

Idle == toStart = <<>> /\ toStop = <<>>
Usable == initialized /\ Idle

-----------------------------------------------------------------------------
(* References. *)

\* What `holders` hold on o: every place at which one of them binds it.
Bound(holders, o) ==
  {p \in holders \X (1 .. BindingsMax + 1) :
     p[2] \in DOMAIN uses[p[1]] /\ uses[p[1]][p[2]] = o}

Occurrences(inputs, o) == Cardinality({i \in DOMAIN inputs : inputs[i] = o})
Added(counts, inputs) == [o \in Used |-> counts[o] + Occurrences(inputs, o)]
Dropped(counts, inputs) == [o \in Used |-> counts[o] - Occurrences(inputs, o)]

\* R_BufferAcquireReference and its like refuse the i-th input.
AtLimit(inputs, i) ==
  references[inputs[i]] + Occurrences(SubSeq(inputs, 1, i - 1), inputs[i]) >=
    ReferenceMax

Refusals(inputs) == {i \in DOMAIN inputs : inputs[i] \in mapped \/ AtLimit(inputs, i)}

\* The inputs acquired one after another until one is refused.
AcquiredOf(inputs) == SubSeq(inputs, 1, Min(Refusals(inputs) \cup {Len(inputs) + 1}) - 1)

\* A slip: a creation that fails gives back all of its inputs.
AllInputs(inputs) == inputs

ReleasedOnFailure(inputs) == AcquiredOf(inputs)

\* A refused input, or a failure of the backend or of the table after the last.
AcquiresInVain(inputs) ==
  references' = Dropped(Added(references, AcquiredOf(inputs)), ReleasedOnFailure(inputs))

-----------------------------------------------------------------------------
(* R_Init and R_Shutdown. *)

\* The backend starts, and is published for a rollback.
R_Init ==
  /\ Idle /\ ~initialized
  /\ backendUp' = TRUE /\ toStart' = StartOrder
  /\ UNCHANGED <<initialized, frameActive, activeTarget, ready, toStop, records>>

\* R_CommitBackendInitialization: the next system starts.
SystemStarts ==
  /\ toStart # <<>> /\ Head(toStart) \notin ready
  /\ ready' = ready \cup {Head(toStart)} /\ toStart' = Tail(toStart)
  /\ IF Tail(toStart) = <<>>
     THEN initialized' = TRUE /\ frameActive' = FALSE /\ UNCHANGED <<backendUp, activeTarget>>
     ELSE UNCHANGED tr
  /\ UNCHANGED <<toStop, records>>

\* A slip: the system started last is left running.
LastForgotten(started) == Reverse(SubSeq(StartOrder, 1, started - 1))

RolledBack(started) == Reverse(SubSeq(StartOrder, 1, started))

\* Its table cannot be allocated, or it is initialised already.
SystemFails ==
  /\ toStart # <<>>
  /\ toStop' = Append(RolledBack(Len(StartOrder) - Len(toStart)), "backend")
  /\ toStart' = <<>>
  /\ UNCHANGED <<tr, ready, records>>

R_Shutdown ==
  /\ Usable /\ ~frameActive
  /\ toStop' = Append(StopOrder, "backend")
  /\ UNCHANGED <<tr, ready, toStart, records>>

\* Every record goes, whatever the backend answers, and gives back what it holds.
SystemStops ==
  /\ toStop # <<>> /\ Head(toStop) # "backend"
  /\ LET gone == RecordsOf(Head(toStop)) \cap present
     IN  /\ present' = present \ gone
         /\ references' = [o \in Used |->
                             IF o \in gone THEN 0
                             ELSE references[o] - Cardinality(Bound(gone \cap Users, o))]
         /\ uses' = [u \in Users |-> IF u \in gone THEN <<>> ELSE uses[u]]
         /\ mapped' = mapped \ gone
  /\ ready' = ready \ {Head(toStop)} /\ toStop' = Tail(toStop)
  /\ UNCHANGED <<tr, toStart>>

\* The backend is shut down and tr is cleared.
BackendStops ==
  /\ toStop # <<>> /\ Head(toStop) = "backend"
  /\ toStop' = <<>>
  /\ backendUp' = FALSE /\ initialized' = FALSE
  /\ frameActive' = FALSE /\ activeTarget' = NoTarget
  /\ UNCHANGED <<ready, toStart, records>>

-----------------------------------------------------------------------------
(* Records that hold no references. *)

Create(o) ==
  /\ Usable /\ o \in (Used \cup Samplers) \ present
  /\ present' = present \cup {o}
  /\ UNCHANGED <<tr, systems, references, uses, mapped>>

Busy(o) == o \in Used /\ (references[o] # 0 \/ o \in mapped)

\* When the backend fails the record stays.
Destroy(o) ==
  /\ Usable /\ o \in (Used \cup Samplers) \cap present /\ ~Busy(o)
  /\ present' = present \ {o}
  /\ UNCHANGED <<tr, systems, references, uses, mapped>>

\* R_MapBuffer does not look at the references.
R_MapBuffer(b) ==
  /\ Usable /\ b \in (Buffers \cap present) \ mapped
  /\ mapped' = mapped \cup {b}
  /\ UNCHANGED <<tr, systems, present, references, uses>>

\* Unmapped also when the backend fails.
R_UnmapBuffer(b) ==
  /\ Usable /\ b \in mapped
  /\ mapped' = mapped \ {b}
  /\ UNCHANGED <<tr, systems, present, references, uses>>

-----------------------------------------------------------------------------
(* Records that do: R_CreateVertexInput, R_CreateGraphicsPipeline and        *)
(* R_CreateRenderTarget.  A buffer may be bound more than once.              *)

Bindings(n) == UNION {[1 .. k -> Buffers \cap present] : k \in 1 .. n}

InputsOf(u) ==
  IF u \in VertexInputs
  THEN {b \in Bindings(BindingsMax) : ToSet(b) \cap mapped = {}}
  ELSE IF u \in Pipelines THEN [{1} -> Shaders \cap present]
  ELSE [{1} -> Textures \cap present]
         \cup {<<p[1], p[2]>> : p \in {q \in (Textures \cap present) \X
                                             (Textures \cap present) : q[1] # q[2]}}

\* Targets are made and destroyed between frames only.
BetweenFrames(u) == u \in Targets => ~frameActive

CreateUser(u) ==
  /\ Usable /\ u \in Users \ present /\ BetweenFrames(u)
  /\ \E inputs \in InputsOf(u) :
       \/ /\ Refusals(inputs) = {}
          /\ references' = Added(references, inputs)
          /\ uses' = [uses EXCEPT ![u] = inputs] /\ present' = present \cup {u}
       \/ AcquiresInVain(inputs) /\ UNCHANGED <<uses, present>>
  /\ UNCHANGED <<tr, systems, mapped>>

DestroyUser(u) ==
  /\ Usable /\ u \in Users \cap present /\ BetweenFrames(u)
  /\ references' = Dropped(references, uses[u])
  /\ uses' = [uses EXCEPT ![u] = <<>>] /\ present' = present \ {u}
  /\ UNCHANGED <<tr, systems, mapped>>

-----------------------------------------------------------------------------
(* Frames. *)

R_BeginFrame ==
  /\ Usable /\ ~frameActive
  /\ frameActive' = TRUE
  /\ UNCHANGED <<backendUp, initialized, activeTarget, systems, records>>

\* Refused inside a pass.  A frame whose present failed is consumed too.
R_EndFrame ==
  /\ Usable /\ frameActive /\ activeTarget = NoTarget
  /\ frameActive' = FALSE
  /\ UNCHANGED <<backendUp, initialized, activeTarget, systems, records>>

R_BeginTargetPass(t) ==
  /\ Usable /\ frameActive /\ activeTarget = NoTarget /\ t \in Targets \cap present
  /\ activeTarget' = t
  /\ UNCHANGED <<backendUp, initialized, frameActive, systems, records>>

R_EndTargetPass ==
  /\ Usable /\ frameActive /\ activeTarget # NoTarget
  /\ activeTarget' = NoTarget
  /\ UNCHANGED <<backendUp, initialized, frameActive, systems, records>>

\* The uniform buffers are held during the draw and given back after it, also
\* when one of them is refused.
R_DrawIndexed(p, v) ==
  /\ Usable /\ frameActive /\ {p, v} \subseteq present
  /\ ToSet(uses[v]) \cap mapped = {}
  /\ \E uniforms \in Bindings(BindingsMax) : AcquiresInVain(uniforms)
  /\ UNCHANGED <<tr, systems, present, uses, mapped>>

RInit ==
  /\ backendUp = FALSE /\ initialized = FALSE
  /\ frameActive = FALSE /\ activeTarget = NoTarget
  /\ ready = {} /\ toStart = <<>> /\ toStop = <<>>
  /\ present = {} /\ mapped = {}
  /\ references = [o \in Used |-> 0] /\ uses = [u \in Users |-> <<>>]

RNext ==
  \/ R_Init \/ SystemStarts \/ SystemFails
  \/ R_Shutdown \/ SystemStops \/ BackendStops
  \/ \E o \in Used \cup Samplers : Create(o) \/ Destroy(o)
  \/ \E b \in Buffers : R_MapBuffer(b) \/ R_UnmapBuffer(b)
  \/ \E u \in Users : CreateUser(u) \/ DestroyUser(u)
  \/ R_BeginFrame \/ R_EndFrame \/ R_EndTargetPass
  \/ \E t \in Targets : R_BeginTargetPass(t)
  \/ \E p \in Pipelines, v \in VertexInputs : R_DrawIndexed(p, v)

RSpec == RInit /\ [][RNext]_rvars

-----------------------------------------------------------------------------
(* Properties. *)

\* The counts stay within 32 bits.
RTypeOK ==
  /\ {backendUp, initialized, frameActive} \subseteq BOOLEAN
  /\ activeTarget \in Targets \cup {NoTarget}
  /\ ready \subseteq ToSet(StartOrder)
  /\ present \subseteq Renderables /\ mapped \subseteq Buffers \cap present
  /\ references \in [Used -> 0 .. ReferenceMax]
  /\ DOMAIN uses = Users /\ \A u \in Users : ToSet(uses[u]) \subseteq Used

\* The references on a record are those that the records in the tables hold on it,
\* one for each time it is bound, whichever creations and draws were given up half
\* way.
UsesCounted == \A o \in Used : references[o] = Cardinality(Bound(Users, o))

\* What a record was built from is in its table for as long as the record is, also
\* while the systems are stopped one by one.
InputsOutliveUsers == \A u \in present \cap Users : ToSet(uses[u]) \subseteq present

\* The target of the pass that is open is in its table, and no pass is open outside
\* a frame, so R_Shutdown, which only looks for a frame, finds none.
OpenPassHasTarget == activeTarget # NoTarget => frameActive /\ activeTarget \in present

\* When R_Init has failed, wherever it did, or R_Shutdown is over, nothing is left
\* that would make the next R_Init fail or leak.
CleanWhenDown ==
  Idle /\ ~initialized => ~backendUp /\ ready = {} /\ present = {}

\* References are counted, and what they are counted for is what they protect.
ReferencesProtect == UsesCounted /\ InputsOutliveUsers /\ OpenPassHasTarget

\* However creations and R_Init fail half way and in whatever order things are
\* destroyed, no record goes before its last user, none stays because a reference
\* on it was never given back, and a renderer that is down can be started again.
RendererSound == ReferencesProtect /\ CleanWhenDown
=============================================================================

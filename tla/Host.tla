--------------------------------- MODULE Host ---------------------------------
(***************************************************************************)
(* The engine host (src/CypherEngine/CypherHost/CypherHost.cpp) and the    *)
(* loop of main.cpp around it: nine services are started in the order of   *)
(* their dependencies and unwound when one of them, or a step of the       *)
(* configuration, fails; frames are driven until a shutdown is requested.  *)
(* Each start and stop of a service is a step.  Of the renderer the host   *)
(* sees that a frame is open, and whether a pass is open in it.            *)
(***************************************************************************)
EXTENDS Naturals, FiniteSets, SequencesExt

CONSTANT
  SubmitClosesPass    \* whether the client's submit ends every pass it begins

ASSUME HostAssumption == SubmitClosesPass \in BOOLEAN

Services ==
  <<"system", "log", "memory", "filesystem", "command", "cvar", "config",
    "window", "renderer">>

CoreServices == 7       \* those of Host_InitCoreEngineSystems

VARIABLES
  stage, hostRunning, rendererInitialized,    \* state_t
  up,                \* the services that are up
  hostPc, stopping,  \* where main is, and the services left to stop
  frame,             \* of the renderer: "none", "open" or "pass"
  asked              \* a shutdown was requested since the frames began

hvars == <<stage, hostRunning, rendererInitialized, up, hostPc, stopping, frame, asked>>

\* Host_RequestShutdown, in a running host.
RequestShutdown ==
  hostRunning' = FALSE /\ stage' = "SHUTTINGDOWN" /\ asked' = TRUE

NoRequest == UNCHANGED <<stage, hostRunning, asked>>

-----------------------------------------------------------------------------
(* Host_Init. *)

Host_Init ==
  /\ hostPc = "main" /\ stage \in {"UNINITIALIZED", "SHUTDOWN"}
  /\ ~rendererInitialized /\ "window" \notin up
  /\ stage' = "INITIALIZING" /\ hostRunning' = FALSE /\ asked' = FALSE
  /\ hostPc' = "start"
  /\ UNCHANGED <<rendererInitialized, up, stopping, frame>>

NextService == Services[Cardinality(up) + 1]

AfterStart(service) ==
  IF service = "renderer" THEN "finish" ELSE IF service = "config" THEN "configure" ELSE "start"

ServiceStarts ==
  /\ hostPc = "start"
  /\ up' = up \cup {NextService} /\ hostPc' = AfterStart(NextService)
  /\ rendererInitialized' = (NextService = "renderer")
  /\ UNCHANGED <<stage, hostRunning, stopping, frame, asked>>

\* A slip: the unwinding begins one service too low.
UnwindsBelow(started) == Reverse(SubSeq(Services, 1, started - 1))

Unwinds(started) == Reverse(SubSeq(Services, 1, started))

\* Host_Shutdown.
StopOfAll == Reverse(Services)

Stops(services) ==
  /\ stage' = "SHUTDOWN" /\ hostRunning' = FALSE
  /\ stopping' = services /\ hostPc' = "stop"

\* A core service unwinds those below it by hand; later Host_Shutdown does.
ServiceFails ==
  /\ hostPc = "start"
  /\ Stops(IF Cardinality(up) < CoreServices THEN Unwinds(Cardinality(up)) ELSE StopOfAll)
  /\ UNCHANGED <<rendererInitialized, up, frame, asked>>

\* Mounts, builtin variables and commands, the startup configuration, in which a
\* quit may run, and what is applied from it.
Configures ==
  /\ hostPc = "configure"
  /\ \/ hostPc' = "start" /\ stage' \in {stage, "SHUTTINGDOWN"}
        /\ UNCHANGED <<hostRunning, stopping>>
     \/ Stops(StopOfAll)
  /\ UNCHANGED <<rendererInitialized, up, frame, asked>>

\* Host_FinishInit.
FinishInit ==
  /\ hostPc = "finish"
  /\ hostRunning' = TRUE /\ stage' = "RUNNING" /\ hostPc' = "loop"
  /\ UNCHANGED <<rendererInitialized, up, stopping, frame, asked>>

-----------------------------------------------------------------------------
(* Host_Shutdown, and the unwinding of Host_InitCoreEngineSystems. *)

StopsNext ==
  /\ hostPc = "stop" /\ stopping # <<>>
  /\ stopping' = Tail(stopping)
  \* R_Shutdown, which refuses inside a frame; the flag is cleared all the same.
  /\ up' = IF Head(stopping) = "renderer" /\ (~rendererInitialized \/ frame # "none")
           THEN up ELSE up \ {Head(stopping)}
  /\ rendererInitialized' = (rendererInitialized /\ Head(stopping) # "renderer")
  /\ UNCHANGED <<stage, hostRunning, hostPc, frame, asked>>

Stopped ==
  /\ hostPc = "stop" /\ stopping = <<>>
  /\ hostPc' = "main"
  /\ UNCHANGED <<stage, hostRunning, rendererInitialized, up, stopping, frame, asked>>

-----------------------------------------------------------------------------
(* The loop of main. *)

IsRunning == hostRunning /\ stage \notin {"SHUTTINGDOWN", "SHUTDOWN"}

\* Host_IsRunning and Host_BeginFrame, or Host_Shutdown.
BeginFrame ==
  /\ hostPc = "loop" /\ IsRunning
  /\ hostPc' = "update"
  /\ UNCHANGED <<stage, hostRunning, rendererInitialized, up, stopping, frame, asked>>

LoopEnds ==
  /\ hostPc = "loop" /\ ~IsRunning
  /\ Stops(StopOfAll)
  /\ UNCHANGED <<rendererInitialized, up, frame, asked>>

\* Host_Update; the window may have been closed.
Update ==
  /\ hostPc = "update" /\ hostPc' = "render"
  /\ NoRequest \/ RequestShutdown
  /\ UNCHANGED <<rendererInitialized, up, stopping, frame>>

\* Host_Render up to R_BeginFrame: nothing is drawn into a window that was closed or
\* cannot be drawn into; when R_Resize or R_BeginFrame fails the host stops.
RenderBegins ==
  /\ hostPc = "render"
  /\ \/ hostPc' = "end" /\ NoRequest /\ UNCHANGED frame
     \/ /\ stage = "RUNNING" /\ hostRunning
        /\ \/ frame = "none" /\ hostPc' = "submit" /\ frame' = "open" /\ NoRequest
           \/ hostPc' = "end" /\ RequestShutdown /\ UNCHANGED frame
  /\ UNCHANGED <<rendererInitialized, up, stopping>>

\* The client's submit, and R_EndFrame, which is called whatever the submission
\* answered and refuses inside a pass.
RenderSubmits ==
  /\ hostPc = "submit" /\ hostPc' = "end"
  /\ \E failed, presentFails \in BOOLEAN, left \in {"open", "pass"} :
       /\ SubmitClosesPass => left = "open"
       /\ frame' = IF left = "open" THEN "none" ELSE left
       /\ IF failed \/ presentFails \/ left = "pass" THEN RequestShutdown ELSE NoRequest
  /\ UNCHANGED <<rendererInitialized, up, stopping>>

\* Host_EndFrame.
EndFrame ==
  /\ hostPc = "end" /\ hostPc' = "loop"
  /\ stage' = IF stage = "SHUTTINGDOWN" THEN "SHUTDOWN" ELSE stage
  /\ hostRunning' = (hostRunning /\ stage # "SHUTTINGDOWN")
  /\ UNCHANGED <<rendererInitialized, up, stopping, frame, asked>>

HInit ==
  /\ stage = "UNINITIALIZED" /\ hostRunning = FALSE /\ rendererInitialized = FALSE
  /\ up = {} /\ hostPc = "main" /\ stopping = <<>> /\ frame = "none" /\ asked = FALSE

HNext ==
  \/ Host_Init \/ ServiceStarts \/ ServiceFails \/ Configures \/ FinishInit
  \/ StopsNext \/ Stopped
  \/ BeginFrame \/ LoopEnds \/ Update \/ RenderBegins \/ RenderSubmits \/ EndFrame

HSpec == HInit /\ [][HNext]_hvars

-----------------------------------------------------------------------------
(* Properties. *)

HTypeOK ==
  /\ stage \in {"UNINITIALIZED", "INITIALIZING", "RUNNING", "SHUTTINGDOWN", "SHUTDOWN"}
  /\ {hostRunning, rendererInitialized, asked} \subseteq BOOLEAN
  /\ up \subseteq ToSet(Services) /\ frame \in {"none", "open", "pass"}
  /\ hostRunning => /\ hostPc \in {"loop", "update", "render", "submit", "end"}
                    /\ up = ToSet(Services)

\* A service is up only while all those before it are, wherever a start fails and
\* at every step of a shutdown: the renderer goes before its window, and the log
\* and the allocator outlast whatever still uses them.  The client is trusted to
\* close its passes.
ServicesNest ==
  SubmitClosesPass =>
    \A i \in DOMAIN Services : Services[i] \in up =>
      \A j \in 1 .. i : Services[j] \in up

\* Back in main everything is down, so a host that failed to start, or was shut
\* down after a failed frame, can be started again.
NothingLeftUp ==
  SubmitClosesPass /\ hostPc = "main" => up = {} /\ ~rendererInitialized /\ frame = "none"

\* Once a frame has asked for a shutdown, no other frame begins.
RequestsEndTheLoop == hostPc = "update" => ~asked

\* However a start fails or a loop is told to end, the host goes down in order and
\* altogether.
HostUnwinds == ServicesNest /\ NothingLeftUp /\ RequestsEndTheLoop
=============================================================================

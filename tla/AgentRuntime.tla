---------------------------- MODULE AgentRuntime ----------------------------
(***************************************************************************)
(* The loop of the agent runtime (AgentRuntime::run_until_shutdown), which *)
(* runs iterations of background tasks and starts over when one of them    *)
(* ends, a heartbeat fails or the session nears its end.  An iteration     *)
(* here has one automatic forward rule, which AutoForward models, and one  *)
(* published service with a direct responder on a UDP socket.              *)
(***************************************************************************)
EXTENDS AutoForward

VARIABLES
    stage,     \* of run_until_shutdown
    shutdown,  \* the watched value: a shutdown has been requested
    force,     \* force_session_refresh
    session,   \* the session of the configuration: none, good, or spent, that is one
               \* under which an iteration has already ended
    valid,     \* has_valid_session: the session does not end within a minute
    service,   \* stage of run_direct_service_supervisor
    udp        \* a hub's reader task holds the UDP address of the service

runtimeVars == <<stage, shutdown, force, session, valid>>
serviceVars == <<service, udp>>
restOfRule == <<ready, draining, listening, ingress, paths, slot, count, conn>>
allVars == <<vars, runtimeVars, serviceVars>>

\* An agent starts with the session of its configuration file, or without one.
RuntimeInit ==
    /\ Starts("off")
    /\ stage = "check" /\ shutdown = FALSE /\ force = FALSE
    /\ session \in {"none", "good"}
    /\ valid \in BOOLEAN /\ (session = "none" => ~valid)
    /\ service = "off" /\ udp = FALSE

(***************************************************************************)
(* One round of the loop.                                                  *)
(***************************************************************************)
Check ==
    /\ stage = "check"
    /\ stage' = IF shutdown THEN "stopped" ELSE "prepare"
    /\ UNCHANGED <<vars, serviceVars, shutdown, force, session, valid>>

\* A token is random: it is none of an earlier session.
Registered == session' = "good" /\ valid' = TRUE

Refreshes == force \/ ~valid

\* prepare_runtime_iteration fails before or after the registration.
PrepareFails ==
    /\ stage = "prepare"
    /\ \/ force /\ session' = "none" /\ valid' = FALSE
       \/ Refreshes /\ Registered
       \/ ~force /\ UNCHANGED <<session, valid>>
    /\ force' = TRUE
    /\ stage' = "wait"
    /\ UNCHANGED <<vars, serviceVars, shutdown>>

\* The background tasks of the iteration.
Spawned == loop' = "bind" /\ service' = "bind"

Prepare ==
    /\ stage = "prepare"
    /\ IF Refreshes THEN Registered ELSE UNCHANGED <<session, valid>>
    /\ stage' = "run"
    /\ Spawned
    /\ UNCHANGED <<restOfRule, udp, shutdown, force>>

\* drain_runtime_tasks aborts the tasks of the iteration, not those they spawned.
Aborted(s) == IF s = "failed" THEN s ELSE "aborted"
Drain == loop' = Aborted(loop) /\ service' = Aborted(service) /\ session' = "spent"

ForceNext_Forgotten == UNCHANGED force
ForceNext == force' = TRUE

\* The heartbeat finds the session near its end or is refused, or a task has ended.
MustRestart == ~valid \/ loop = "failed" \/ service = "failed"

Restart ==
    /\ stage = "run"
    /\ Drain
    /\ ForceNext
    /\ stage' = "wait"
    /\ UNCHANGED <<restOfRule, udp, shutdown, valid>>

Stop_NextRound == FALSE /\ UNCHANGED allVars

Stop ==
    /\ stage = "run"
    /\ shutdown
    /\ Drain
    /\ stage' = "stopped"
    /\ UNCHANGED <<restOfRule, udp, shutdown, force, valid>>

\* wait_for_restart_or_shutdown.
Wait ==
    /\ stage = "wait"
    /\ stage' = IF shutdown THEN "stopped" ELSE "check"
    /\ UNCHANGED <<vars, serviceVars, shutdown, force, session, valid>>

(***************************************************************************)
(* The direct responder of the published service, and the environment.     *)
(***************************************************************************)
\* The hub's reader task owns the socket and outlives the supervisor.
BindHub ==
    /\ service = "bind"
    /\ service' = IF udp THEN "failed" ELSE "serving"
    /\ udp' = TRUE
    /\ UNCHANGED <<vars, runtimeVars>>

RequestShutdown ==
    /\ ~shutdown
    /\ shutdown' = TRUE
    /\ UNCHANGED <<vars, serviceVars, stage, force, session, valid>>

SessionEnds ==
    /\ valid
    /\ valid' = FALSE
    /\ UNCHANGED <<vars, serviceVars, stage, shutdown, force, session>>

RuntimeNext ==
    \/ Check \/ PrepareFails \/ Prepare \/ Restart \/ Stop \/ Wait
    \/ BindHub \/ RequestShutdown \/ SessionEnds
    \/ RuleStep /\ UNCHANGED <<runtimeVars, serviceVars>>

\* The tasks go on.  The client sets no time limit on a request, and neither the
\* preparation nor the heartbeat watches for a shutdown while it waits for one: that
\* every request ends, well or not, is assumed.
RuntimeSpec ==
    /\ RuntimeInit /\ [][RuntimeNext]_allVars
    /\ WF_allVars(Check) /\ WF_allVars(PrepareFails \/ Prepare) /\ WF_allVars(Wait)
    /\ WF_allVars(Stop) /\ WF_allVars(Restart /\ MustRestart) /\ WF_allVars(BindHub)
    /\ WF_allVars(LoopStep /\ UNCHANGED <<runtimeVars, serviceVars>>)
    /\ SF_allVars(RelayClosed /\ UNCHANGED <<runtimeVars, serviceVars>>)
    /\ WF_allVars(DirectClosed /\ UNCHANGED <<runtimeVars, serviceVars>>)

\* With a server that in the end answers every request and sessions that last.
HealthySpec ==
    RuntimeSpec /\ <>[][~PrepareFails /\ ~SessionEnds /\ (Restart => MustRestart)]_allVars

(***************************************************************************)
(* Properties.                                                             *)
(***************************************************************************)
\* A restart always registers anew: no iteration runs with the session under which
\* an earlier one has failed, also after further failures to prepare.
FreshSession == stage = "run" => session # "spent"

\* A requested shutdown stops the runtime from every stage, also while iterations
\* fail one after the other, and none of the tasks of an iteration is left.
ShutdownStops == shutdown ~> stage = "stopped" /\ {loop, service} \subseteq {"off", "failed", "aborted"}

\* README.md:116: the runtime rebuilds its background tasks when the session nears
\* its end.  The acceptor and the hub of the old iteration still hold the addresses,
\* so the new tasks fail to bind them and the runtime restarts for ever.
RestartRecovers ==
    stage = "run" /\ ~valid
        ~> shutdown \/ (stage = "run" /\ valid /\ Works /\ service = "serving")
=============================================================================

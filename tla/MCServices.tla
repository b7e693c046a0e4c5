----------------------------- MODULE MCServices -----------------------------
(* The services beside the agent's turns, checked side by side: they share  *)
(* no state, so a behaviour is a behaviour of the one that "which" names.   *)
EXTENDS OrchRun, AgentSupervisor, RuntimeSupervisor, ModelLoad, ExecProcs,
        McpClient

VARIABLE which

Init ==
    /\ which \in {"orch", "agent", "watch", "load", "exec", "mcp"}
    /\ OrchInit /\ AgentInit /\ WatchInit /\ LoadInit /\ ExecInit
    /\ McpInit
    /\ which # "watch" => runtime = "up"
    /\ which # "mcp" => config = "on"

orch  == <<orchFile, orchState, at, inStep, tries, cuts>>
agent == <<agentServer, activating, awaiting, deactivated, launched, stopped,
           child, startup, restartTimer, attempts, missed>>
watch == <<runtime, restarting, failures, age, restartAttempts, aged, probe,
           episode, begun, pressed>>
load  == <<lock, current, loading, loaded, model, caller, job, nested, watchdog,
           blind, redone, hidden, mocked>>
exec  == <<record, lifeTimer, finished, timedOut, killed, exitCode, os, status,
           check, stolen>>
mcp   == <<config, entry, proc, place, wants, with, pending, replaced, late>>
all   == <<which, orch, agent, watch, load, exec, mcp>>

\* A step of one service.
InOrch(A)  == which = "orch" /\ A /\ UNCHANGED <<which, agent, watch, load, exec, mcp>>
InAgent(A) == which = "agent" /\ A /\ UNCHANGED <<which, orch, watch, load, exec, mcp>>
InWatch(A) == which = "watch" /\ A /\ UNCHANGED <<which, orch, agent, load, exec, mcp>>
InLoad(A)  == which = "load" /\ A /\ UNCHANGED <<which, orch, agent, watch, exec, mcp>>
InExec(A)  == which = "exec" /\ A /\ UNCHANGED <<which, orch, agent, watch, load, mcp>>
InMcp(A)   == which = "mcp" /\ A /\ UNCHANGED <<which, orch, agent, watch, load, exec>>

Next ==
    \/ InOrch(OrchNext) \/ InAgent(AgentNext) \/ InWatch(WatchNext)
    \/ InLoad(LoadNext) \/ InExec(ExecNext) \/ InMcp(McpNext)

\* Timers fire and requests end; of repeated tries to kill, to spawn and to
\* boot the runtime one works.
WatchFair ==
    /\ WF_all(InWatch(Tick)) /\ WF_all(InWatch(Watch))
    /\ SF_all(InWatch(Boots /\ External))
    /\ \A e \in Episodes :
         /\ WF_all(InWatch(EpisodeStep(e)))
         /\ SF_all(InWatch(Kill(e) /\ runtime' = "down"))
         /\ SF_all(InWatch(SpawnRuntime(e) /\ episode'[e] = "wait"))

\* A loader thread that was started goes on.
LoadFair == \A j \in Jobs : WF_all(InLoad(Loader(j)))

\* A secret is fetched or not, a request has a timer.
McpFair == \A u \in Users : WF_all(InMcp(Goes(u)))

Spec == Init /\ [][Next]_all /\ WatchFair /\ LoadFair /\ McpFair

-----------------------------------------------------------------------------
(* Each other property is stated in the module of its service.              *)

\* The variables keep their types.
TypesOK == /\ OrchTypeOK /\ AgentTypeOK /\ WatchTypeOK /\ LoadTypeOK
           /\ ExecTypeOK /\ McpTypeOK
=============================================================================

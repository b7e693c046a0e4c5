--------------------------- MODULE AgentSupervisor ---------------------------
(* How the extension keeps one agent process alive: AgentServer.js objects, *)
(* each with a startup (a process before its handshake), a child (a process *)
(* that shook hands) and a restart timer, and the host that launches them   *)
(* (extension.js: activation, relaunch, deactivation).  A killed process is *)
(* gone at once; the exit event of a stopped child changes nothing.         *)
EXTENDS Integers, FiniteSets

CONSTANTS
    Servers,     \* AgentServer objects, one per launch, numbers taken in order
    MaxAttempts, \* bound: where server.attempts is cut off
    NoServer     \* null

VARIABLES
    agentServer, \* the host's current server
    activating,  \* activation awaits the provider's configuration
    awaiting,    \* how many relaunches await it
    deactivated,
    launched,    \* servers that exist
    stopped, child, startup, restartTimer, attempts,   \* fields of each server
    missed       \* history: servers stopped during their startup, replaced
                 \* without a stop, or launched after deactivation

hostVars   == <<agentServer, activating, awaiting, deactivated>>
serverVars == <<launched, stopped, child, startup, restartTimer, attempts>>
superVars  == <<hostVars, serverVars, missed>>

AgentInit ==
    /\ agentServer = NoServer /\ activating = TRUE /\ awaiting = 0
    /\ deactivated = FALSE /\ launched = {} /\ missed = {}
    /\ stopped = [s \in Servers |-> FALSE] /\ child = [s \in Servers |-> FALSE]
    /\ startup = [s \in Servers |-> FALSE] /\ restartTimer = [s \in Servers |-> FALSE]
    /\ attempts = [s \in Servers |-> 0]

-----------------------------------------------------------------------------
(* AgentServer.js.                                                          *)

\* _scheduleRestart.
Schedule(s) ==
    IF stopped[s] \/ restartTimer[s] THEN UNCHANGED <<restartTimer, attempts>>
    ELSE /\ restartTimer' = [restartTimer EXCEPT ![s] = TRUE]
         /\ attempts' = [attempts EXCEPT ![s] = IF @ < MaxAttempts THEN @ + 1 ELSE @]

\* The first line of the process is a good handshake; whether the server was
\* stopped meanwhile is not looked at.
Handshake(s) ==
    /\ startup[s]
    /\ startup' = [startup EXCEPT ![s] = FALSE] /\ child' = [child EXCEPT ![s] = TRUE]
    /\ attempts' = [attempts EXCEPT ![s] = 0]
    /\ UNCHANGED <<launched, stopped, restartTimer, hostVars, missed>>

\* No process, a bad handshake, an exit before it, or none in time: the
\* process is killed and another one is scheduled.
StartFails(s) ==
    /\ startup[s] /\ startup' = [startup EXCEPT ![s] = FALSE]
    /\ Schedule(s)
    /\ UNCHANGED <<launched, stopped, child, hostVars, missed>>

\* _onExit.
ChildExits(s) ==
    /\ child[s] /\ child' = [child EXCEPT ![s] = FALSE]
    /\ Schedule(s)
    /\ UNCHANGED <<launched, stopped, startup, hostVars, missed>>

\* Mutant of TimerFires: it starts although there may be a process.
TimerFiresAnyway(s) ==
    /\ restartTimer[s] /\ startup' = [startup EXCEPT ![s] = TRUE]
    /\ UNCHANGED <<launched, stopped, child, restartTimer, attempts, hostVars, missed>>

\* The timer fires: start(), unless there is a child or a startup.
TimerFires(s) ==
    /\ restartTimer[s] /\ restartTimer' = [restartTimer EXCEPT ![s] = FALSE]
    /\ startup' = [startup EXCEPT ![s] = @ \/ (~stopped[s] /\ ~child[s])]
    /\ UNCHANGED <<launched, stopped, child, attempts, hostVars, missed>>

-----------------------------------------------------------------------------
(* extension.js.                                                            *)

\* Mutant of Halt: stop() forgets its child and does not kill it.
HaltNoKill(lost) ==
    /\ stopped' = [s \in Servers |-> stopped[s] \/ s = agentServer]
    /\ restartTimer' = [s \in Servers |-> restartTimer[s] /\ s # agentServer]
    /\ UNCHANGED child /\ missed' = missed \cup lost
       \cup {s \in Servers : s = agentServer /\ startup[s]}

\* stop() of the current server, if any: its child is killed, its timer is
\* cleared, its startup goes on.
Halt(lost) ==
    /\ stopped' = [s \in Servers |-> stopped[s] \/ s = agentServer]
    /\ restartTimer' = [s \in Servers |-> restartTimer[s] /\ s # agentServer]
    /\ child' = [s \in Servers |-> child[s] /\ s # agentServer]
    /\ missed' = missed \cup lost \cup {s \in Servers : s = agentServer /\ startup[s]}

\* AgentServer.launch of the next server, with its first startup.
Launch(s) ==
    /\ s \in Servers \ launched /\ \A x \in Servers \ launched : s <= x
    /\ launched' = launched \cup {s} /\ agentServer' = s
    /\ startup' = [startup EXCEPT ![s] = TRUE]
    /\ UNCHANGED attempts

Late(s) == IF deactivated THEN {s} ELSE {}

\* The end of activation stops what a relaunch may have launched before it.
Activated(s) ==
    /\ activating /\ activating' = FALSE
    /\ Launch(s) /\ Halt(Late(s))
    /\ UNCHANGED <<awaiting, deactivated>>

\* relaunchAgentServer up to its await ...
Relaunch ==
    /\ ~deactivated /\ Cardinality(launched) + awaiting < Cardinality(Servers)
    /\ Halt({}) /\ agentServer' = NoServer /\ awaiting' = awaiting + 1
    /\ UNCHANGED <<activating, deactivated, launched, startup, attempts>>

\* ... and after it: a server that was launched meanwhile is not stopped.
Relaunched(s) ==
    /\ awaiting > 0 /\ awaiting' = awaiting - 1 /\ Launch(s)
    /\ missed' = missed \cup Late(s) \cup {x \in Servers : x = agentServer}
    /\ UNCHANGED <<activating, deactivated, stopped, child, restartTimer>>

\* The configuration is refused: the host is left without a server.
RelaunchRefused ==
    /\ awaiting > 0 /\ awaiting' = awaiting - 1
    /\ UNCHANGED <<agentServer, activating, deactivated, serverVars, missed>>

Deactivate ==
    /\ ~deactivated /\ deactivated' = TRUE
    /\ Halt({}) /\ agentServer' = NoServer
    /\ UNCHANGED <<activating, awaiting, launched, startup, attempts>>

-----------------------------------------------------------------------------
Host == Relaunch \/ RelaunchRefused \/ Deactivate
            \/ \E s \in Servers : Activated(s) \/ Relaunched(s)
AgentNext == Host \/ \E s \in Servers : Handshake(s) \/ StartFails(s) \/ ChildExits(s) \/ TimerFires(s)

AgentSpec == AgentInit /\ [][AgentNext]_superVars

-----------------------------------------------------------------------------
\* The variables keep their types.
AgentTypeOK ==
    /\ agentServer \in launched \cup {NoServer} /\ launched \subseteq Servers
    /\ {activating, deactivated} \subseteq BOOLEAN /\ awaiting \in Nat
    /\ {stopped, child, startup, restartTimer} \subseteq [Servers -> BOOLEAN]
    /\ attempts \in [Servers -> 0 .. MaxAttempts] /\ missed \subseteq Servers

\* How many of its process, its startup and its timer a server has.
Ways(s) == Cardinality({w \in 1 .. 3 : <<child[s], startup[s], restartTimer[s]>>[w]})

\* AgentServer.js "auto-restart with backoff": a server that was not stopped
\* is up, coming up or about to be started again, and one of these only: it
\* never gives up and never has two processes, in whatever order the exit, the
\* handshake and the timers come.
OneWayOn == \A s \in launched : IF stopped[s] THEN Ways(s) <= 1 /\ ~restartTimer[s] ELSE Ways(s) = 1

\* An agent the host no longer knows is gone or not supervised any more, but
\* for those it missed: stopped during the startup (stop() does not reach the
\* process), replaced without a stop by a second relaunch, launched after
\* deactivation.
NoStrayAgent == \A s \in launched : Ways(s) > 0 => s = agentServer \/ s \in missed
=============================================================================

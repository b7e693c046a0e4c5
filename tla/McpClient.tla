------------------------------ MODULE McpClient ------------------------------
(* The agent's client of one MCP server on standard streams (mcp.js): the    *)
(* table of live clients, the handshake of each, and the turns, routes and   *)
(* tools that share it.  Everything runs on one thread; an action is what is *)
(* done between two awaits.  What the tools answer is left out.              *)
EXTENDS Integers, FiniteSets

CONSTANTS
    Users,     \* turns and routes that use the server
    Clients,   \* bound: clients (child processes) ever made, numbers in order
    NoClient   \* no entry in the table

ASSUME ClientAssumption == NoClient \notin Clients

VARIABLES
    config,    \* the server in mcp.json: "on", "off" (enabled: false), "absent"
    entry,     \* clients.get(name)
    proc,      \* process of each client: none yet, alive, signalled (SIGTERM was
               \* sent, it still runs), over, gone once the exit is dealt with;
               \* failed to start, unstarted once that is
    place,     \* where each user is
    wants,     \* what it came for
    with,      \* the client it uses
    pending,   \* users with a request in client.pending, and its timer
    replaced,  \* history: clients overwritten in the table
    late       \* history: clients made while the server was not on, or in the
               \* table while mcp.json was rewritten

mcpVars == <<config, entry, proc, place, wants, with, pending, replaced, late>>

Configs == {"on", "off", "absent"}

McpInit ==
    /\ config \in Configs /\ entry = NoClient
    /\ proc = [c \in Clients |-> "none"]
    /\ place = [u \in Users |-> "idle"] /\ wants = [u \in Users |-> "list"]
    /\ with = [u \in Users |-> NoClient] /\ pending = {}
    /\ replaced = {} /\ late = {}

Unmade == {c \in Clients : proc[c] = "none"}
Waiting(c) == {u \in pending : with[u] = c}

\* Mutant of Reject: the timers are cleared and nobody is told.
RejectMute(U) == pending' = pending \ U /\ UNCHANGED place

\* The requests of the users U are rejected: their calls fail.
Reject(U) == /\ pending' = pending \ U
             /\ place' = [u \in Users |-> IF u \in U THEN "idle" ELSE place[u]]

\* Mutant of Disconnect: the process is not sent the signal.
DisconnectAlive(U) ==
    /\ entry' = NoClient /\ UNCHANGED proc
    /\ Reject(U \cup (IF entry = NoClient THEN {} ELSE Waiting(entry)))

\* disconnectOne of the client in the table, if there is one: it is forgotten at
\* once, its process is sent one SIGTERM and ends when it likes.  The users U
\* are through as well.
Disconnect(U) ==
    /\ entry' = NoClient
    /\ proc' = [c \in Clients |->
                  IF c = entry /\ proc[c] = "alive" THEN "signalled" ELSE proc[c]]
    /\ Reject(U \cup (IF entry = NoClient THEN {} ELSE Waiting(entry)))

-----------------------------------------------------------------------------
(* connect, listTools, callTool, testServer.                                *)

\* sendReq by u on client c, for the step p.
Send(u, c, p) == /\ place' = [place EXCEPT ![u] = p] /\ with' = [with EXCEPT ![u] = c]
                 /\ pending' = pending \cup {u}

\* What u does with a connected client: a call is sent, a test disconnects,
\* whoever made the client there is now, a list reads what tools there are.
Use(u, c) ==
    \/ wants'[u] = "call" /\ Send(u, c, "call") /\ UNCHANGED <<entry, proc>>
    \/ wants'[u] = "test" /\ Disconnect({u}) /\ UNCHANGED with
    \/ /\ wants'[u] = "list" /\ Reject({u})
       /\ UNCHANGED <<entry, proc, with>>

\* Every use looks the server up in mcp.json, and only a call at "enabled" (a
\* turn lists an enabled server, the description of an extension any).  A client
\* in the table is a hit, its handshake completed or not; without one the
\* secrets of its environment are fetched.
Ask(u) ==
    /\ place[u] = "idle" /\ Cardinality({x \in Users : place[x] = "secrets"}) < Cardinality(Unmade)
    /\ config # "absent"
    /\ \E w \in {"list", "call", "test"} :
         /\ w = "call" => config = "on"
         /\ wants' = [wants EXCEPT ![u] = w]
    /\ \/ entry # NoClient /\ Use(u, entry)
       \/ /\ entry = NoClient /\ place' = [place EXCEPT ![u] = "secrets"]
          /\ UNCHANGED <<entry, proc, with, pending>>
    /\ UNCHANGED <<config, replaced, late>>

\* After that await the process is started, whatever the table has by now and
\* what has become of the server in mcp.json; the entry is made before the
\* handshake.
SpawnServer(u) ==
    /\ place[u] = "secrets"
    /\ \E c \in Unmade :
         /\ \A x \in Unmade : c <= x
         /\ \E p \in {"alive", "failed"} : proc' = [proc EXCEPT ![c] = p]
         /\ entry' = c /\ Send(u, c, "initialize")
         /\ replaced' = replaced \cup ({entry} \ {NoClient})
         /\ late' = IF config = "on" THEN late ELSE late \cup {c}
    /\ UNCHANGED <<config, wants>>

\* The server answers the request of u.
Answer(u) ==
    /\ u \in pending /\ proc[with[u]] = "alive" /\ wants' = wants
    /\ \/ place[u] = "initialize" /\ Send(u, with[u], "tools/list") /\ UNCHANGED <<entry, proc>>
       \/ place[u] = "tools/list" /\ Use(u, with[u])
       \/ place[u] = "call" /\ Reject({u}) /\ UNCHANGED <<entry, proc, with>>
    /\ UNCHANGED <<config, replaced, late>>

\* The timer of a request: the client stays in the table, half open if this
\* was its handshake.
RequestTimeout(u) ==
    /\ u \in pending /\ Reject({u})
    /\ UNCHANGED <<config, entry, proc, wants, with, replaced, late>>

-----------------------------------------------------------------------------
(* Processes.                                                               *)

\* Of itself, or on the signal.
Dies(c) ==
    /\ proc[c] \in {"alive", "signalled"} /\ proc' = [proc EXCEPT ![c] = "over"]
    /\ UNCHANGED <<config, entry, place, wants, with, pending, replaced, late>>

\* The exit event disconnects, unless the client is not in the table any more:
\* if it was replaced its requests wait for their timers.
ExitEvent(c) ==
    /\ proc[c] = "over" /\ proc' = [proc EXCEPT ![c] = "gone"]
    /\ IF entry = c THEN entry' = NoClient /\ Reject(Waiting(c))
       ELSE UNCHANGED <<entry, place, pending>>
    /\ UNCHANGED <<config, wants, with, replaced, late>>

\* A process that could not be started: its error event has no exit after it,
\* and leaves the entry.
ErrorEvent(c) ==
    /\ proc[c] = "failed" /\ proc' = [proc EXCEPT ![c] = "unstarted"]
    /\ Reject(Waiting(c))
    /\ UNCHANGED <<config, entry, wants, with, replaced, late>>

-----------------------------------------------------------------------------
(* The operator, and the reaper of idle clients.                            *)

\* setEnabled: switching off disconnects, also a server that was off.
SetEnabled ==
    /\ config # "absent" /\ config' \in {"on", "off"}
    /\ IF config' = "off" THEN Disconnect({}) ELSE UNCHANGED <<entry, proc, place, pending>>
    /\ UNCHANGED <<wants, with, replaced, late>>

\* The servers are written to mcp.json as they were given (the two imports, which
\* may bring enabled: false; a server that is added is on; one is deleted): a
\* client in the table stays.
RewriteConfig ==
    /\ config' \in Configs
    /\ late' = late \cup ({entry} \ {NoClient})
    /\ UNCHANGED <<entry, proc, place, wants, with, pending, replaced>>

\* reapIdle, in the connect of any server: ten minutes are longer than any
\* request.
ReapIdle ==
    /\ entry # NoClient /\ Waiting(entry) = {} /\ Disconnect({})
    /\ UNCHANGED <<config, wants, with, replaced, late>>

-----------------------------------------------------------------------------
User(u) == Ask(u) \/ Answer(u)
Goes(u) == SpawnServer(u) \/ RequestTimeout(u)
McpNext == \/ \E u \in Users : User(u) \/ Goes(u)
        \/ \E c \in Clients : Dies(c) \/ ExitEvent(c) \/ ErrorEvent(c)
        \/ SetEnabled \/ RewriteConfig \/ ReapIdle

McpSpec == McpInit /\ [][McpNext]_mcpVars

-----------------------------------------------------------------------------
\* The variables keep their types.
McpTypeOK ==
    /\ config \in Configs /\ entry \in Clients \cup {NoClient}
    /\ proc \in [Clients -> {"none", "alive", "signalled", "failed", "unstarted", "over", "gone"}]
    /\ {replaced, late} \subseteq SUBSET Clients /\ pending \subseteq Users
    /\ place \in [Users -> {"idle", "secrets", "initialize", "tools/list", "call"}]
    /\ wants \in [Users -> {"list", "call", "test"}]
    /\ with \in [Users -> Clients \cup {NoClient}]

\* The table is true: a process that runs and was not sent the signal (which it
\* may take its time over) is the one in the table, or two connects overlapped
\* and one replaced the other; the client in the table is not over, its exit
\* dealt with (one that never started stays there); and a server that is off or
\* deleted has a client only if that was started afterwards, or if mcp.json was
\* rewritten under it.
TableTrue ==
    /\ \A c \in Clients : proc[c] = "alive" => c = entry \/ c \in replaced
    /\ entry # NoClient => proc[entry] # "gone"
    /\ entry # NoClient /\ config # "on" => entry \in late

\* Every use of the server ends, whatever its process, the operator and the
\* other users do meanwhile: an answer, a timer, or the end of the client.
EveryUseEnds == \A u \in Users : place[u] # "idle" ~> place[u] = "idle"
=============================================================================

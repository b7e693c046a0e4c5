---------------------------- MODULE MCJobServer ----------------------------
(* Small instances for TLC of what ends whatever its other side does: the   *)
(* run of a job by the turns of its project, and a turn the operator        *)
(* aborts.  The two share no state here: a behaviour is a behaviour of the  *)
(* one that "which" names.                                                  *)
EXTENDS JobRun

CONSTANTS Sessions, Clients, Kinds, Requests, Keys, Deploys, Bash, McpCalls,
          Prefixed

VARIABLES
    which,
    live, mode, entries, pending, waiters, sessionRules, projectRules, phase,
    kind, sess, aborted, turnMode, turnRules, raisedBy, askKey, verdict,
    executed, late, unsaved

Server == INSTANCE AgentServer WITH runs <- entries, pc <- phase

server == <<live, mode, entries, pending, waiters, sessionRules, projectRules,
            phase, kind, sess, aborted, turnMode, turnRules, raisedBy, askKey,
            verdict, executed, late, unsaved>>
all    == <<which, vars, server>>

\* A step of the job, and one of the server.
InJob(A)    == which = "job" /\ A /\ UNCHANGED <<which, server>>
InServer(A) == which = "server" /\ A /\ UNCHANGED <<which, vars>>

AnyInit ==
    /\ which \in {"job", "server"} /\ Init /\ Server!Init
    /\ which = "job" => /\ projectRules = {}
                        /\ \A s \in Sessions : mode[s] = "build"
                        /\ \A c \in Clients : kind[c] = "message"

AnyNext == InJob(Next) \/ InServer(Server!Next)

\* The fairness of JobRun and of AgentServer.
AnySpec ==
    /\ AnyInit /\ [][AnyNext]_all
    /\ \A r \in Runners : WF_all(InJob(Run(r)))
    /\ \A c \in Clients : WF_all(InServer(Server!GoesOn(c)))

-----------------------------------------------------------------------------
\* An aborted turn ends, also when it was paused and nobody ever answers,
\* unless the abort is lost with the entry the fallback replaces.
AbortedTurnEnds == Server!AbortedTurnEnds
=============================================================================

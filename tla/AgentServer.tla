---------------------------- MODULE AgentServer ----------------------------
(***************************************************************************)
(* The HTTP side of sudo-agent (src/sudo-agent/src/server.js) together     *)
(* with the part of a turn that shares its registries (runTurn, toolsTurn  *)
(* and pauseForApproval in loop.js): which requests may use a session at   *)
(* the same time, how a tool call waits for the operator, and what an      *)
(* abort, a closed stream, a deleted session or a restart leaves behind.   *)
(*                                                                         *)
(* Node runs one callback at a time, so a handler is atomic between two    *)
(* awaits; every action below is one such stretch of code.  Calls that the *)
(* permission check allows without a rule (read-only tools) or denies      *)
(* (deny list) change nothing here and are left out.                       *)
(***************************************************************************)
EXTENDS Naturals, FiniteSets

CONSTANTS
    Sessions,   \* session ids
    Clients,    \* HTTP requests that take part in a behaviour, one use each
    Kinds,      \* the routes those requests may use
    Requests,   \* approval ids ("appr-...")
    Keys,       \* rule keys of the mutating calls (tool|kind|text)
    Deploys,    \* the keys whose command is a deployment
    Bash,       \* the keys of the tool bash
    McpCalls,   \* the keys of mcp_call
    Prefixed,   \* the keys of the tools mcp__server__tool
    None

Routes == {"message", "direct", "mode", "undo"}
Decisions == {"once", "session", "project", "deny"}
Modes == {"build", "plan"}

ASSUME ConstantsAssumption ==
    /\ Kinds \subseteq Routes
    /\ Deploys \cup Bash \cup McpCalls \cup Prefixed \subseteq Keys
    /\ Bash \cap McpCalls = {} /\ Prefixed \cap (Bash \cup McpCalls) = {}
    /\ None \notin Clients \cup Requests \cup Keys \cup Decisions

VARIABLES
    live,          \* sessions that exist in the store
    mode,          \* mode of each session in the store
    runs,          \* Map sessionId -> entry; an entry is named by its client
    pending,       \* Map of approvals shown to the operator
    waiters,       \* Map of approvals a paused turn waits on
    sessionRules,  \* Map sessionId -> Set(ruleKey), in memory
    projectRules,  \* rules of the project, on disk
    pc,            \* where each client's handler is suspended
    kind, sess,    \* its route and session
    aborted,       \* entry.aborted
    turnMode,      \* mode the turn read when it began
    turnRules,     \* project rules the turn loaded when it began
    raisedBy,      \* client whose call created the approval id
    askKey,        \* its rule key
    verdict,       \* effective decision of the operator (history)
    executed,      \* how often the approved call ran (history)
    late,          \* calls a client's entry began while aborted (history)
    unsaved        \* turns whose last write to the store failed (history)

registry == <<runs, aborted, unsaved>>
approvals == <<pending, waiters, raisedBy, askKey, verdict, executed,
               late>>
rules == <<sessionRules, projectRules>>
begun == <<turnMode, turnRules>>
route == <<kind, sess>>
vars == <<live, mode, runs, pending, waiters, sessionRules, projectRules, pc,
          kind, sess, aborted, turnMode, turnRules, raisedBy, askKey, verdict,
          executed, late, unsaved>>

Phases == {"idle", "body", "probe", "waiting", "model", "deaf", "asking",
           "chosen", "stream", "question", "paused", "entered", "executing",
           "refused", "done"}

\* Phases of a turn or direct call that has put an entry in runs and has not
\* reached the code that removes it.
Registered == {"model", "deaf", "asking", "chosen", "stream", "question",
               "paused", "entered", "executing"}

\* executeTool recognises a deployment in a bash command only; exec_start and
\* gen_check run the same command unrecognised.
KnownDeploys == Deploys \cap Bash

Turn(c, s) == kind[c] = "message" /\ sess[c] = s /\ pc[c] \in Registered

-----------------------------------------------------------------------------
(* Initial states: sessions and project rules are what the disk holds.     *)

Init ==
    /\ live = Sessions
    /\ mode \in [Sessions -> Modes]
    /\ runs = [s \in Sessions |-> None]
    /\ pending = {}
    /\ waiters = {}
    /\ sessionRules = [s \in Sessions |-> {}]
    /\ projectRules \in SUBSET (Keys \ KnownDeploys)
    /\ pc = [c \in Clients |-> "idle"]
    /\ kind \in [Clients -> Kinds]
    /\ sess \in [Clients -> Sessions]
    /\ aborted = [c \in Clients |-> FALSE]
    /\ turnMode = [c \in Clients |-> "build"]
    /\ turnRules = [c \in Clients |-> {}]
    /\ raisedBy = [r \in Requests |-> None]
    /\ askKey = [r \in Requests |-> None]
    /\ verdict = [r \in Requests |-> None]
    /\ executed = [r \in Requests |-> 0]
    /\ late = [c \in Clients |-> 0]
    /\ unsaved = {}

-----------------------------------------------------------------------------
(* Helpers.                                                                *)

Goto(c, p) == pc' = [pc EXCEPT ![c] = p]

\* Mutant of Free: the busy test is dropped.
Exists(s) == s \in live

\* runTurn: the session exists and no turn is registered for it.
Free(s) == s \in live /\ runs[s] = None

\* The key a rule is looked up with.  That of a tool mcp__server__tool is the
\* tool "mcp", under which no approval is ever stored.
RuleSought(k) == IF k \in Prefixed THEN None ELSE k

\* Mutant of Allowed: the rules of the session are not looked at.
AllowedByProject(k, srules, prules) ==
    k \notin KnownDeploys /\ RuleSought(k) \in prules

\* permissions.check: a session rule, then a project rule; a deployment that is
\* recognised is asked for in any case (executeTool step 5).
Allowed(k, srules, prules) ==
    k \notin KnownDeploys /\ RuleSought(k) \in srules \cup prules

\* Mutant of Release: the entry of a turn that was not aborted stays.
ReleaseIfAborted(c) ==
    runs' = [runs EXCEPT ![sess[c]] = IF @ = c /\ aborted[c] THEN None ELSE @]

\* runs.delete guarded by "is it still my entry".
Release(c) ==
    runs' = [runs EXCEPT ![sess[c]] = IF @ = c THEN None ELSE @]

\* abortRun marks whatever entry the session has now, and destroys its
\* request if one is in flight: the round ends.  Pc after it:
AbortRun(s) ==
    aborted' = IF runs[s] = None THEN aborted
               ELSE [aborted EXCEPT ![runs[s]] = TRUE]
Destroyed(s) ==
    [c \in Clients |-> IF c = runs[s] /\ pc[c] = "asking" THEN "model" ELSE pc[c]]

\* A tool starts for client c.
Begins(c) == late' = [late EXCEPT ![c] = IF aborted[c] THEN @ + 1 ELSE @]

\* executeTool answers need-approval: a fresh id joins the pending map.
Raise(c, k, r) ==
    /\ raisedBy[r] = None
    /\ raisedBy' = [raisedBy EXCEPT ![r] = c]
    /\ askKey' = [askKey EXCEPT ![r] = k]
    /\ pending' = pending \cup {r}
    /\ UNCHANGED <<verdict, executed, late>>

\* Mutant of MayAct: an abort between two rounds goes unnoticed.
InRound(c) == pc[c] = "model"

\* The loop looks at entry.aborted at the top of a round; so does the
\* verification before each of its commands, which is a round here.
MayAct(c) == pc[c] = "model" /\ ~aborted[c]

\* Mutant of GivesUp: the poll looks at the pending map.
GivesUpIfListed(c) == /\ pc[c] = "paused" /\ aborted[c]
                      /\ \E r \in pending : raisedBy[r] = c

\* The 250 ms poll of a paused turn.
GivesUp(c) == pc[c] = "paused" /\ aborted[c]

\* Mutant of Take: the request stays listed until the call has run.
KeepListed(r) == r \in pending /\ UNCHANGED pending

\* A decision takes the request off the list before anything else.
Take(r) == r \in pending /\ pending' = pending \ {r}

\* Mutants of Effective: a deployment is remembered; a misspelt decision.
AsAsked(r, d) == d
Misspelt(r, d) == IF askKey[r] \in KnownDeploys THEN "one" ELSE d

\* A deployment that was recognised (request.deploy) is approved for once,
\* whatever the operator picked.
Effective(r, d) ==
    IF askKey[r] \in KnownDeploys /\ d \in {"session", "project"} THEN "once" ELSE d

\* Mutant of Resume: the waiter is not removed.
ResumeOnly(r, p) == /\ UNCHANGED waiters
                    /\ IF r \in waiters THEN Goto(raisedBy[r], p) ELSE UNCHANGED pc

\* The promise of the paused turn is resolved and its waiter removed.
Resume(r, p) ==
    IF r \in waiters THEN waiters' = waiters \ {r} /\ Goto(raisedBy[r], p)
                     ELSE UNCHANGED <<waiters, pc>>

-----------------------------------------------------------------------------
(* POST /messages.                                                         *)

\* Every route answers 404 without the session; all but /messages look at
\* runs before the body is read.
Arrive(c) ==
    /\ pc[c] = "idle"
    /\ LET free == sess[c] \in live /\ (kind[c] # "message" => runs[sess[c]] = None)
       IN Goto(c, IF free THEN "body" ELSE "refused")
    /\ UNCHANGED <<live, mode, registry, approvals, rules, begun, route>>

\* The body is there: 409 during a turn, else probe the provider.
MessageBody(c) ==
    /\ pc[c] = "body" /\ kind[c] = "message"
    /\ Goto(c, IF runs[sess[c]] = None THEN "probe" ELSE "refused")
    /\ UNCHANGED <<live, mode, registry, approvals, rules, begun, route>>

\* The probe, or the wait for a restart, ends without a usable runtime.
NoRuntime(c) ==
    /\ pc[c] \in {"probe", "waiting"}
    /\ Goto(c, "refused")
    /\ UNCHANGED <<live, mode, registry, approvals, rules, begun, route>>

\* The local runtime is offline: the stream opens and waits for it.
WaitForRuntime(c) ==
    /\ pc[c] = "probe"
    /\ Goto(c, "waiting")
    /\ UNCHANGED <<live, mode, registry, approvals, rules, begun, route>>

\* runTurn from its "busy" check to the registration of its entry, without
\* an await: tools, a plain stream or a question.  Some turns answer at once
\* (unknown command, specification stored, choice asked); that of a choice has
\* an entry meanwhile, which stays when the choice cannot be written.
BeginTurn(c) ==
    /\ pc[c] \in {"probe", "waiting"}
    /\ LET s == sess[c]
       IN \/ /\ Free(s)
             /\ runs' = [runs EXCEPT ![s] = c]
             /\ turnMode' = [turnMode EXCEPT ![c] = mode[s]]
             /\ turnRules' = [turnRules EXCEPT ![c] = projectRules]
             /\ \E p \in {"model", "stream", "question"} : Goto(c, p)
             /\ UNCHANGED unsaved
          \/ /\ Free(s)
             /\ Goto(c, "done")
             /\ UNCHANGED <<runs, unsaved, begun>>
          \/ /\ Free(s)
             /\ Goto(c, "done")
             /\ runs' = [runs EXCEPT ![s] = c] /\ unsaved' = unsaved \cup {c}
             /\ UNCHANGED begun
          \/ /\ ~Free(s)
             /\ Goto(c, "refused")
             /\ UNCHANGED <<runs, unsaved, begun>>
    /\ UNCHANGED <<live, mode, aborted, approvals, rules, route>>

\* A round: the model is asked at once, or after an await that an abort does
\* not interrupt (the history is compressed by a request of its own).
Ask(c) ==
    /\ MayAct(c)
    /\ \E p \in {"deaf", "asking"} : Goto(c, p)
    /\ UNCHANGED <<live, mode, registry, approvals, rules, begun, route>>

\* roundOnce: a recoverable failure is tried again after 400 ms, unless the
\* turn is aborted by then; after such a pause nothing looks at the mark.
Retry(c) ==
    /\ \/ pc[c] = "asking" /\ ~aborted[c] /\ Goto(c, "deaf")
       \/ pc[c] = "deaf" /\ Goto(c, "asking")
    /\ UNCHANGED <<live, mode, registry, approvals, rules, begun, route>>

\* The reply: a call the engine will look at (executeTool awaits the lookup of
\* a command's binary), or a refusal that takes the loop to its next round.
Reply(c) ==
    /\ pc[c] = "asking"
    /\ \E p \in {"chosen", "model"} : Goto(c, p)
    /\ UNCHANGED <<live, mode, registry, approvals, rules, begun, route>>

\* The provider refuses tools in the first round (status 400): the turn goes
\* on as a plain stream under a new registry entry, set without a check and
\* not aborted.
FallbackToStream(c) ==
    /\ pc[c] = "asking"
    /\ Goto(c, "stream")
    /\ runs' = [runs EXCEPT ![sess[c]] = c]
    /\ aborted' = [aborted EXCEPT ![c] = FALSE]
    /\ UNCHANGED <<live, mode, unsaved, approvals, rules, begun, route>>

\* executeTool on a mutating call; the plan mode refuses those that are not
\* MCP.  Under a rule a call runs at once, but the handler of mcp_call looks for
\* a rule of "mcp" itself: unless the page of its server allows the tool, it
\* asks again, which executeTool takes for an error.  Without a rule the turn
\* pauses: pending first, then a waiter (pauseForApproval).  A call refused
\* before all this (missing binary) goes back to the model.
CallTool(c, k) ==
    /\ pc[c] = "chosen" /\ (turnMode[c] = "build" \/ k \in McpCalls \cup Prefixed)
    /\ \/ /\ Allowed(k, sessionRules[sess[c]], turnRules[c])
          /\ Goto(c, "executing")
          /\ Begins(c)
          /\ UNCHANGED <<pending, waiters, raisedBy, askKey, verdict, executed>>
       \/ /\ Allowed(k, sessionRules[sess[c]], turnRules[c]) /\ k \in McpCalls
          /\ Goto(c, "model")
          /\ UNCHANGED approvals
       \/ /\ ~Allowed(k, sessionRules[sess[c]], turnRules[c])
          /\ \E r \in Requests : Raise(c, k, r) /\ waiters' = waiters \cup {r}
          /\ Goto(c, "paused")
    /\ UNCHANGED <<live, mode, registry, rules, begun, route>>

\* The tool ended, failed, was killed, or was not started at all; the result
\* goes back to the model.
ToolDone(c) ==
    /\ pc[c] \in {"chosen", "executing"} /\ kind[c] = "message"
    /\ Goto(c, "model")
    /\ UNCHANGED <<live, mode, registry, approvals, rules, begun, route>>

\* The 250 ms poll of a paused turn sees the abort: the waiter goes, the
\* pending entry stays.
PollAbort(c) ==
    /\ GivesUp(c)
    /\ waiters' = {r \in waiters : raisedBy[r] # c}
    /\ Goto(c, "model")
    /\ UNCHANGED <<live, mode, registry, rules, begun, route>>
    /\ UNCHANGED <<pending, raisedBy, askKey, verdict, executed, late>>

\* The turn ends: answered, stopped, failed, or the abort ended the round.
EndTurn(c) ==
    /\ pc[c] \in {"model", "deaf", "asking", "stream", "question"}
    /\ Goto(c, "done")
    /\ Release(c)
    /\ UNCHANGED <<live, mode, aborted, unsaved, approvals, rules, begun, route>>

\* The last answer of a tool turn or of a question is written outside of its
\* try, and neither has a finally: a write that fails ends the handler with
\* its entry in place.  A plain stream has one.
StoreFails(c) ==
    /\ pc[c] \in {"model", "deaf", "asking", "question"}
    /\ Goto(c, "done")
    /\ unsaved' = unsaved \cup {c}
    /\ UNCHANGED <<live, mode, runs, aborted, approvals, rules, begun, route>>

-----------------------------------------------------------------------------
(* POST /tools/call: runs was checked before the body, the entry is set    *)
(* after it whatever runs holds by then.                                   *)

DirectBody(c) ==
    /\ pc[c] = "body" /\ kind[c] = "direct"
    /\ \/ /\ Goto(c, "refused")                        \* bad project root
          /\ UNCHANGED <<runs, begun>>
       \/ /\ Goto(c, "entered")
          /\ runs' = [runs EXCEPT ![sess[c]] = c]
          /\ turnRules' = [turnRules EXCEPT ![c] = projectRules]
          /\ UNCHANGED turnMode                        \* no mode in tctx
    /\ UNCHANGED <<live, mode, aborted, unsaved, approvals, rules, route>>

DirectCall(c, k) ==
    /\ pc[c] = "entered"
    /\ \/ /\ Allowed(k, sessionRules[sess[c]], turnRules[c])
          /\ Goto(c, "executing")
          /\ Begins(c)
          /\ UNCHANGED <<runs, pending, waiters, raisedBy, askKey, verdict, executed>>
       \/ /\ Allowed(k, sessionRules[sess[c]], turnRules[c]) /\ k \in McpCalls
          /\ Goto(c, "done")
          /\ Release(c)
          /\ UNCHANGED approvals
       \/ /\ ~Allowed(k, sessionRules[sess[c]], turnRules[c])
          /\ \E r \in Requests : Raise(c, k, r)
          /\ Goto(c, "done")
          /\ Release(c)
          /\ UNCHANGED waiters
    /\ UNCHANGED <<live, mode, aborted, unsaved, rules, begun, route>>

DirectDone(c) ==
    /\ pc[c] = "executing" /\ kind[c] = "direct"
    /\ Goto(c, "done")
    /\ Release(c)
    /\ UNCHANGED <<live, mode, aborted, unsaved, approvals, rules, begun, route>>

-----------------------------------------------------------------------------
(* POST /mode and POST /undo act after the body without a second look at   *)
(* runs.  What undo restores is the subject of module Undo.                *)

SetMode(c) ==
    /\ pc[c] = "body" /\ kind[c] = "mode"
    /\ IF sess[c] \in live
       THEN (\E m \in Modes : mode' = [mode EXCEPT ![sess[c]] = m]) /\ Goto(c, "done")
       ELSE UNCHANGED mode /\ Goto(c, "refused")
    /\ UNCHANGED <<live, registry, approvals, rules, begun, route>>

UndoSeries(c) ==
    /\ pc[c] = "body" /\ kind[c] = "undo"
    /\ \E p \in {"done", "refused"} : Goto(c, p)
    /\ UNCHANGED <<live, mode, registry, approvals, rules, begun, route>>

-----------------------------------------------------------------------------
(* POST /approvals.  The pending entry is removed first; a project folder  *)
(* that is gone (rootOk) or a rule that cannot be saved (saveOk) ends the  *)
(* handler there.  With a waiter the turn runs the call, else the handler. *)

Deny(r) ==
    /\ Take(r) /\ sess[raisedBy[r]] \in live
    /\ verdict' = [verdict EXCEPT ![r] = "deny"]
    /\ Resume(r, "model")
    /\ UNCHANGED <<live, mode, registry, rules, begun, route>>
    /\ UNCHANGED <<raisedBy, askKey, executed, late>>

Approve(r, d, rootOk, saveOk) ==
    LET s == sess[raisedBy[r]]
        eff == Effective(r, d)
        ok == rootOk /\ (eff = "project" => saveOk)
    IN /\ d # "deny" /\ Take(r) /\ s \in live
       /\ verdict' = [verdict EXCEPT ![r] = eff]
       /\ IF ok
          THEN /\ sessionRules' = IF eff = "session"
                    THEN [sessionRules EXCEPT ![s] = @ \cup {askKey[r]}] ELSE sessionRules
               /\ projectRules' = projectRules \cup (IF eff = "project" THEN {askKey[r]} ELSE {})
               /\ executed' = [executed EXCEPT ![r] = @ + 1]
               /\ Resume(r, "executing")
               /\ IF r \in waiters THEN Begins(raisedBy[r]) ELSE UNCHANGED late
          ELSE UNCHANGED <<rules, executed, waiters, pc, late>>
       /\ UNCHANGED <<live, mode, registry, begun, route, raisedBy, askKey>>

-----------------------------------------------------------------------------
(* Abort, closed stream, deletion, restart.                                *)

Abort(s) ==
    /\ s \in live /\ runs[s] # None
    /\ AbortRun(s)
    /\ pc' = Destroyed(s)
    /\ UNCHANGED <<live, mode, runs, unsaved, approvals, rules, begun, route>>

\* The close listener of a message stream: it aborts by session id, and a
\* handler still waiting for the runtime gives up.
CloseStream(c) ==
    /\ kind[c] = "message" /\ pc[c] \in (Registered \cup {"waiting"})
    /\ AbortRun(sess[c])
    /\ pc' = [Destroyed(sess[c]) EXCEPT ![c] = IF @ = "waiting" THEN "refused" ELSE @]
    /\ UNCHANGED <<live, mode, runs, unsaved, approvals, rules, begun, route>>

DeleteSession(s) ==
    /\ s \in live
    /\ live' = live \ {s}
    /\ UNCHANGED <<mode, registry, approvals, rules, begun, route, pc>>

\* The agent process dies and is started again: the Maps are gone, the store
\* and the project rules stay.
Restart ==
    /\ \E c \in Clients : pc[c] \notin {"idle", "refused", "done"}
    /\ pc' = [c \in Clients |-> IF pc[c] = "idle" THEN "idle" ELSE
                                IF pc[c] = "done" THEN "done" ELSE "refused"]
    /\ runs' = [s \in Sessions |-> None]
    /\ pending' = {} /\ waiters' = {}
    /\ sessionRules' = [s \in Sessions |-> {}]
    /\ UNCHANGED <<live, mode, projectRules, begun, route, aborted, unsaved>>
    /\ UNCHANGED <<raisedBy, askKey, verdict, executed, late>>

-----------------------------------------------------------------------------

Client(c) ==
    \/ Arrive(c) \/ MessageBody(c) \/ NoRuntime(c) \/ WaitForRuntime(c)
    \/ BeginTurn(c) \/ Ask(c) \/ Retry(c) \/ Reply(c) \/ FallbackToStream(c)
    \/ ToolDone(c) \/ PollAbort(c) \/ EndTurn(c) \/ StoreFails(c)
    \/ DirectBody(c) \/ DirectDone(c) \/ SetMode(c) \/ UndoSeries(c) \/ CloseStream(c)
    \/ \E k \in Keys : CallTool(c, k) \/ DirectCall(c, k)

Operator ==
    \/ \E r \in Requests : Deny(r)
    \/ \E r \in Requests, d \in Decisions, rootOk, saveOk \in BOOLEAN :
          Approve(r, d, rootOk, saveOk)
    \/ \E s \in Sessions : Abort(s) \/ DeleteSession(s)

Next == (\E c \in Clients : Client(c)) \/ Operator \/ Restart

\* Once its entry is marked, a turn's own callbacks fire: the kill functions or
\* its timeout end the tool, every request has a timeout, timers expire, the
\* poll ends the pause.  Nothing is assumed of the operator or of clients.
GoesOn(c) ==
    aborted[c] /\ (ToolDone(c) \/ PollAbort(c) \/ Retry(c) \/ Reply(c) \/ EndTurn(c))

Fairness == \A c \in Clients : WF_vars(GoesOn(c))

Spec == Init /\ [][Next]_vars
FairSpec == Spec /\ Fairness

-----------------------------------------------------------------------------
(* Properties.                                                             *)

TypeOK ==
    /\ live \subseteq Sessions
    /\ mode \in [Sessions -> Modes]
    /\ runs \in [Sessions -> Clients \cup {None}]
    /\ pending \subseteq Requests
    /\ waiters \subseteq Requests
    /\ sessionRules \in [Sessions -> SUBSET Keys]
    /\ projectRules \subseteq Keys
    /\ pc \in [Clients -> Phases]
    /\ kind \in [Clients -> Kinds]
    /\ sess \in [Clients -> Sessions]
    /\ aborted \in [Clients -> BOOLEAN]
    /\ turnMode \in [Clients -> Modes]
    /\ turnRules \in [Clients -> SUBSET Keys]
    /\ raisedBy \in [Requests -> Clients \cup {None}]
    /\ askKey \in [Requests -> Keys \cup {None}]
    /\ verdict \in [Requests -> Decisions \cup {None}]
    /\ executed \in [Requests -> Nat]
    /\ late \in [Clients -> Nat]
    /\ unsaved \subseteq Clients

\* An approval is spent once: whoever runs the call (the paused turn or the
\* handler), it runs at most once, after a decision other than "deny", and a
\* request still shown to the operator has neither run nor been decided.
\* (server.js: pending.delete comes before everything else.)
SingleExecution == \A r \in Requests :
    /\ executed[r] <= 1
    /\ executed[r] = 1 => verdict[r] \in {"once", "session", "project"}
    /\ r \in pending => executed[r] = 0 /\ verdict[r] = None

\* A waiter is exactly a turn paused on that request: none is left behind by
\* an abort, a decision or a restart, and no paused turn waits for two.
WaiterMatchesPause ==
    /\ \A r \in waiters : raisedBy[r] # None /\ pc[raisedBy[r]] = "paused"
    /\ \A q, r \in waiters : raisedBy[q] = raisedBy[r] => q = r

\* An approved deployment leaves no rule, whatever the operator picked, when
\* executeTool recognised it: when the model ran it with bash.  (A deployment
\* started with exec_start is remembered: DeployApprovedOnce below.)
DeployNeverRemembered ==
    \A s \in Sessions : (sessionRules[s] \cup projectRules) \cap KnownDeploys = {}

\* The registry keeps the entry of a handler that has ended in one case only: a
\* turn whose last write to the store failed.  The session then stays "busy"
\* (every message gets 409) until the agent restarts; every other way out of a
\* turn or a direct call, the abort and the fallback included, removes it.
NoStaleEntry == \A s \in Sessions :
    runs[s] # None => /\ sess[runs[s]] = s
                      /\ pc[runs[s]] \in Registered \/ runs[s] \in unsaved

\* Without direct tool calls a session has at most one turn, and the registry
\* knows it: messages, decisions, mode changes, undos, aborts, closed streams,
\* deletions and restarts in any order keep the turns apart.
TurnExclusion == "direct" \notin Kinds =>
    \A s \in Sessions : \A c \in Clients : Turn(c, s) => runs[s] = c

\* With direct calls the registry can lose a turn, but only to a direct call
\* that got past its own check: a turn it does not name shares its session
\* with a direct call that has read its body.
LostTurnHasDirect == \A s \in Sessions : \A c \in Clients :
    Turn(c, s) /\ runs[s] # c =>
        \E d \in Clients : /\ kind[d] = "direct" /\ sess[d] = s
                           /\ pc[d] \in {"entered", "executing", "done"}

\* A session rule silences the prompt for its key from the next call on, in
\* the turn that is running as well as in later ones (the Set is shared), for
\* every tool but two: a deployment that is recognised is asked every time, and
\* a tool mcp__server__tool is looked up under another name than its approval
\* was stored.
SessionRuleHonoured == [][\A r \in Requests :
    /\ raisedBy[r] = None /\ raisedBy'[r] # None
    /\ askKey'[r] \in sessionRules[sess[raisedBy'[r]]]
    => askKey'[r] \in KnownDeploys \cup Prefixed]_vars

\* An abort is only a mark while nothing it can destroy or kill is in flight
\* (history being compressed, pause before a retry, lookup of a binary, window
\* before the poll of a pause), so a call can still begin after it.  At most
\* one does: the loop looks at the mark before the next round.
OneLateCall == \A c \in Clients : late[c] <= 1

\* An aborted turn ends, also when it was paused and nobody ever answers,
\* unless the abort is lost with the entry the fallback replaces.
AbortedTurnEnds == \A c \in Clients :
    (kind[c] = "message" /\ aborted[c]) ~> (pc[c] \in {"done", "refused"} \/ ~aborted[c])

-----------------------------------------------------------------------------
(* Claims of the documentation and the tests that the code does not keep;  *)
(* the runs that check them end in a counterexample.                       *)

\* README of sudo-agent, POST tools/call: "409 pendant un tour".
DirectCallRefusedDuringTurn == [][\A c, t \in Clients :
    pc[c] = "body" /\ pc'[c] = "entered" => ~Turn(t, sess[c])]_vars

\* loop.js: "an approval PAUSES the turn (resumable)": the request a turn is
\* paused on is on the operator's list.
PausedIsAnswerable == waiters \subseteq pending

\* README of sudo-agent, on deployments: "usage unique, jamais mémorisée"; a
\* comment of executeTool: "the operator is STILL asked every time".
DeployApprovedOnce == \A r \in Requests :
    askKey[r] \in Deploys => verdict[r] \notin {"session", "project"}

=============================================================================

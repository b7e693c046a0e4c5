-------------------------- MODULE AgentServerProofs --------------------------
(* Safety of AgentServer for every set of sessions, clients, approval ids  *)
(* and rule keys: one inductive invariant, then the properties it implies. *)
EXTENDS AgentServer, TLAPS

\* An id is on the operator's list or waited for only once a call of some
\* client created it, and until then it has no decision and no execution.
Asked == \A r \in Requests :
    /\ r \in pending \cup waiters => raisedBy[r] \in Clients /\ askKey[r] \in Keys
    /\ raisedBy[r] = None => verdict[r] = None /\ executed[r] = 0

\* Only a message is ever in a phase of a turn, only a direct call enters.
PhaseOfKind == \A c \in Clients :
    /\ pc[c] \in {"probe", "waiting", "model", "deaf", "asking", "chosen", "stream", "question", "paused"} =>
         kind[c] = "message"
    /\ pc[c] = "entered" => kind[c] = "direct"

\* A call that began after the abort is the last thing a turn does: what is
\* left is the end of the call and of the turn.
LateIsLast == \A c \in Clients :
    late[c] # 0 => aborted[c] /\ pc[c] \in {"executing", "model", "done", "refused"}

\* Each conjunct is needed: the type of a new rule rests on Asked, the single
\* execution on "pending means undecided", the registry facts on the waiters
\* being paused turns, the loss of a turn on the entries being fresh, and the
\* bound on late calls on the phases in which one can be behind a turn.
IInv ==
    /\ TypeOK
    /\ Asked
    /\ PhaseOfKind
    /\ SingleExecution
    /\ WaiterMatchesPause
    /\ DeployNeverRemembered
    /\ NoStaleEntry
    /\ LostTurnHasDirect
    /\ LateIsLast
    /\ OneLateCall

LEMMA Inductive == Spec => []IInv
<1> USE ConstantsAssumption
    DEF IInv, TypeOK, Asked, PhaseOfKind, SingleExecution, WaiterMatchesPause,
        DeployNeverRemembered, NoStaleEntry, LostTurnHasDirect, LateIsLast, OneLateCall,
        Turn, Registered, Phases, Modes, Decisions, KnownDeploys
<1>1. Init => IInv
  BY DEF Init
<1>2. IInv /\ [Next]_vars => IInv'
  <2> SUFFICES ASSUME IInv, [Next]_vars PROVE IInv'
    OBVIOUS
  <2> USE DEF Goto, Release, AbortRun, Destroyed, Begins, Raise, Resume, Effective, Free, MayAct, GivesUp, Take,
              registry, approvals, rules, begun, route
  <2>1. ASSUME NEW c \in Clients, Arrive(c) PROVE IInv'
    BY <2>1 DEF Arrive
  <2>2. ASSUME NEW c \in Clients, MessageBody(c) PROVE IInv'
    BY <2>2 DEF MessageBody
  <2>3. ASSUME NEW c \in Clients, NoRuntime(c) PROVE IInv'
    BY <2>3 DEF NoRuntime
  <2>4. ASSUME NEW c \in Clients, WaitForRuntime(c) PROVE IInv'
    BY <2>4 DEF WaitForRuntime
  <2>5. ASSUME NEW c \in Clients, BeginTurn(c) PROVE IInv'
    <3>1. TypeOK'
      <4>1. /\ pc' \in [Clients -> Phases]
            /\ runs' \in [Sessions -> Clients \cup {None}]
        BY <2>5 DEF BeginTurn
      <4>2. turnMode' \in [Clients -> Modes] /\ turnRules' \in [Clients -> SUBSET Keys]
        BY <2>5 DEF BeginTurn
      <4>3. QED
        BY <2>5, <4>1, <4>2 DEF BeginTurn
    <3>2. Asked'
      BY <2>5 DEF BeginTurn
    <3>3. SingleExecution'
      BY <2>5 DEF BeginTurn
    <3>4. WaiterMatchesPause'
      BY <2>5 DEF BeginTurn
    <3>5. DeployNeverRemembered'
      BY <2>5 DEF BeginTurn
    <3>6. NoStaleEntry'
      BY <2>5 DEF BeginTurn
    <3>7. LostTurnHasDirect'
      BY <2>5 DEF BeginTurn
    <3>8. PhaseOfKind'
      BY <2>5 DEF BeginTurn
    <3>9. LateIsLast' /\ OneLateCall'
      BY <2>5 DEF BeginTurn
    <3>10. QED
      BY <3>1, <3>2, <3>3, <3>4, <3>5, <3>6, <3>7, <3>8, <3>9
  <2>6. ASSUME NEW c \in Clients, FallbackToStream(c) PROVE IInv'
    <3>1. TypeOK'
      BY <2>6 DEF FallbackToStream
    <3>2. Asked'
      BY <2>6 DEF FallbackToStream
    <3>3. SingleExecution'
      BY <2>6 DEF FallbackToStream
    <3>4. WaiterMatchesPause'
      BY <2>6 DEF FallbackToStream
    <3>5. DeployNeverRemembered'
      BY <2>6 DEF FallbackToStream
    <3>6. NoStaleEntry'
      BY <2>6 DEF FallbackToStream
    <3>7. LostTurnHasDirect'
      <4> SUFFICES ASSUME NEW s \in Sessions, NEW t \in Clients,
                          Turn(t, s)', runs'[s] # t
                   PROVE  (\E d \in Clients : /\ kind[d] = "direct" /\ sess[d] = s
                              /\ pc[d] \in {"entered", "executing", "done"})'
        BY DEF LostTurnHasDirect
      <4>1. t # c /\ Turn(t, s) /\ (Turn(c, s) \/ runs'[s] = runs[s])
        BY <2>6 DEF FallbackToStream
      <4>2. \E d \in Clients : /\ kind[d] = "direct" /\ sess[d] = s
                                /\ pc[d] \in {"entered", "executing", "done"}
        BY <4>1
      <4>3. QED
        BY <2>6, <4>2 DEF FallbackToStream
    <3>8. PhaseOfKind'
      BY <2>6 DEF FallbackToStream
    <3>9. LateIsLast' /\ OneLateCall'
      BY <2>6 DEF FallbackToStream
    <3>10. QED
      BY <3>1, <3>2, <3>3, <3>4, <3>5, <3>6, <3>7, <3>8, <3>9
  <2>7. ASSUME NEW c \in Clients, Ask(c) PROVE IInv'
    BY <2>7 DEF Ask
  <2>8. ASSUME NEW c \in Clients, Retry(c) PROVE IInv'
    <3>1. TypeOK'
      BY <2>8 DEF Retry
    <3>2. Asked'
      BY <2>8 DEF Retry
    <3>3. SingleExecution'
      BY <2>8 DEF Retry
    <3>4. WaiterMatchesPause'
      BY <2>8 DEF Retry
    <3>5. DeployNeverRemembered'
      BY <2>8 DEF Retry
    <3>6. NoStaleEntry'
      BY <2>8 DEF Retry
    <3>7. LostTurnHasDirect'
      BY <2>8 DEF Retry
    <3>8. PhaseOfKind'
      BY <2>8 DEF Retry
    <3>9. LateIsLast' /\ OneLateCall'
      BY <2>8 DEF Retry
    <3>10. QED
      BY <3>1, <3>2, <3>3, <3>4, <3>5, <3>6, <3>7, <3>8, <3>9
  <2>9. ASSUME NEW c \in Clients, Reply(c) PROVE IInv'
    BY <2>9 DEF Reply
  <2>10. ASSUME NEW c \in Clients, ToolDone(c) PROVE IInv'
    BY <2>10 DEF ToolDone
  <2>11. ASSUME NEW c \in Clients, PollAbort(c) PROVE IInv'
    BY <2>11 DEF PollAbort
  <2>12. ASSUME NEW c \in Clients, EndTurn(c) PROVE IInv'
    BY <2>12 DEF EndTurn
  <2>13. ASSUME NEW c \in Clients, StoreFails(c) PROVE IInv'
    BY <2>13 DEF StoreFails
  <2>14. ASSUME NEW c \in Clients, DirectBody(c) PROVE IInv'
    <3>1. TypeOK'
      <4>1. pc' \in [Clients -> Phases]
        BY <2>14 DEF DirectBody
      <4>2. runs' \in [Sessions -> Clients \cup {None}]
        BY <2>14 DEF DirectBody
      <4>3. QED
        BY <2>14, <4>1, <4>2 DEF DirectBody
    <3>2. Asked'
      BY <2>14 DEF DirectBody
    <3>3. SingleExecution'
      BY <2>14 DEF DirectBody
    <3>4. WaiterMatchesPause'
      BY <2>14 DEF DirectBody
    <3>5. DeployNeverRemembered'
      BY <2>14 DEF DirectBody
    <3>6. NoStaleEntry'
      BY <2>14 DEF DirectBody
    <3>7. LostTurnHasDirect'
      BY <2>14 DEF DirectBody
    <3>8. PhaseOfKind'
      BY <2>14 DEF DirectBody
    <3>9. LateIsLast' /\ OneLateCall'
      <4>1. late' = late /\ aborted' = aborted /\ late[c] = 0
        BY <2>14 DEF DirectBody
      <4>2. \A b \in Clients : b # c => pc'[b] = pc[b]
        BY <2>14 DEF DirectBody
      <4>3. QED
        BY <4>1, <4>2
    <3>10. QED
      BY <3>1, <3>2, <3>3, <3>4, <3>5, <3>6, <3>7, <3>8, <3>9
  <2>15. ASSUME NEW c \in Clients, DirectDone(c) PROVE IInv'
    BY <2>15 DEF DirectDone
  <2>16. ASSUME NEW c \in Clients, SetMode(c) PROVE IInv'
    <3>1. TypeOK'
      <4>1. mode' \in [Sessions -> Modes]
        BY <2>16 DEF SetMode
      <4>2. pc' \in [Clients -> Phases]
        BY <2>16 DEF SetMode
      <4>3. UNCHANGED <<live, registry, approvals, rules, begun, route>>
        BY <2>16 DEF SetMode
      <4>4. QED
        BY <4>1, <4>2, <4>3 DEF approvals
    <3>2. Asked'
      BY <2>16 DEF SetMode
    <3>3. SingleExecution'
      BY <2>16 DEF SetMode
    <3>4. WaiterMatchesPause'
      BY <2>16 DEF SetMode
    <3>5. DeployNeverRemembered'
      BY <2>16 DEF SetMode
    <3>6. NoStaleEntry'
      BY <2>16 DEF SetMode
    <3>7. LostTurnHasDirect'
      BY <2>16 DEF SetMode
    <3>8. PhaseOfKind'
      BY <2>16 DEF SetMode
    <3>9. LateIsLast' /\ OneLateCall'
      BY <2>16 DEF SetMode
    <3>10. QED
      BY <3>1, <3>2, <3>3, <3>4, <3>5, <3>6, <3>7, <3>8, <3>9
  <2>17. ASSUME NEW c \in Clients, UndoSeries(c) PROVE IInv'
    BY <2>17 DEF UndoSeries
  <2>18. ASSUME NEW c \in Clients, CloseStream(c) PROVE IInv'
    <3>1. TypeOK'
      BY <2>18 DEF CloseStream
    <3>2. Asked'
      BY <2>18 DEF CloseStream
    <3>3. SingleExecution'
      BY <2>18 DEF CloseStream
    <3>4. WaiterMatchesPause'
      BY <2>18 DEF CloseStream
    <3>5. DeployNeverRemembered'
      BY <2>18 DEF CloseStream
    <3>6. NoStaleEntry'
      BY <2>18 DEF CloseStream
    <3>7. LostTurnHasDirect'
      <4>1. ASSUME NEW d \in Clients
            PROVE  /\ pc'[d] \in Registered => pc[d] \in Registered
                   /\ pc[d] \in {"entered", "executing", "done"} => pc'[d] = pc[d]
        BY <2>18 DEF CloseStream
      <4>2. runs' = runs /\ kind' = kind /\ sess' = sess
        BY <2>18 DEF CloseStream
      <4>3. SUFFICES ASSUME NEW s \in Sessions, NEW t \in Clients,
                            Turn(t, s)', runs'[s] # t
                     PROVE  (\E d \in Clients : /\ kind[d] = "direct" /\ sess[d] = s
                                /\ pc[d] \in {"entered", "executing", "done"})'
        BY DEF LostTurnHasDirect
      <4>4. \E d \in Clients : /\ kind[d] = "direct" /\ sess[d] = s
                                /\ pc[d] \in {"entered", "executing", "done"}
        BY <4>1, <4>2, <4>3
      <4>5. QED
        BY <4>1, <4>2, <4>4
    <3>8. PhaseOfKind'
      BY <2>18 DEF CloseStream
    <3>9. LateIsLast' /\ OneLateCall'
      BY <2>18 DEF CloseStream
    <3>10. QED
      BY <3>1, <3>2, <3>3, <3>4, <3>5, <3>6, <3>7, <3>8, <3>9
  <2>19. ASSUME NEW c \in Clients, NEW k \in Keys, CallTool(c, k) PROVE IInv'
    <3>1. TypeOK'
      <4>1. pc' \in [Clients -> Phases]
        BY <2>19 DEF CallTool
      <4>2. late' \in [Clients -> Nat]
        BY <2>19 DEF CallTool
      <4>3. /\ pending' \subseteq Requests /\ waiters' \subseteq Requests
            /\ raisedBy' \in [Requests -> Clients \cup {None}]
            /\ askKey' \in [Requests -> Keys \cup {None}]
        BY <2>19 DEF CallTool
      <4>4. UNCHANGED <<verdict, executed>>
        BY <2>19 DEF CallTool
      <4>5. UNCHANGED <<live, mode, registry, rules, begun, route>>
        BY <2>19 DEF CallTool
      <4>6. QED
        BY <4>1, <4>2, <4>3, <4>4, <4>5
    <3>2. Asked'
      BY <2>19 DEF CallTool
    <3>3. SingleExecution'
      BY <2>19 DEF CallTool
    <3>4. WaiterMatchesPause'
      BY <2>19 DEF CallTool
    <3>5. DeployNeverRemembered'
      BY <2>19 DEF CallTool
    <3>6. NoStaleEntry'
      BY <2>19 DEF CallTool
    <3>7. LostTurnHasDirect'
      BY <2>19 DEF CallTool
    <3>8. PhaseOfKind'
      BY <2>19 DEF CallTool
    <3>9. LateIsLast' /\ OneLateCall'
      BY <2>19 DEF CallTool
    <3>10. QED
      BY <3>1, <3>2, <3>3, <3>4, <3>5, <3>6, <3>7, <3>8, <3>9
  <2>20. ASSUME NEW c \in Clients, NEW k \in Keys, DirectCall(c, k) PROVE IInv'
    <3>1. TypeOK'
      <4>1. pc' \in [Clients -> Phases]
        BY <2>20 DEF DirectCall
      <4>2. late' \in [Clients -> Nat]
        BY <2>20 DEF DirectCall
      <4>3. runs' \in [Sessions -> Clients \cup {None}]
        BY <2>20 DEF DirectCall
      <4>4. /\ pending' \subseteq Requests
            /\ raisedBy' \in [Requests -> Clients \cup {None}]
            /\ askKey' \in [Requests -> Keys \cup {None}]
        BY <2>20 DEF DirectCall
      <4>5. UNCHANGED <<verdict, executed, waiters>>
        BY <2>20 DEF DirectCall
      <4>6. UNCHANGED <<live, mode, aborted, unsaved, rules, begun, route>>
        BY <2>20 DEF DirectCall
      <4>7. QED
        BY <4>1, <4>2, <4>3, <4>4, <4>5, <4>6
    <3>2. Asked'
      BY <2>20 DEF DirectCall
    <3>3. SingleExecution'
      BY <2>20 DEF DirectCall
    <3>4. WaiterMatchesPause'
      BY <2>20 DEF DirectCall
    <3>5. DeployNeverRemembered'
      BY <2>20 DEF DirectCall
    <3>6. NoStaleEntry'
      BY <2>20 DEF DirectCall
    <3>7. LostTurnHasDirect'
      BY <2>20 DEF DirectCall
    <3>8. PhaseOfKind'
      BY <2>20 DEF DirectCall
    <3>9. LateIsLast' /\ OneLateCall'
      <4>1. late[c] = 0 /\ aborted' = aborted
        BY <2>20 DEF DirectCall
      <4>2. \A b \in Clients : b # c => late'[b] = late[b] /\ pc'[b] = pc[b]
        BY <2>20 DEF DirectCall
      <4>3. late'[c] # 0 => late'[c] = 1 /\ aborted[c] /\ pc'[c] = "executing"
        BY <2>20, <4>1 DEF DirectCall
      <4>4. QED
        BY <4>1, <4>2, <4>3
    <3>10. QED
      BY <3>1, <3>2, <3>3, <3>4, <3>5, <3>6, <3>7, <3>8, <3>9
  <2>21. ASSUME NEW r \in Requests, Deny(r) PROVE IInv'
    <3>1. TypeOK'
      BY <2>21 DEF Deny
    <3>2. Asked'
      BY <2>21 DEF Deny
    <3>3. SingleExecution'
      BY <2>21 DEF Deny
    <3>4. WaiterMatchesPause'
      BY <2>21 DEF Deny
    <3>5. DeployNeverRemembered'
      BY <2>21 DEF Deny
    <3>6. NoStaleEntry'
      BY <2>21 DEF Deny
    <3>7. LostTurnHasDirect'
      BY <2>21 DEF Deny
    <3>8. PhaseOfKind'
      BY <2>21 DEF Deny
    <3>9. LateIsLast' /\ OneLateCall'
      BY <2>21 DEF Deny
    <3>10. QED
      BY <3>1, <3>2, <3>3, <3>4, <3>5, <3>6, <3>7, <3>8, <3>9
  <2>22. ASSUME NEW r \in Requests, NEW d \in Decisions, NEW rootOk \in BOOLEAN,
                NEW saveOk \in BOOLEAN, Approve(r, d, rootOk, saveOk)
         PROVE IInv'
    <3>1. TypeOK'
      <4>1. pc' \in [Clients -> Phases] /\ waiters' \subseteq Requests
        BY <2>22 DEF Approve
      <4>2. late' \in [Clients -> Nat]
        BY <2>22 DEF Approve
      <4>3. verdict' \in [Requests -> Decisions \cup {None}]
        BY <2>22 DEF Approve
      <4>4. executed' \in [Requests -> Nat]
        BY <2>22 DEF Approve
      <4>5. sessionRules' \in [Sessions -> SUBSET Keys] /\ projectRules' \subseteq Keys
        BY <2>22 DEF Approve
      <4>6. QED
        BY <2>22, <4>1, <4>2, <4>3, <4>4, <4>5 DEF Approve
    <3>2. Asked'
      BY <2>22 DEF Approve
    <3>3. SingleExecution'
      BY <2>22 DEF Approve
    <3>4. WaiterMatchesPause'
      BY <2>22 DEF Approve
    <3>5. DeployNeverRemembered'
      BY <2>22 DEF Approve
    <3>6. NoStaleEntry'
      BY <2>22 DEF Approve
    <3>7. LostTurnHasDirect'
      BY <2>22 DEF Approve
    <3>8. PhaseOfKind'
      BY <2>22 DEF Approve
    <3>9. LateIsLast' /\ OneLateCall'
      BY <2>22 DEF Approve
    <3>10. QED
      BY <3>1, <3>2, <3>3, <3>4, <3>5, <3>6, <3>7, <3>8, <3>9
  <2>23. ASSUME NEW s \in Sessions, Abort(s) PROVE IInv'
    BY <2>23 DEF Abort
  <2>24. ASSUME NEW s \in Sessions, DeleteSession(s) PROVE IInv'
    BY <2>24 DEF DeleteSession
  <2>25. CASE Restart
    BY <2>25 DEF Restart
  <2>26. CASE UNCHANGED vars
    BY <2>26 DEF vars
  <2>27. ASSUME NEW c \in Clients, Client(c) PROVE IInv'
    BY <2>27, <2>1, <2>2, <2>3, <2>4, <2>5, <2>6, <2>10, <2>11, <2>12, <2>13, <2>14, <2>15,
       <2>16, <2>17, <2>18, <2>19, <2>20, <2>7, <2>8, <2>9 DEF Client
  <2>28. CASE Operator
    BY <2>28, <2>21, <2>22, <2>23, <2>24 DEF Operator
  <2>29. QED
    BY <2>27, <2>28, <2>25, <2>26 DEF Next
<1>3. QED
  BY <1>1, <1>2, PTL DEF Spec

\* Every variable keeps its type under every handler.
THEOREM TypeCorrect == Spec => []TypeOK
<1>1. IInv => TypeOK
  BY DEF IInv
<1>2. QED
  BY <1>1, Inductive, PTL

\* An approval runs its call at most once, and only after a decision that
\* allows it (server.js: the request leaves the list before anything else).
THEOREM ApprovalsRunOnce == Spec => []SingleExecution
<1>1. IInv => SingleExecution
  BY DEF IInv
<1>2. QED
  BY <1>1, Inductive, PTL

\* The waiters are the pauses of turns, one each, after any number of aborts,
\* decisions, closed streams and restarts (pauseForApproval).
THEOREM WaitersArePausedTurns == Spec => []WaiterMatchesPause
<1>1. IInv => WaiterMatchesPause
  BY DEF IInv
<1>2. QED
  BY <1>1, Inductive, PTL

\* No session or project rule ever covers a deployment that executeTool
\* recognises, in a bash command (POST /approvals).
THEOREM DeploysNotRemembered == Spec => []DeployNeverRemembered
<1>1. IInv => DeployNeverRemembered
  BY DEF IInv
<1>2. QED
  BY <1>1, Inductive, PTL

\* An entry of the registry belongs to a handler that is still to remove it, or
\* to a turn whose last write to the store failed (runTurn, loop.js).
THEOREM EntriesAreFresh == Spec => []NoStaleEntry
<1>1. IInv => NoStaleEntry
  BY DEF IInv
<1>2. QED
  BY <1>1, Inductive, PTL

\* A turn the registry does not name was displaced by a direct tool call.
THEOREM OnlyDirectCallsDisplace == Spec => []LostTurnHasDirect
<1>1. IInv => LostTurnHasDirect
  BY DEF IInv
<1>2. QED
  BY <1>1, Inductive, PTL

\* Where no client uses POST /tools/call, a session has one turn at a time and
\* every abort reaches it.
THEOREM TurnsAreExclusive == Spec => []TurnExclusion
<1>1. IInv => TurnExclusion
  BY DEF IInv, TypeOK, LostTurnHasDirect, TurnExclusion
<1>2. QED
  BY <1>1, Inductive, PTL

\* A call whose key has a session rule is not put before the operator, in
\* turns and direct calls alike, except for a deployment in a bash command and
\* for the tools mcp__server__tool (permissions.check, executeTool).
THEOREM SessionRulesHonoured == Spec => SessionRuleHonoured
<1>1. IInv /\ [Next]_vars =>
        [\A r \in Requests :
            /\ raisedBy[r] = None /\ raisedBy'[r] # None
            /\ askKey'[r] \in sessionRules[sess[raisedBy'[r]]]
            => askKey'[r] \in KnownDeploys \cup Prefixed]_vars
  <2> SUFFICES ASSUME IInv, Next, NEW r \in Requests,
                      raisedBy[r] = None, raisedBy'[r] # None,
                      askKey'[r] \in sessionRules[sess[raisedBy'[r]]]
               PROVE  askKey'[r] \in KnownDeploys \cup Prefixed
    OBVIOUS
  <2>1. PICK c \in Clients, k \in Keys :
            /\ ~Allowed(k, sessionRules[sess[c]], turnRules[c])
            /\ \E q \in Requests : Raise(c, k, q)
    <3>1. raisedBy' # raisedBy
      OBVIOUS
    <3>2. \E c \in Clients, k \in Keys : CallTool(c, k) \/ DirectCall(c, k)
      BY <3>1 DEF Next, Client, Operator, Arrive, MessageBody, NoRuntime, WaitForRuntime,
         BeginTurn, Ask, Retry, Reply, FallbackToStream, ToolDone, PollAbort, EndTurn, StoreFails,
         DirectBody, DirectDone, SetMode, UndoSeries, CloseStream, Deny, Approve, Abort, DeleteSession, Restart,
         approvals
    <3>3. QED
      BY <3>1, <3>2 DEF CallTool, DirectCall, approvals
  <2>2. raisedBy'[r] = c /\ askKey'[r] = k
    BY <2>1 DEF Raise, IInv, TypeOK
  <2>3. QED
    BY <2>1, <2>2 DEF Allowed, RuleSought
<1>2. QED
  BY <1>1, Inductive, PTL DEF Spec, SessionRuleHonoured

\* After its abort a turn begins at most one more call (toolsTurn looks at the
\* mark at the top of each round).
THEOREM AbortBoundsCalls == Spec => []OneLateCall
<1>1. IInv => OneLateCall
  BY DEF IInv
<1>2. QED
  BY <1>1, Inductive, PTL

=============================================================================

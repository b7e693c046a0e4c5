---------------------------- MODULE ServiceProofs ----------------------------
(* Safety of the services beside the agent's turns: of AgentSupervisor, for  *)
(* every number of launches and of attempts; of RuntimeSupervisor, for every *)
(* cap, window, threshold and grace period, and every number of calls of     *)
(* maybeRestart; of ModelLoad, for every number of HTTP threads and of       *)
(* loads; and of all of them, with OrchRun and the tools, side by side.      *)
EXTENDS MCServices, TurnProofs, ToolProofs, FiniteSetTheorems

-----------------------------------------------------------------------------
(* The supervisor of the agent.                                             *)

\* What the theorems assume of the constants.
Servings == Servers \subseteq Nat /\ NoServer \notin Servers /\ MaxAttempts \in Nat

\* A server that is not launched yet has nothing.
Unlaunched == \A s \in Servers \ launched :
    stopped[s] = FALSE /\ child[s] = FALSE /\ startup[s] = FALSE /\ restartTimer[s] = FALSE

\* At most one way on, at least one before the stop, and no timer after it.
Exclusive == \A s \in Servers :
    /\ child[s] = TRUE => startup[s] = FALSE /\ restartTimer[s] = FALSE
    /\ startup[s] = TRUE => restartTimer[s] = FALSE
    /\ stopped[s] = TRUE => restartTimer[s] = FALSE
    /\ s \in launched /\ stopped[s] = FALSE =>
          child[s] = TRUE \/ startup[s] = TRUE \/ restartTimer[s] = TRUE

\* NoStrayAgent, for each of the three.
KnownOrMissed == \A s \in Servers :
    child[s] = TRUE \/ startup[s] = TRUE \/ restartTimer[s] = TRUE =>
        s = agentServer \/ s \in missed

AgentInv == AgentTypeOK /\ Unlaunched /\ Exclusive /\ KnownOrMissed

-----------------------------------------------------------------------------
\* The ways of a server, counted.
LEMMA WaysCounted ==
    ASSUME AgentTypeOK, NEW s \in Servers
    PROVE  /\ child[s] = FALSE /\ startup[s] = FALSE /\ restartTimer[s] = FALSE => Ways(s) = 0
           /\ child[s] = TRUE /\ startup[s] = FALSE /\ restartTimer[s] = FALSE => Ways(s) = 1
           /\ child[s] = FALSE /\ startup[s] = TRUE /\ restartTimer[s] = FALSE => Ways(s) = 1
           /\ child[s] = FALSE /\ startup[s] = FALSE /\ restartTimer[s] = TRUE => Ways(s) = 1
<1> DEFINE W == {w \in 1 .. 3 : <<child[s], startup[s], restartTimer[s]>>[w]}
<1>w. 1 .. 3 = {1, 2, 3}
  OBVIOUS
<1>t. /\ <<child[s], startup[s], restartTimer[s]>>[1] = child[s]
      /\ <<child[s], startup[s], restartTimer[s]>>[2] = startup[s]
      /\ <<child[s], startup[s], restartTimer[s]>>[3] = restartTimer[s]
  OBVIOUS
<1>1. ASSUME child[s] = FALSE, startup[s] = FALSE, restartTimer[s] = FALSE PROVE W = {}
  BY <1>1, <1>w, <1>t
<1>2. ASSUME child[s] = TRUE, startup[s] = FALSE, restartTimer[s] = FALSE PROVE W = {1}
  BY <1>2, <1>w, <1>t
<1>3. ASSUME child[s] = FALSE, startup[s] = TRUE, restartTimer[s] = FALSE PROVE W = {2}
  BY <1>3, <1>w, <1>t
<1>4. ASSUME child[s] = FALSE, startup[s] = FALSE, restartTimer[s] = TRUE PROVE W = {3}
  BY <1>4, <1>w, <1>t
<1>5. Ways(s) = Cardinality(W)
  BY DEF Ways
<1> HIDE DEF W
<1>6. /\ Cardinality({}) = 0 /\ Cardinality({1}) = 1
      /\ Cardinality({2}) = 1 /\ Cardinality({3}) = 1
  BY FS_EmptySet, FS_Singleton
<1> QED
  BY <1>1, <1>2, <1>3, <1>4, <1>5, <1>6

LEMMA AgentInductive == ASSUME Servings PROVE AgentSpec => []AgentInv
<1> USE DEF Servings
<1>1. AgentInit => AgentInv
  <2> SUFFICES ASSUME AgentInit PROVE AgentInv
    OBVIOUS
  <2> USE DEF AgentInit
  <2>1. AgentTypeOK
    <3>1. attempts \in [Servers -> 0 .. MaxAttempts] /\ awaiting \in Nat
      OBVIOUS
    <3>2. {stopped, child, startup, restartTimer} \subseteq [Servers -> BOOLEAN]
      OBVIOUS
    <3> QED
      BY <3>1, <3>2 DEF AgentTypeOK
  <2> QED
    BY <2>1 DEF AgentInv, Unlaunched, Exclusive, KnownOrMissed
<1>2. AgentInv /\ [AgentNext]_superVars => AgentInv'
  <2> SUFFICES ASSUME AgentInv, [AgentNext]_superVars PROVE AgentInv'
    OBVIOUS
  <2> USE DEF AgentInv, hostVars, serverVars
  <2>1. CASE \E s \in Servers : Handshake(s)
    <3> SUFFICES ASSUME NEW s \in Servers, Handshake(s) PROVE AgentInv'
      BY <2>1
    <3> USE DEF Handshake
    <3>1. AgentTypeOK'
      <4>1. agentServer' \in launched' \cup {NoServer} /\ launched' \subseteq Servers
            /\ missed' \subseteq Servers
        BY DEF AgentTypeOK
      <4>2. {activating', deactivated'} \subseteq BOOLEAN /\ awaiting' \in Nat
        BY DEF AgentTypeOK
      <4>3. attempts' \in [Servers -> 0 .. MaxAttempts]
        BY DEF AgentTypeOK
      <4>4. {stopped', child', startup', restartTimer'} \subseteq [Servers -> BOOLEAN]
        <5>1. stopped' \in [Servers -> BOOLEAN] /\ child' \in [Servers -> BOOLEAN]
          BY DEF AgentTypeOK
        <5>2. startup' \in [Servers -> BOOLEAN]
          BY DEF AgentTypeOK
        <5>3. restartTimer' \in [Servers -> BOOLEAN]
          BY DEF AgentTypeOK
        <5> QED
          BY <5>1, <5>2, <5>3
      <4> QED
        BY <4>1, <4>2, <4>3, <4>4 DEF AgentTypeOK
    <3>2. Unlaunched'
      BY DEF AgentTypeOK, Unlaunched
    <3>3. Exclusive'
      BY DEF AgentTypeOK, Unlaunched, Exclusive
    <3>4. KnownOrMissed'
      BY DEF AgentTypeOK, Unlaunched, KnownOrMissed, Exclusive
    <3> QED
      BY <3>1, <3>2, <3>3, <3>4
  <2>2. CASE \E s \in Servers : StartFails(s)
    <3> SUFFICES ASSUME NEW s \in Servers, StartFails(s) PROVE AgentInv'
      BY <2>2
    <3> USE DEF StartFails, Schedule
    <3>1. AgentTypeOK'
      <4>1. agentServer' \in launched' \cup {NoServer} /\ launched' \subseteq Servers
            /\ missed' \subseteq Servers
        BY DEF AgentTypeOK
      <4>2. {activating', deactivated'} \subseteq BOOLEAN /\ awaiting' \in Nat
        BY DEF AgentTypeOK
      <4>3. attempts' \in [Servers -> 0 .. MaxAttempts]
        BY DEF AgentTypeOK
      <4>4. {stopped', child', startup', restartTimer'} \subseteq [Servers -> BOOLEAN]
        <5>1. stopped' \in [Servers -> BOOLEAN] /\ child' \in [Servers -> BOOLEAN]
          BY DEF AgentTypeOK
        <5>2. startup' \in [Servers -> BOOLEAN]
          BY DEF AgentTypeOK
        <5>3. restartTimer' \in [Servers -> BOOLEAN]
          BY DEF AgentTypeOK
        <5> QED
          BY <5>1, <5>2, <5>3
      <4> QED
        BY <4>1, <4>2, <4>3, <4>4 DEF AgentTypeOK
    <3>2. Unlaunched'
      BY DEF AgentTypeOK, Unlaunched
    <3>3. Exclusive'
      BY DEF AgentTypeOK, Unlaunched, Exclusive
    <3>4. KnownOrMissed'
      BY DEF AgentTypeOK, Unlaunched, KnownOrMissed, Exclusive
    <3> QED
      BY <3>1, <3>2, <3>3, <3>4
  <2>3. CASE \E s \in Servers : ChildExits(s)
    <3> SUFFICES ASSUME NEW s \in Servers, ChildExits(s) PROVE AgentInv'
      BY <2>3
    <3> USE DEF ChildExits, Schedule
    <3>1. AgentTypeOK'
      <4>1. agentServer' \in launched' \cup {NoServer} /\ launched' \subseteq Servers
            /\ missed' \subseteq Servers
        BY DEF AgentTypeOK
      <4>2. {activating', deactivated'} \subseteq BOOLEAN /\ awaiting' \in Nat
        BY DEF AgentTypeOK
      <4>3. attempts' \in [Servers -> 0 .. MaxAttempts]
        BY DEF AgentTypeOK
      <4>4. {stopped', child', startup', restartTimer'} \subseteq [Servers -> BOOLEAN]
        <5>1. stopped' \in [Servers -> BOOLEAN] /\ child' \in [Servers -> BOOLEAN]
          BY DEF AgentTypeOK
        <5>2. startup' \in [Servers -> BOOLEAN]
          BY DEF AgentTypeOK
        <5>3. restartTimer' \in [Servers -> BOOLEAN]
          BY DEF AgentTypeOK
        <5> QED
          BY <5>1, <5>2, <5>3
      <4> QED
        BY <4>1, <4>2, <4>3, <4>4 DEF AgentTypeOK
    <3>2. Unlaunched'
      BY DEF AgentTypeOK, Unlaunched
    <3>3. Exclusive'
      BY DEF AgentTypeOK, Unlaunched, Exclusive
    <3>4. KnownOrMissed'
      BY DEF AgentTypeOK, Unlaunched, KnownOrMissed, Exclusive
    <3> QED
      BY <3>1, <3>2, <3>3, <3>4
  <2>4. CASE \E s \in Servers : TimerFires(s)
    <3> SUFFICES ASSUME NEW s \in Servers, TimerFires(s) PROVE AgentInv'
      BY <2>4
    <3> USE DEF TimerFires
    <3>1. AgentTypeOK'
      <4>1. agentServer' \in launched' \cup {NoServer} /\ launched' \subseteq Servers
            /\ missed' \subseteq Servers
        BY DEF AgentTypeOK
      <4>2. {activating', deactivated'} \subseteq BOOLEAN /\ awaiting' \in Nat
        BY DEF AgentTypeOK
      <4>3. attempts' \in [Servers -> 0 .. MaxAttempts]
        BY DEF AgentTypeOK
      <4>4. {stopped', child', startup', restartTimer'} \subseteq [Servers -> BOOLEAN]
        <5>1. stopped' \in [Servers -> BOOLEAN] /\ child' \in [Servers -> BOOLEAN]
          BY DEF AgentTypeOK
        <5>2. startup' \in [Servers -> BOOLEAN]
          BY DEF AgentTypeOK
        <5>3. restartTimer' \in [Servers -> BOOLEAN]
          BY DEF AgentTypeOK
        <5> QED
          BY <5>1, <5>2, <5>3
      <4> QED
        BY <4>1, <4>2, <4>3, <4>4 DEF AgentTypeOK
    <3>2. Unlaunched'
      BY DEF AgentTypeOK, Unlaunched
    <3>3. Exclusive'
      BY DEF AgentTypeOK, Unlaunched, Exclusive
    <3>4. KnownOrMissed'
      BY DEF AgentTypeOK, Unlaunched, KnownOrMissed, Exclusive
    <3> QED
      BY <3>1, <3>2, <3>3, <3>4
  <2>5. CASE \E s \in Servers : Activated(s)
    <3> SUFFICES ASSUME NEW s \in Servers, Activated(s) PROVE AgentInv'
      BY <2>5
    <3> USE DEF Activated, Launch, Halt, Late
    <3>1. AgentTypeOK'
      <4>1. agentServer' \in launched' \cup {NoServer} /\ launched' \subseteq Servers
            /\ missed' \subseteq Servers
        BY DEF AgentTypeOK
      <4>2. {activating', deactivated'} \subseteq BOOLEAN /\ awaiting' \in Nat
        BY DEF AgentTypeOK
      <4>3. attempts' \in [Servers -> 0 .. MaxAttempts]
        BY DEF AgentTypeOK
      <4>4. {stopped', child', startup', restartTimer'} \subseteq [Servers -> BOOLEAN]
        <5>1. stopped' \in [Servers -> BOOLEAN] /\ child' \in [Servers -> BOOLEAN]
          BY DEF AgentTypeOK
        <5>2. startup' \in [Servers -> BOOLEAN]
          BY DEF AgentTypeOK
        <5>3. restartTimer' \in [Servers -> BOOLEAN]
          BY DEF AgentTypeOK
        <5> QED
          BY <5>1, <5>2, <5>3
      <4> QED
        BY <4>1, <4>2, <4>3, <4>4 DEF AgentTypeOK
    <3>2. Unlaunched'
      BY DEF AgentTypeOK, Unlaunched
    <3>3. Exclusive'
      BY DEF AgentTypeOK, Unlaunched, Exclusive
    <3>4. KnownOrMissed'
      BY DEF AgentTypeOK, Unlaunched, KnownOrMissed, Exclusive
    <3> QED
      BY <3>1, <3>2, <3>3, <3>4
  <2>6. CASE Relaunch
    <3> USE <2>6 DEF Relaunch, Halt
    <3>1. AgentTypeOK'
      <4>1. agentServer' \in launched' \cup {NoServer} /\ launched' \subseteq Servers
            /\ missed' \subseteq Servers
        BY DEF AgentTypeOK
      <4>2. {activating', deactivated'} \subseteq BOOLEAN /\ awaiting' \in Nat
        BY DEF AgentTypeOK
      <4>3. attempts' \in [Servers -> 0 .. MaxAttempts]
        BY DEF AgentTypeOK
      <4>4. {stopped', child', startup', restartTimer'} \subseteq [Servers -> BOOLEAN]
        <5>1. stopped' \in [Servers -> BOOLEAN] /\ child' \in [Servers -> BOOLEAN]
          BY DEF AgentTypeOK
        <5>2. startup' \in [Servers -> BOOLEAN]
          BY DEF AgentTypeOK
        <5>3. restartTimer' \in [Servers -> BOOLEAN]
          BY DEF AgentTypeOK
        <5> QED
          BY <5>1, <5>2, <5>3
      <4> QED
        BY <4>1, <4>2, <4>3, <4>4 DEF AgentTypeOK
    <3>2. Unlaunched'
      BY DEF AgentTypeOK, Unlaunched
    <3>3. Exclusive'
      BY DEF AgentTypeOK, Unlaunched, Exclusive
    <3>4. KnownOrMissed'
      BY DEF AgentTypeOK, Unlaunched, KnownOrMissed, Exclusive
    <3> QED
      BY <3>1, <3>2, <3>3, <3>4
  <2>7. CASE \E s \in Servers : Relaunched(s)
    <3> SUFFICES ASSUME NEW s \in Servers, Relaunched(s) PROVE AgentInv'
      BY <2>7
    <3> USE DEF Relaunched, Launch, Late
    <3>1. AgentTypeOK'
      <4>1. agentServer' \in launched' \cup {NoServer} /\ launched' \subseteq Servers
            /\ missed' \subseteq Servers
        BY DEF AgentTypeOK
      <4>2. {activating', deactivated'} \subseteq BOOLEAN /\ awaiting' \in Nat
        BY DEF AgentTypeOK
      <4>3. attempts' \in [Servers -> 0 .. MaxAttempts]
        BY DEF AgentTypeOK
      <4>4. {stopped', child', startup', restartTimer'} \subseteq [Servers -> BOOLEAN]
        <5>1. stopped' \in [Servers -> BOOLEAN] /\ child' \in [Servers -> BOOLEAN]
          BY DEF AgentTypeOK
        <5>2. startup' \in [Servers -> BOOLEAN]
          BY DEF AgentTypeOK
        <5>3. restartTimer' \in [Servers -> BOOLEAN]
          BY DEF AgentTypeOK
        <5> QED
          BY <5>1, <5>2, <5>3
      <4> QED
        BY <4>1, <4>2, <4>3, <4>4 DEF AgentTypeOK
    <3>2. Unlaunched'
      BY DEF AgentTypeOK, Unlaunched
    <3>3. Exclusive'
      BY DEF AgentTypeOK, Unlaunched, Exclusive
    <3>4. KnownOrMissed'
      BY DEF AgentTypeOK, Unlaunched, KnownOrMissed, Exclusive
    <3> QED
      BY <3>1, <3>2, <3>3, <3>4
  <2>8. CASE RelaunchRefused
    <3> USE <2>8 DEF RelaunchRefused
    <3>1. AgentTypeOK'
      <4>1. agentServer' \in launched' \cup {NoServer} /\ launched' \subseteq Servers
            /\ missed' \subseteq Servers
        BY DEF AgentTypeOK
      <4>2. {activating', deactivated'} \subseteq BOOLEAN /\ awaiting' \in Nat
        BY DEF AgentTypeOK
      <4>3. attempts' \in [Servers -> 0 .. MaxAttempts]
        BY DEF AgentTypeOK
      <4>4. {stopped', child', startup', restartTimer'} \subseteq [Servers -> BOOLEAN]
        <5>1. stopped' \in [Servers -> BOOLEAN] /\ child' \in [Servers -> BOOLEAN]
          BY DEF AgentTypeOK
        <5>2. startup' \in [Servers -> BOOLEAN]
          BY DEF AgentTypeOK
        <5>3. restartTimer' \in [Servers -> BOOLEAN]
          BY DEF AgentTypeOK
        <5> QED
          BY <5>1, <5>2, <5>3
      <4> QED
        BY <4>1, <4>2, <4>3, <4>4 DEF AgentTypeOK
    <3>2. Unlaunched'
      BY DEF AgentTypeOK, Unlaunched
    <3>3. Exclusive'
      BY DEF AgentTypeOK, Unlaunched, Exclusive
    <3>4. KnownOrMissed'
      BY DEF AgentTypeOK, Unlaunched, KnownOrMissed, Exclusive
    <3> QED
      BY <3>1, <3>2, <3>3, <3>4
  <2>9. CASE Deactivate
    <3> USE <2>9 DEF Deactivate, Halt
    <3>1. AgentTypeOK'
      <4>1. agentServer' \in launched' \cup {NoServer} /\ launched' \subseteq Servers
            /\ missed' \subseteq Servers
        BY DEF AgentTypeOK
      <4>2. {activating', deactivated'} \subseteq BOOLEAN /\ awaiting' \in Nat
        BY DEF AgentTypeOK
      <4>3. attempts' \in [Servers -> 0 .. MaxAttempts]
        BY DEF AgentTypeOK
      <4>4. {stopped', child', startup', restartTimer'} \subseteq [Servers -> BOOLEAN]
        <5>1. stopped' \in [Servers -> BOOLEAN] /\ child' \in [Servers -> BOOLEAN]
          BY DEF AgentTypeOK
        <5>2. startup' \in [Servers -> BOOLEAN]
          BY DEF AgentTypeOK
        <5>3. restartTimer' \in [Servers -> BOOLEAN]
          BY DEF AgentTypeOK
        <5> QED
          BY <5>1, <5>2, <5>3
      <4> QED
        BY <4>1, <4>2, <4>3, <4>4 DEF AgentTypeOK
    <3>2. Unlaunched'
      BY DEF AgentTypeOK, Unlaunched
    <3>3. Exclusive'
      BY DEF AgentTypeOK, Unlaunched, Exclusive
    <3>4. KnownOrMissed'
      BY DEF AgentTypeOK, Unlaunched, KnownOrMissed, Exclusive
    <3> QED
      BY <3>1, <3>2, <3>3, <3>4
  <2>10. CASE UNCHANGED superVars
    BY <2>10 DEF superVars, AgentTypeOK, Unlaunched, Exclusive, KnownOrMissed
  <2> QED
    BY <2>1, <2>2, <2>3, <2>4, <2>5, <2>6, <2>7, <2>8, <2>9, <2>10 DEF AgentNext, Host
<1> QED
  BY <1>1, <1>2, PTL DEF AgentSpec

-----------------------------------------------------------------------------
\* The host's server is one it launched, or none, and the fields of the
\* servers keep their types.
THEOREM AgentTyped == ASSUME Servings PROVE AgentSpec => []AgentTypeOK
<1>1. AgentInv => AgentTypeOK
  BY DEF AgentInv
<1> QED
  BY <1>1, AgentInductive, PTL

\* A server that was not stopped has exactly one of a process, a startup and a
\* timer; a stopped one has no timer, and at most one of the other two.
THEOREM AlwaysOneWayOn == ASSUME Servings PROVE AgentSpec => []OneWayOn
<1>1. AgentInv => OneWayOn
  <2> SUFFICES ASSUME AgentInv, NEW s \in launched
               PROVE  IF stopped[s] THEN Ways(s) <= 1 /\ ~restartTimer[s] ELSE Ways(s) = 1
    BY DEF OneWayOn
  <2>1. s \in Servers /\ AgentTypeOK /\ Exclusive
    BY DEF AgentInv, AgentTypeOK
  <2>2. /\ child[s] \in BOOLEAN /\ startup[s] \in BOOLEAN
        /\ restartTimer[s] \in BOOLEAN /\ stopped[s] \in BOOLEAN
    BY <2>1 DEF AgentTypeOK
  <2>3. Ways(s) = 0 \/ Ways(s) = 1
    BY <2>1, <2>2, WaysCounted DEF Exclusive
  <2>4. stopped[s] = FALSE => Ways(s) = 1
    BY <2>1, <2>2, WaysCounted DEF Exclusive
  <2>5. stopped[s] = TRUE => restartTimer[s] = FALSE
    BY <2>1 DEF Exclusive
  <2> QED
    BY <2>2, <2>3, <2>4, <2>5
<1> QED
  BY <1>1, AgentInductive, PTL

\* A server with a process, a startup or a timer is the host's, or one that
\* was missed in one of the three ways the history variable records.
THEOREM StraysAreMissed == ASSUME Servings PROVE AgentSpec => []NoStrayAgent
<1>1. AgentInv => NoStrayAgent
  <2> SUFFICES ASSUME AgentInv, NEW s \in launched, Ways(s) > 0
               PROVE  s = agentServer \/ s \in missed
    BY DEF NoStrayAgent
  <2>1. s \in Servers /\ AgentTypeOK /\ KnownOrMissed
    BY DEF AgentInv, AgentTypeOK
  <2>2. child[s] \in BOOLEAN /\ startup[s] \in BOOLEAN /\ restartTimer[s] \in BOOLEAN
    BY <2>1 DEF AgentTypeOK
  <2>3. child[s] = TRUE \/ startup[s] = TRUE \/ restartTimer[s] = TRUE
    <3>1. SUFFICES ASSUME child[s] = FALSE, startup[s] = FALSE, restartTimer[s] = FALSE
                   PROVE  FALSE
      BY <2>2
    <3>2. Ways(s) = 0
      BY <2>1, <3>1, WaysCounted
    <3> QED
      BY <3>2
  <2> QED
    BY <2>1, <2>3 DEF KnownOrMissed
<1> QED
  BY <1>1, AgentInductive, PTL

-----------------------------------------------------------------------------
(* The supervisor of the runtime.                                           *)

\* What the theorems assume of the constants.
Sizes == /\ Threshold \in Nat /\ MaxRestarts \in Nat /\ Grace \in Nat
         /\ Window \in Nat \ {0} /\ Moments \subseteq Nat

\* The restarts begun inside the window are the ones on record inside it: none
\* is forgotten while it counts, and none counts that was not begun.
OnRecord == /\ begun = {t \in restartAttempts : aged[t] < Window}
            /\ IsFiniteSet(begun)

\* Without the operator a restart is under way only with the flag up, it is
\* the only one, and no probe is under way then.
OneByItself == pressed = FALSE =>
    /\ \A e \in InFlight : restarting = TRUE /\ \A f \in InFlight : e = f
    /\ probe # "none" => restarting = FALSE

\* FlagMeansRestart, for each call.
FlagHasEpisode == restarting = TRUE => \E e \in Episodes : episode[e] # "idle"

WatchInv == WatchTypeOK /\ OnRecord /\ RestartsCapped /\ OneByItself /\ FlagHasEpisode

-----------------------------------------------------------------------------
(* The window: pruning finds what was begun inside it, a new restart fits    *)
(* under the cap, and time only takes restarts out of it.                    *)

LEMMA OlderTyped ==
    ASSUME Sizes, WatchTypeOK
    PROVE  /\ Older \in [Moments -> 0 .. Window]
           /\ \A t \in Moments : Older[t] < Window => aged[t] < Window
<1> SUFFICES ASSUME NEW t \in Moments
             PROVE  UpTo(aged[t] + 1, Window) \in 0 .. Window
                    /\ (UpTo(aged[t] + 1, Window) < Window => aged[t] < Window)
  BY DEF Older
<1>1. aged[t] \in 0 .. Window
  BY DEF WatchTypeOK
<1> QED
  BY <1>1 DEF UpTo, Sizes

LEMMA TickKeepsCap ==
    ASSUME Sizes, WatchInv, Tick
    PROVE  OnRecord' /\ RestartsCapped'
<1> USE DEF WatchInv, Tick, OnRecord
<1>1. begun' \subseteq begun
  OBVIOUS
<1>2. IsFiniteSet(begun') /\ Cardinality(begun') <= Cardinality(begun)
  BY <1>1, FS_Subset
<1>3. Cardinality(begun) \in Nat /\ Cardinality(begun') \in Nat
  BY <1>2, FS_CardinalityType
<1>4. begun' = {t \in restartAttempts : Older[t] < Window}
  BY OlderTyped DEF WatchTypeOK
<1> QED
  BY <1>2, <1>3, <1>4 DEF RestartsCapped, Sizes

LEMMA MaybeRestartKeepsCap ==
    ASSUME Sizes, WatchInv, NEW e, MaybeRestart(e)
    PROVE  /\ OnRecord' /\ RestartsCapped'
           /\ restartAttempts' \subseteq Moments /\ begun' \subseteq Moments
           /\ aged' \in [Moments -> 0 .. Window]
<1> USE DEF WatchInv, OnRecord, WatchTypeOK
<1>p. Prune = begun /\ Cardinality(begun) \in Nat /\ Cardinality(begun) <= MaxRestarts
  BY FS_CardinalityType DEF Prune, RestartsCapped
<1>1. CASE AtCap /\ restartAttempts' = Prune /\ UNCHANGED <<restarting, aged, begun, episode>>
  BY <1>1, <1>p DEF RestartsCapped
<1>2. CASE ~AtCap /\ BeginRestart(e)
  <2>1. PICK t \in Moments : /\ t \notin begun /\ begun' = begun \cup {t}
                              /\ aged' = [aged EXCEPT ![t] = 0]
                              /\ restartAttempts' = begun \cup {t}
    BY <1>2, <1>p DEF BeginRestart, UnusedMoment
  <2>2. IsFiniteSet(begun') /\ Cardinality(begun') = Cardinality(begun) + 1
    BY <2>1, FS_AddElement
  <2>3. Cardinality(begun) < MaxRestarts
    BY <1>2, <1>p DEF AtCap, Sizes
  <2>4. 0 \in 0 .. Window /\ 0 < Window
    BY DEF Sizes
  <2>5. aged' \in [Moments -> 0 .. Window] /\ aged'[t] = 0
    BY <2>1, <2>4
  <2>6. \A x \in begun : aged[x] < Window /\ aged'[x] = aged[x]
    BY <2>1
  <2>7. begun' = {x \in restartAttempts' : aged'[x] < Window}
    BY <2>1, <2>4, <2>5, <2>6
  <2> QED
    BY <2>1, <2>2, <2>3, <2>5, <2>7, <1>p DEF RestartsCapped, Sizes
<1> QED
  BY <1>1, <1>2 DEF MaybeRestart

-----------------------------------------------------------------------------
LEMMA WatchInductive == ASSUME Sizes PROVE WatchSpec => []WatchInv
<1>1. WatchInit => WatchInv
  <2> SUFFICES ASSUME WatchInit PROVE WatchInv
    OBVIOUS
  <2> USE DEF WatchInit
  <2>1. WatchTypeOK
    <3>1. 0 \in 0 .. Threshold /\ 0 \in 0 .. Grace /\ Window \in 0 .. Window
      BY DEF Sizes
    <3> QED
      BY <3>1 DEF WatchTypeOK
  <2>2. begun = {} /\ IsFiniteSet(begun) /\ Cardinality(begun) = 0
    BY FS_EmptySet
  <2>3. OnRecord /\ RestartsCapped
    BY <2>2 DEF OnRecord, RestartsCapped, Sizes
  <2>4. OneByItself /\ FlagHasEpisode
    BY DEF OneByItself, FlagHasEpisode, InFlight
  <2> QED
    BY <2>1, <2>3, <2>4 DEF WatchInv
<1>2. WatchInv /\ [WatchNext]_watchVars => WatchInv'
  <2> SUFFICES ASSUME WatchInv, [WatchNext]_watchVars PROVE WatchInv'
    OBVIOUS
  <2> USE DEF WatchInv
  <2>1. CASE External
    <3> USE <2>1 DEF External, Boots, RuntimeDies, Hangs
    <3>1. WatchTypeOK'
      <4>1. failures' \in 0 .. Threshold
        BY DEF WatchTypeOK, Sizes
      <4> QED
        BY <4>1 DEF WatchTypeOK
    <3>2. OnRecord' /\ RestartsCapped'
      BY DEF OnRecord, RestartsCapped
    <3>3. OneByItself'
      BY DEF WatchTypeOK, OneByItself, InFlight
    <3>4. FlagHasEpisode'
      BY DEF WatchTypeOK, FlagHasEpisode
    <3> QED
      BY <3>1, <3>2, <3>3, <3>4
  <2>2. CASE Tick
    <3> USE <2>2 DEF Tick
    <3>1. WatchTypeOK'
      <4>1. age' \in 0 .. Grace
        BY DEF WatchTypeOK, UpTo, Sizes
      <4>2. begun' \subseteq Moments
        BY DEF WatchTypeOK
      <4> QED
        BY <4>1, <4>2, OlderTyped DEF WatchTypeOK
    <3>2. OnRecord' /\ RestartsCapped'
      BY TickKeepsCap
    <3>3. OneByItself'
      BY DEF WatchTypeOK, OneByItself, InFlight
    <3>4. FlagHasEpisode'
      BY DEF WatchTypeOK, FlagHasEpisode
    <3> QED
      BY <3>1, <3>2, <3>3, <3>4
  <2>3. CASE \E e \in Episodes : Kill(e)
    <3> SUFFICES ASSUME NEW e \in Episodes, Kill(e) PROVE WatchInv'
      BY <2>3
    <3> USE DEF Kill
    <3>1. WatchTypeOK'
      <4>1. failures' \in 0 .. Threshold
        BY DEF WatchTypeOK, Sizes
      <4> QED
        BY <4>1 DEF WatchTypeOK
    <3>2. OnRecord' /\ RestartsCapped'
      BY DEF OnRecord, RestartsCapped
    <3>3. OneByItself'
      BY DEF WatchTypeOK, OneByItself, InFlight
    <3>4. FlagHasEpisode'
      BY DEF WatchTypeOK, FlagHasEpisode
    <3> QED
      BY <3>1, <3>2, <3>3, <3>4
  <2>4. CASE \E e \in Episodes : SpawnRuntime(e)
    <3> SUFFICES ASSUME NEW e \in Episodes, SpawnRuntime(e) PROVE WatchInv'
      BY <2>4
    <3> USE DEF SpawnRuntime, End
    <3>1. WatchTypeOK'
      <4>1. failures' \in 0 .. Threshold
        BY DEF WatchTypeOK, Sizes
      <4> QED
        BY <4>1 DEF WatchTypeOK
    <3>2. OnRecord' /\ RestartsCapped'
      BY DEF OnRecord, RestartsCapped
    <3>3. OneByItself'
      BY DEF WatchTypeOK, OneByItself, InFlight
    <3>4. FlagHasEpisode'
      BY DEF WatchTypeOK, FlagHasEpisode
    <3> QED
      BY <3>1, <3>2, <3>3, <3>4
  <2>5. CASE \E e \in Episodes : Healthy(e)
    <3> SUFFICES ASSUME NEW e \in Episodes, Healthy(e) PROVE WatchInv'
      BY <2>5
    <3> USE DEF Healthy
    <3>1. WatchTypeOK'
      <4>1. failures' \in 0 .. Threshold
        BY DEF WatchTypeOK, Sizes
      <4> QED
        BY <4>1 DEF WatchTypeOK
    <3>2. OnRecord' /\ RestartsCapped'
      BY DEF OnRecord, RestartsCapped
    <3>3. OneByItself'
      BY DEF WatchTypeOK, OneByItself, InFlight
    <3>4. FlagHasEpisode'
      BY DEF WatchTypeOK, FlagHasEpisode
    <3> QED
      BY <3>1, <3>2, <3>3, <3>4
  <2>6. CASE \E e \in Episodes : Deadline(e)
    <3> SUFFICES ASSUME NEW e \in Episodes, Deadline(e) PROVE WatchInv'
      BY <2>6
    <3> USE DEF Deadline, End
    <3>1. WatchTypeOK'
      <4>1. failures' \in 0 .. Threshold
        BY DEF WatchTypeOK, Sizes
      <4> QED
        BY <4>1 DEF WatchTypeOK
    <3>2. OnRecord' /\ RestartsCapped'
      BY DEF OnRecord, RestartsCapped
    <3>3. OneByItself'
      BY DEF WatchTypeOK, OneByItself, InFlight
    <3>4. FlagHasEpisode'
      BY DEF WatchTypeOK, FlagHasEpisode
    <3> QED
      BY <3>1, <3>2, <3>3, <3>4
  <2>7. CASE \E e \in Episodes : EnsureModel(e)
    <3> SUFFICES ASSUME NEW e \in Episodes, EnsureModel(e) PROVE WatchInv'
      BY <2>7
    <3> USE DEF EnsureModel, End
    <3>1. WatchTypeOK'
      <4>1. failures' \in 0 .. Threshold
        BY DEF WatchTypeOK, Sizes
      <4> QED
        BY <4>1 DEF WatchTypeOK
    <3>2. OnRecord' /\ RestartsCapped'
      BY DEF OnRecord, RestartsCapped
    <3>3. OneByItself'
      BY DEF WatchTypeOK, OneByItself, InFlight
    <3>4. FlagHasEpisode'
      BY DEF WatchTypeOK, FlagHasEpisode
    <3> QED
      BY <3>1, <3>2, <3>3, <3>4
  <2>8. CASE \E e \in Episodes : ByHand(e)
    <3> SUFFICES ASSUME NEW e \in Episodes, ByHand(e) PROVE WatchInv'
      BY <2>8
    <3> USE DEF ByHand
    <3>c. /\ OnRecord' /\ RestartsCapped'
          /\ restartAttempts' \subseteq Moments /\ begun' \subseteq Moments
          /\ aged' \in [Moments -> 0 .. Window]
      BY MaybeRestartKeepsCap
    <3>1. WatchTypeOK'
      <4>1. restarting' \in BOOLEAN /\ episode' \in [Episodes -> {"idle", "kill", "sleep", "wait", "model"}]
        BY DEF WatchTypeOK, MaybeRestart, BeginRestart
      <4> QED
        BY <3>c, <4>1 DEF WatchTypeOK
    <3>2. OneByItself'
      BY DEF WatchTypeOK, OneByItself, InFlight, MaybeRestart, BeginRestart
    <3>3. FlagHasEpisode'
      BY DEF WatchTypeOK, FlagHasEpisode, MaybeRestart, BeginRestart
    <3> QED
      BY <3>c, <3>1, <3>2, <3>3
  <2>9. CASE PollTick
    <3> USE <2>9 DEF PollTick
    <3>1. WatchTypeOK'
      <4>1. failures' \in 0 .. Threshold
        BY DEF WatchTypeOK, Sizes
      <4> QED
        BY <4>1 DEF WatchTypeOK
    <3>2. OnRecord' /\ RestartsCapped'
      BY DEF OnRecord, RestartsCapped
    <3>3. OneByItself'
      BY DEF WatchTypeOK, OneByItself, InFlight
    <3>4. FlagHasEpisode'
      BY DEF WatchTypeOK, FlagHasEpisode
    <3> QED
      BY <3>1, <3>2, <3>3, <3>4
  <2>10. CASE ProbeEnds
    <3> USE <2>10 DEF ProbeEnds
    <3>1. WatchTypeOK'
      <4>1. failures' \in 0 .. Threshold
        BY DEF WatchTypeOK, Sizes
      <4> QED
        BY <4>1 DEF WatchTypeOK
    <3>2. OnRecord' /\ RestartsCapped'
      BY DEF OnRecord, RestartsCapped
    <3>3. OneByItself'
      BY DEF WatchTypeOK, OneByItself, InFlight
    <3>4. FlagHasEpisode'
      BY DEF WatchTypeOK, FlagHasEpisode
    <3> QED
      BY <3>1, <3>2, <3>3, <3>4
  <2>11. CASE GoodProbe
    <3> USE <2>11 DEF GoodProbe
    <3>1. WatchTypeOK'
      <4>1. failures' \in 0 .. Threshold
        BY DEF WatchTypeOK, Sizes
      <4> QED
        BY <4>1 DEF WatchTypeOK
    <3>2. OnRecord' /\ RestartsCapped'
      BY DEF OnRecord, RestartsCapped
    <3>3. OneByItself'
      BY DEF WatchTypeOK, OneByItself, InFlight
    <3>4. FlagHasEpisode'
      BY DEF WatchTypeOK, FlagHasEpisode
    <3> QED
      BY <3>1, <3>2, <3>3, <3>4
  <2>12. CASE \E e \in Episodes : Bad(e)
    <3> SUFFICES ASSUME NEW e \in Episodes, Bad(e) PROVE WatchInv'
      BY <2>12
    <3> USE DEF Bad
    <3>r. MaybeRestart(e) \/ UNCHANGED <<restarting, restartAttempts, aged, begun, episode>>
      OBVIOUS
    <3>f. failures' \in 0 .. Threshold
      BY DEF WatchTypeOK, UpTo, Sizes
    <3>c. /\ OnRecord' /\ RestartsCapped'
          /\ restartAttempts' \subseteq Moments /\ begun' \subseteq Moments
          /\ aged' \in [Moments -> 0 .. Window]
      <4>1. CASE MaybeRestart(e)
        BY <4>1, MaybeRestartKeepsCap
      <4>2. CASE UNCHANGED <<restarting, restartAttempts, aged, begun, episode>>
        BY <4>2 DEF WatchTypeOK, OnRecord, RestartsCapped
      <4> QED
        BY <3>r, <4>1, <4>2
    <3>1. WatchTypeOK'
      <4>1. restarting' \in BOOLEAN /\ episode' \in [Episodes -> {"idle", "kill", "sleep", "wait", "model"}]
        BY <3>r DEF WatchTypeOK, MaybeRestart, BeginRestart
      <4> QED
        BY <3>c, <4>1, <3>f DEF WatchTypeOK
    <3>2. OneByItself'
      BY <3>r DEF WatchTypeOK, OneByItself, InFlight, MaybeRestart, BeginRestart
    <3>3. FlagHasEpisode'
      BY <3>r DEF WatchTypeOK, FlagHasEpisode, MaybeRestart, BeginRestart
    <3> QED
      BY <3>c, <3>1, <3>2, <3>3
  <2>13. CASE UNCHANGED watchVars
    BY <2>13 DEF watchVars, WatchTypeOK, OnRecord, RestartsCapped, OneByItself, FlagHasEpisode, InFlight
  <2> QED
    BY <2>1, <2>2, <2>3, <2>4, <2>5, <2>6, <2>7, <2>8, <2>9, <2>10, <2>11, <2>12, <2>13 DEF WatchNext, Watch, EpisodeStep
<1> QED
  BY <1>1, <1>2, PTL DEF WatchSpec

-----------------------------------------------------------------------------
\* Of restarts that are all the same one there is at most one.
LEMMA OneIsNoOverlap ==
    ASSUME OneByItself, WatchTypeOK
    PROVE  OverlapOnlyByHand
<1> SUFFICES ASSUME pressed = FALSE PROVE ~(Cardinality(InFlight) > 1)
  BY DEF OverlapOnlyByHand, WatchTypeOK
<1>1. CASE InFlight = {}
  BY <1>1, FS_EmptySet
<1>2. CASE InFlight # {}
  <2>1. PICK e \in InFlight : InFlight = {e}
    BY <1>2 DEF OneByItself
  <2>2. Cardinality({e}) = 1
    BY FS_Singleton
  <2>3. Cardinality(InFlight) = 1
    BY <2>1, <2>2
  <2> QED
    BY <2>3
<1> QED
  BY <1>1, <1>2

\* The counters of the supervisor stay within their limits, and the flags,
\* moments and episodes keep their types.
THEOREM WatchTyped == ASSUME Sizes PROVE WatchSpec => []WatchTypeOK
<1>1. WatchInv => WatchTypeOK
  BY DEF WatchInv
<1> QED
  BY <1>1, WatchInductive, PTL

\* At most maxRestarts restarts are begun within any window, whoever asks for
\* them and whatever they do: the attempt is on record before the first await.
THEOREM CapHolds == ASSUME Sizes PROVE WatchSpec => []RestartsCapped
<1>1. WatchInv => RestartsCapped
  BY DEF WatchInv
<1> QED
  BY <1>1, WatchInductive, PTL

\* The flag keeps the watch from probing only while a restart is under way, and
\* without the operator no two of them are under way at once.
THEOREM RestartsAreOrderly == ASSUME Sizes PROVE WatchSpec => []RestartsOrderly
<1>1. WatchInv => FlagMeansRestart
  BY DEF WatchInv, FlagHasEpisode, FlagMeansRestart, InFlight
<1>2. WatchInv => OverlapOnlyByHand
  BY OneIsNoOverlap DEF WatchInv
<1>3. WatchInv => RestartsOrderly
  BY <1>1, <1>2 DEF RestartsOrderly
<1> QED
  BY <1>3, WatchInductive, PTL

-----------------------------------------------------------------------------
(* The loads of the model; 0 is the name of no loader (Drop takes it for a  *)
(* request).                                                                *)

\* A loader gives up its lock twice only when it was re-downloaded.
NestedRedone == nested \subseteq redone

\* Before any second release, a loader that is active has the lock to itself.
AloneWithLock == ReleasesTwice = {} =>
    \A i, j \in Jobs : i \in Active /\ j \in Active => i = j /\ lock = TRUE

\* A load that its watchdog would leave has lost "loading" to another thread,
\* and there is a watchdog only during the weights.
FlagOrBlind == \A j \in Jobs :
    /\ j \in Loads => loading = TRUE \/ j \in blind
    /\ watchdog[j] # "off" => job[j] = "weights"

\* A stream behind its guard has a model, or it was taken away.
PassedOrHidden == \A c \in Callers :
    caller[c] = "passed" => (loaded = TRUE /\ model = TRUE) \/ c \in hidden

LoadInv == /\ LoadTypeOK /\ NestedRedone /\ AloneWithLock /\ FlagOrBlind /\ WatchedWhileLoading
        /\ PassedOrHidden /\ MockOnlyWhenHidden

-----------------------------------------------------------------------------
LEMMA LoadInductive ==
    ASSUME 0 \notin Jobs
    PROVE  LoadSpec => []LoadInv
<1>1. LoadInit => LoadInv
  BY DEF LoadInit, LoadInv, LoadTypeOK, NestedRedone, AloneWithLock, ReleasesTwice, FlagOrBlind, PassedOrHidden,
         WatchedWhileLoading, MockOnlyWhenHidden, Active, Loads
<1>2. LoadInv /\ [LoadNext]_loadVars => LoadInv'
  <2> SUFFICES ASSUME LoadInv, [LoadNext]_loadVars PROVE LoadInv'
    OBVIOUS
  <2> USE DEF LoadInv, stateVars
  <2>1. CASE \E c \in Callers : Refuse(c)
    <3> SUFFICES ASSUME NEW c \in Callers, Refuse(c) PROVE LoadInv'
      BY <2>1
    <3> USE DEF Refuse, Drop, Hide, Loads
    <3>1. LoadTypeOK'
      <4>1. {lock', current', loading', loaded', model'} \subseteq BOOLEAN
        BY DEF LoadTypeOK
      <4>2. {nested', blind', redone'} \subseteq SUBSET Jobs /\ {hidden', mocked'} \subseteq SUBSET Callers
        BY DEF LoadTypeOK, Loads
      <4> QED
        BY <4>1, <4>2 DEF LoadTypeOK
    <3>2. NestedRedone'
      BY DEF NestedRedone
    <3>3. AloneWithLock'
      BY DEF LoadTypeOK, NestedRedone, AloneWithLock, ReleasesTwice, Active
    <3>4. FlagOrBlind'
      BY DEF LoadTypeOK, FlagOrBlind, Loads
    <3>5. WatchedWhileLoading'
      BY DEF LoadTypeOK, FlagOrBlind, WatchedWhileLoading, Loads
    <3>6. PassedOrHidden'
      BY DEF LoadTypeOK, PassedOrHidden
    <3>7. MockOnlyWhenHidden'
      BY DEF LoadTypeOK, PassedOrHidden, MockOnlyWhenHidden
    <3> QED
      BY <3>1, <3>2, <3>3, <3>4, <3>5, <3>6, <3>7
  <2>2. CASE \E c \in Callers : Clear(c)
    <3> SUFFICES ASSUME NEW c \in Callers, Clear(c) PROVE LoadInv'
      BY <2>2
    <3> USE DEF Clear, Hide
    <3>1. LoadTypeOK'
      <4>1. {lock', current', loading', loaded', model'} \subseteq BOOLEAN
        BY DEF LoadTypeOK
      <4>2. {nested', blind', redone'} \subseteq SUBSET Jobs /\ {hidden', mocked'} \subseteq SUBSET Callers
        BY DEF LoadTypeOK, Loads
      <4> QED
        BY <4>1, <4>2 DEF LoadTypeOK
    <3>2. NestedRedone'
      BY DEF NestedRedone
    <3>3. AloneWithLock'
      BY DEF LoadTypeOK, NestedRedone, AloneWithLock, ReleasesTwice, Active
    <3>4. FlagOrBlind'
      BY DEF LoadTypeOK, FlagOrBlind, Loads
    <3>5. WatchedWhileLoading'
      BY DEF LoadTypeOK, FlagOrBlind, WatchedWhileLoading, Loads
    <3>6. PassedOrHidden'
      BY DEF LoadTypeOK, PassedOrHidden
    <3>7. MockOnlyWhenHidden'
      BY DEF LoadTypeOK, PassedOrHidden, MockOnlyWhenHidden
    <3> QED
      BY <3>1, <3>2, <3>3, <3>4, <3>5, <3>6, <3>7
  <2>3. CASE \E c \in Callers : StartLoad(c)
    <3> SUFFICES ASSUME NEW c \in Callers, StartLoad(c) PROVE LoadInv'
      BY <2>3
    <3> USE DEF StartLoad, Acquire
    <3>1. LoadTypeOK'
      <4>1. {lock', current', loading', loaded', model'} \subseteq BOOLEAN
        BY DEF LoadTypeOK
      <4>2. {nested', blind', redone'} \subseteq SUBSET Jobs /\ {hidden', mocked'} \subseteq SUBSET Callers
        BY DEF LoadTypeOK, Loads
      <4> QED
        BY <4>1, <4>2 DEF LoadTypeOK
    <3>2. NestedRedone'
      BY DEF NestedRedone
    <3>3. AloneWithLock'
      BY DEF LoadTypeOK, NestedRedone, AloneWithLock, ReleasesTwice, Active
    <3>4. FlagOrBlind'
      BY DEF LoadTypeOK, FlagOrBlind, Loads
    <3>5. WatchedWhileLoading'
      BY DEF LoadTypeOK, FlagOrBlind, WatchedWhileLoading, Loads
    <3>6. PassedOrHidden'
      BY DEF LoadTypeOK, PassedOrHidden
    <3>7. MockOnlyWhenHidden'
      BY DEF LoadTypeOK, PassedOrHidden, MockOnlyWhenHidden
    <3> QED
      BY <3>1, <3>2, <3>3, <3>4, <3>5, <3>6, <3>7
  <2>4. CASE \E c \in Callers : Busy(c)
    <3> SUFFICES ASSUME NEW c \in Callers, Busy(c) PROVE LoadInv'
      BY <2>4
    <3> USE DEF Busy
    <3>1. LoadTypeOK'
      <4>1. {lock', current', loading', loaded', model'} \subseteq BOOLEAN
        BY DEF LoadTypeOK
      <4>2. {nested', blind', redone'} \subseteq SUBSET Jobs /\ {hidden', mocked'} \subseteq SUBSET Callers
        BY DEF LoadTypeOK, Loads
      <4> QED
        BY <4>1, <4>2 DEF LoadTypeOK
    <3>2. NestedRedone'
      BY DEF NestedRedone
    <3>3. AloneWithLock'
      BY DEF LoadTypeOK, NestedRedone, AloneWithLock, ReleasesTwice, Active
    <3>4. FlagOrBlind'
      BY DEF LoadTypeOK, FlagOrBlind, Loads
    <3>5. WatchedWhileLoading'
      BY DEF LoadTypeOK, FlagOrBlind, WatchedWhileLoading, Loads
    <3>6. PassedOrHidden'
      BY DEF LoadTypeOK, PassedOrHidden
    <3>7. MockOnlyWhenHidden'
      BY DEF LoadTypeOK, PassedOrHidden, MockOnlyWhenHidden
    <3> QED
      BY <3>1, <3>2, <3>3, <3>4, <3>5, <3>6, <3>7
  <2>5. CASE \E c \in Callers : StreamPasses(c)
    <3> SUFFICES ASSUME NEW c \in Callers, StreamPasses(c) PROVE LoadInv'
      BY <2>5
    <3> USE DEF StreamPasses
    <3>1. LoadTypeOK'
      <4>1. {lock', current', loading', loaded', model'} \subseteq BOOLEAN
        BY DEF LoadTypeOK
      <4>2. {nested', blind', redone'} \subseteq SUBSET Jobs /\ {hidden', mocked'} \subseteq SUBSET Callers
        BY DEF LoadTypeOK, Loads
      <4> QED
        BY <4>1, <4>2 DEF LoadTypeOK
    <3>2. NestedRedone'
      BY DEF NestedRedone
    <3>3. AloneWithLock'
      BY DEF LoadTypeOK, NestedRedone, AloneWithLock, ReleasesTwice, Active
    <3>4. FlagOrBlind'
      BY DEF LoadTypeOK, FlagOrBlind, Loads
    <3>5. WatchedWhileLoading'
      BY DEF LoadTypeOK, FlagOrBlind, WatchedWhileLoading, Loads
    <3>6. PassedOrHidden'
      BY DEF LoadTypeOK, PassedOrHidden
    <3>7. MockOnlyWhenHidden'
      BY DEF LoadTypeOK, PassedOrHidden, MockOnlyWhenHidden
    <3> QED
      BY <3>1, <3>2, <3>3, <3>4, <3>5, <3>6, <3>7
  <2>6. CASE \E c \in Callers : StreamRuns(c)
    <3> SUFFICES ASSUME NEW c \in Callers, StreamRuns(c) PROVE LoadInv'
      BY <2>6
    <3> USE DEF StreamRuns
    <3>1. LoadTypeOK'
      <4>1. {lock', current', loading', loaded', model'} \subseteq BOOLEAN
        BY DEF LoadTypeOK
      <4>2. {nested', blind', redone'} \subseteq SUBSET Jobs /\ {hidden', mocked'} \subseteq SUBSET Callers
        BY DEF LoadTypeOK, Loads
      <4> QED
        BY <4>1, <4>2 DEF LoadTypeOK
    <3>2. NestedRedone'
      BY DEF NestedRedone
    <3>3. AloneWithLock'
      BY DEF LoadTypeOK, NestedRedone, AloneWithLock, ReleasesTwice, Active
    <3>4. FlagOrBlind'
      BY DEF LoadTypeOK, FlagOrBlind, Loads
    <3>5. WatchedWhileLoading'
      BY DEF LoadTypeOK, FlagOrBlind, WatchedWhileLoading, Loads
    <3>6. PassedOrHidden'
      BY DEF LoadTypeOK, PassedOrHidden
    <3>7. MockOnlyWhenHidden'
      BY DEF LoadTypeOK, PassedOrHidden, MockOnlyWhenHidden
    <3> QED
      BY <3>1, <3>2, <3>3, <3>4, <3>5, <3>6, <3>7
  <2>7. CASE \E j \in Jobs : Startup(j)
    <3> SUFFICES ASSUME NEW j \in Jobs, Startup(j) PROVE LoadInv'
      BY <2>7
    <3> USE DEF Startup, Acquire
    <3>1. LoadTypeOK'
      <4>1. {lock', current', loading', loaded', model'} \subseteq BOOLEAN
        BY DEF LoadTypeOK
      <4>2. {nested', blind', redone'} \subseteq SUBSET Jobs /\ {hidden', mocked'} \subseteq SUBSET Callers
        BY DEF LoadTypeOK, Loads
      <4> QED
        BY <4>1, <4>2 DEF LoadTypeOK
    <3>2. NestedRedone'
      BY DEF NestedRedone
    <3>3. AloneWithLock'
      BY DEF LoadTypeOK, NestedRedone, AloneWithLock, ReleasesTwice, Active
    <3>4. FlagOrBlind'
      BY DEF LoadTypeOK, FlagOrBlind, Loads
    <3>5. WatchedWhileLoading'
      BY DEF LoadTypeOK, FlagOrBlind, WatchedWhileLoading, Loads
    <3>6. PassedOrHidden'
      BY DEF LoadTypeOK, PassedOrHidden
    <3>7. MockOnlyWhenHidden'
      BY DEF LoadTypeOK, PassedOrHidden, MockOnlyWhenHidden
    <3> QED
      BY <3>1, <3>2, <3>3, <3>4, <3>5, <3>6, <3>7
  <2>8. CASE \E j \in Jobs : BeginLoad(j)
    <3> SUFFICES ASSUME NEW j \in Jobs, BeginLoad(j) PROVE LoadInv'
      BY <2>8
    <3> USE DEF BeginLoad, Goto
    <3>1. LoadTypeOK'
      <4>1. {lock', current', loading', loaded', model'} \subseteq BOOLEAN
        BY DEF LoadTypeOK
      <4>2. {nested', blind', redone'} \subseteq SUBSET Jobs /\ {hidden', mocked'} \subseteq SUBSET Callers
        BY DEF LoadTypeOK, Loads
      <4> QED
        BY <4>1, <4>2 DEF LoadTypeOK
    <3>2. NestedRedone'
      BY DEF NestedRedone
    <3>3. AloneWithLock'
      BY DEF LoadTypeOK, NestedRedone, AloneWithLock, ReleasesTwice, Active
    <3>4. FlagOrBlind'
      BY DEF LoadTypeOK, FlagOrBlind, Loads
    <3>5. WatchedWhileLoading'
      BY DEF LoadTypeOK, FlagOrBlind, WatchedWhileLoading, Loads
    <3>6. PassedOrHidden'
      BY DEF LoadTypeOK, PassedOrHidden
    <3>7. MockOnlyWhenHidden'
      BY DEF LoadTypeOK, PassedOrHidden, MockOnlyWhenHidden
    <3> QED
      BY <3>1, <3>2, <3>3, <3>4, <3>5, <3>6, <3>7
  <2>9. CASE \E j \in Jobs : Gate(j)
    <3> SUFFICES ASSUME NEW j \in Jobs, Gate(j) PROVE LoadInv'
      BY <2>9
    <3> USE DEF Gate, Drop, Hide, Goto
    <3>1. LoadTypeOK'
      <4>1. {lock', current', loading', loaded', model'} \subseteq BOOLEAN
        BY DEF LoadTypeOK
      <4>2. {nested', blind', redone'} \subseteq SUBSET Jobs /\ {hidden', mocked'} \subseteq SUBSET Callers
        BY DEF LoadTypeOK, Loads
      <4> QED
        BY <4>1, <4>2 DEF LoadTypeOK
    <3>2. NestedRedone'
      BY DEF NestedRedone
    <3>3. AloneWithLock'
      BY DEF LoadTypeOK, NestedRedone, AloneWithLock, ReleasesTwice, Active
    <3>4. FlagOrBlind'
      BY DEF LoadTypeOK, FlagOrBlind, Loads
    <3>5. WatchedWhileLoading'
      BY DEF LoadTypeOK, FlagOrBlind, WatchedWhileLoading, Loads
    <3>6. PassedOrHidden'
      BY DEF LoadTypeOK, PassedOrHidden
    <3>7. MockOnlyWhenHidden'
      BY DEF LoadTypeOK, PassedOrHidden, MockOnlyWhenHidden
    <3> QED
      BY <3>1, <3>2, <3>3, <3>4, <3>5, <3>6, <3>7
  <2>10. CASE \E j \in Jobs : Weights(j)
    <3> SUFFICES ASSUME NEW j \in Jobs, Weights(j) PROVE LoadInv'
      BY <2>10
    <3> USE DEF Weights, Disarm, Goto
    <3>1. LoadTypeOK'
      <4>1. {lock', current', loading', loaded', model'} \subseteq BOOLEAN
        BY DEF LoadTypeOK
      <4>2. {nested', blind', redone'} \subseteq SUBSET Jobs /\ {hidden', mocked'} \subseteq SUBSET Callers
        BY DEF LoadTypeOK, Loads
      <4> QED
        BY <4>1, <4>2 DEF LoadTypeOK
    <3>2. NestedRedone'
      BY DEF NestedRedone
    <3>3. AloneWithLock'
      BY DEF LoadTypeOK, NestedRedone, AloneWithLock, ReleasesTwice, Active
    <3>4. FlagOrBlind'
      BY DEF LoadTypeOK, FlagOrBlind, Loads
    <3>5. WatchedWhileLoading'
      BY DEF LoadTypeOK, FlagOrBlind, WatchedWhileLoading, Loads
    <3>6. PassedOrHidden'
      BY DEF LoadTypeOK, PassedOrHidden
    <3>7. MockOnlyWhenHidden'
      BY DEF LoadTypeOK, PassedOrHidden, MockOnlyWhenHidden
    <3> QED
      BY <3>1, <3>2, <3>3, <3>4, <3>5, <3>6, <3>7
  <2>11. CASE \E j \in Jobs : Announce(j)
    <3> SUFFICES ASSUME NEW j \in Jobs, Announce(j) PROVE LoadInv'
      BY <2>11
    <3> USE DEF Announce, Drop, Goto
    <3>1. LoadTypeOK'
      <4>1. {lock', current', loading', loaded', model'} \subseteq BOOLEAN
        BY DEF LoadTypeOK
      <4>2. {nested', blind', redone'} \subseteq SUBSET Jobs /\ {hidden', mocked'} \subseteq SUBSET Callers
        BY DEF LoadTypeOK, Loads
      <4> QED
        BY <4>1, <4>2 DEF LoadTypeOK
    <3>2. NestedRedone'
      BY DEF NestedRedone
    <3>3. AloneWithLock'
      BY DEF LoadTypeOK, NestedRedone, AloneWithLock, ReleasesTwice, Active
    <3>4. FlagOrBlind'
      BY DEF LoadTypeOK, FlagOrBlind, Loads
    <3>5. WatchedWhileLoading'
      BY DEF LoadTypeOK, FlagOrBlind, WatchedWhileLoading, Loads
    <3>6. PassedOrHidden'
      BY DEF LoadTypeOK, PassedOrHidden
    <3>7. MockOnlyWhenHidden'
      BY DEF LoadTypeOK, PassedOrHidden, MockOnlyWhenHidden
    <3> QED
      BY <3>1, <3>2, <3>3, <3>4, <3>5, <3>6, <3>7
  <2>12. CASE \E j \in Jobs : Tripped(j)
    <3> SUFFICES ASSUME NEW j \in Jobs, Tripped(j) PROVE LoadInv'
      BY <2>12
    <3> USE DEF Tripped, Drop, Disarm, Hide, Goto
    <3>1. LoadTypeOK'
      <4>1. {lock', current', loading', loaded', model'} \subseteq BOOLEAN
        BY DEF LoadTypeOK
      <4>2. {nested', blind', redone'} \subseteq SUBSET Jobs /\ {hidden', mocked'} \subseteq SUBSET Callers
        BY DEF LoadTypeOK, Loads
      <4> QED
        BY <4>1, <4>2 DEF LoadTypeOK
    <3>2. NestedRedone'
      BY DEF NestedRedone
    <3>3. AloneWithLock'
      BY DEF LoadTypeOK, NestedRedone, AloneWithLock, ReleasesTwice, Active
    <3>4. FlagOrBlind'
      BY DEF LoadTypeOK, FlagOrBlind, Loads
    <3>5. WatchedWhileLoading'
      BY DEF LoadTypeOK, FlagOrBlind, WatchedWhileLoading, Loads
    <3>6. PassedOrHidden'
      BY DEF LoadTypeOK, PassedOrHidden
    <3>7. MockOnlyWhenHidden'
      BY DEF LoadTypeOK, PassedOrHidden, MockOnlyWhenHidden
    <3> QED
      BY <3>1, <3>2, <3>3, <3>4, <3>5, <3>6, <3>7
  <2>13. CASE \E j \in Jobs : WeightsFail(j)
    <3> SUFFICES ASSUME NEW j \in Jobs, WeightsFail(j) PROVE LoadInv'
      BY <2>13
    <3> USE DEF WeightsFail, Drop, Disarm, Goto
    <3>1. LoadTypeOK'
      <4>1. {lock', current', loading', loaded', model'} \subseteq BOOLEAN
        BY DEF LoadTypeOK
      <4>2. {nested', blind', redone'} \subseteq SUBSET Jobs /\ {hidden', mocked'} \subseteq SUBSET Callers
        BY DEF LoadTypeOK, Loads
      <4> QED
        BY <4>1, <4>2 DEF LoadTypeOK
    <3>2. NestedRedone'
      BY DEF NestedRedone
    <3>3. AloneWithLock'
      BY DEF LoadTypeOK, NestedRedone, AloneWithLock, ReleasesTwice, Active
    <3>4. FlagOrBlind'
      BY DEF LoadTypeOK, FlagOrBlind, Loads
    <3>5. WatchedWhileLoading'
      BY DEF LoadTypeOK, FlagOrBlind, WatchedWhileLoading, Loads
    <3>6. PassedOrHidden'
      BY DEF LoadTypeOK, PassedOrHidden
    <3>7. MockOnlyWhenHidden'
      BY DEF LoadTypeOK, PassedOrHidden, MockOnlyWhenHidden
    <3> QED
      BY <3>1, <3>2, <3>3, <3>4, <3>5, <3>6, <3>7
  <2>14. CASE \E j \in Jobs : Redownload(j)
    <3> SUFFICES ASSUME NEW j \in Jobs, Redownload(j) PROVE LoadInv'
      BY <2>14
    <3> USE DEF Redownload, Drop, Goto
    <3>1. LoadTypeOK'
      <4>1. {lock', current', loading', loaded', model'} \subseteq BOOLEAN
        BY DEF LoadTypeOK
      <4>2. {nested', blind', redone'} \subseteq SUBSET Jobs /\ {hidden', mocked'} \subseteq SUBSET Callers
        BY DEF LoadTypeOK, Loads
      <4> QED
        BY <4>1, <4>2 DEF LoadTypeOK
    <3>2. NestedRedone'
      BY DEF NestedRedone
    <3>3. AloneWithLock'
      BY DEF LoadTypeOK, NestedRedone, AloneWithLock, ReleasesTwice, Active
    <3>4. FlagOrBlind'
      BY DEF LoadTypeOK, FlagOrBlind, Loads
    <3>5. WatchedWhileLoading'
      BY DEF LoadTypeOK, FlagOrBlind, WatchedWhileLoading, Loads
    <3>6. PassedOrHidden'
      BY DEF LoadTypeOK, PassedOrHidden
    <3>7. MockOnlyWhenHidden'
      BY DEF LoadTypeOK, PassedOrHidden, MockOnlyWhenHidden
    <3> QED
      BY <3>1, <3>2, <3>3, <3>4, <3>5, <3>6, <3>7
  <2>15. CASE \E j \in Jobs : Finally(j)
    <3> SUFFICES ASSUME NEW j \in Jobs, Finally(j) PROVE LoadInv'
      BY <2>15
    <3> USE DEF Finally, Drop, Goto
    <3>1. LoadTypeOK'
      <4>1. {lock', current', loading', loaded', model'} \subseteq BOOLEAN
        BY DEF LoadTypeOK
      <4>2. {nested', blind', redone'} \subseteq SUBSET Jobs /\ {hidden', mocked'} \subseteq SUBSET Callers
        BY DEF LoadTypeOK, Loads
      <4> QED
        BY <4>1, <4>2 DEF LoadTypeOK
    <3>2. NestedRedone'
      BY DEF NestedRedone
    <3>3. AloneWithLock'
      BY DEF LoadTypeOK, NestedRedone, AloneWithLock, ReleasesTwice, Active
    <3>4. FlagOrBlind'
      BY DEF LoadTypeOK, FlagOrBlind, Loads
    <3>5. WatchedWhileLoading'
      BY DEF LoadTypeOK, FlagOrBlind, WatchedWhileLoading, Loads
    <3>6. PassedOrHidden'
      BY DEF LoadTypeOK, PassedOrHidden
    <3>7. MockOnlyWhenHidden'
      BY DEF LoadTypeOK, PassedOrHidden, MockOnlyWhenHidden
    <3> QED
      BY <3>1, <3>2, <3>3, <3>4, <3>5, <3>6, <3>7
  <2>16. CASE \E j \in Jobs : Caught(j)
    <3> SUFFICES ASSUME NEW j \in Jobs, Caught(j) PROVE LoadInv'
      BY <2>16
    <3> USE DEF Caught, Drop, Goto, Hide
    <3>1. LoadTypeOK'
      <4>1. {lock', current', loading', loaded', model'} \subseteq BOOLEAN
        BY DEF LoadTypeOK
      <4>2. {nested', blind', redone'} \subseteq SUBSET Jobs /\ {hidden', mocked'} \subseteq SUBSET Callers
        BY DEF LoadTypeOK, Loads
      <4> QED
        BY <4>1, <4>2 DEF LoadTypeOK
    <3>2. NestedRedone'
      BY DEF NestedRedone
    <3>3. AloneWithLock'
      BY DEF LoadTypeOK, NestedRedone, AloneWithLock, ReleasesTwice, Active
    <3>4. FlagOrBlind'
      BY DEF LoadTypeOK, FlagOrBlind, Loads
    <3>5. WatchedWhileLoading'
      BY DEF LoadTypeOK, FlagOrBlind, WatchedWhileLoading, Loads
    <3>6. PassedOrHidden'
      BY DEF LoadTypeOK, PassedOrHidden
    <3>7. MockOnlyWhenHidden'
      BY DEF LoadTypeOK, PassedOrHidden, MockOnlyWhenHidden
    <3> QED
      BY <3>1, <3>2, <3>3, <3>4, <3>5, <3>6, <3>7
  <2>17. CASE \E j \in Jobs : WatchdogPolls(j)
    <3> SUFFICES ASSUME NEW j \in Jobs, WatchdogPolls(j) PROVE LoadInv'
      BY <2>17
    <3> USE DEF WatchdogPolls
    <3>1. LoadTypeOK'
      <4>1. {lock', current', loading', loaded', model'} \subseteq BOOLEAN
        BY DEF LoadTypeOK
      <4>2. {nested', blind', redone'} \subseteq SUBSET Jobs /\ {hidden', mocked'} \subseteq SUBSET Callers
        BY DEF LoadTypeOK, Loads
      <4> QED
        BY <4>1, <4>2 DEF LoadTypeOK
    <3>2. NestedRedone'
      BY DEF NestedRedone
    <3>3. AloneWithLock'
      BY DEF LoadTypeOK, NestedRedone, AloneWithLock, ReleasesTwice, Active
    <3>4. FlagOrBlind'
      BY DEF LoadTypeOK, FlagOrBlind, Loads
    <3>5. WatchedWhileLoading'
      BY DEF LoadTypeOK, FlagOrBlind, WatchedWhileLoading, Loads
    <3>6. PassedOrHidden'
      BY DEF LoadTypeOK, PassedOrHidden
    <3>7. MockOnlyWhenHidden'
      BY DEF LoadTypeOK, PassedOrHidden, MockOnlyWhenHidden
    <3> QED
      BY <3>1, <3>2, <3>3, <3>4, <3>5, <3>6, <3>7
  <2>18. CASE UNCHANGED loadVars
    BY <2>18 DEF loadVars, LoadTypeOK, NestedRedone, AloneWithLock, ReleasesTwice, FlagOrBlind, PassedOrHidden,
       WatchedWhileLoading, MockOnlyWhenHidden, Active, Loads
  <2> QED
    BY <2>1, <2>2, <2>3, <2>4, <2>5, <2>6, <2>7, <2>8, <2>9, <2>10, <2>11, <2>12, <2>13, <2>14, <2>15, <2>16, <2>17, <2>18 DEF LoadNext, Loader, Caller
<1> QED
  BY <1>1, <1>2, PTL DEF LoadSpec

-----------------------------------------------------------------------------
\* Of at most one active loader there is at most one.
LEMMA AloneIsSingle ==
    ASSUME AloneWithLock
    PROVE  SingleFlight
<1> SUFFICES ASSUME ReleasesTwice = {} PROVE ~(Cardinality(Active) > 1)
  BY DEF SingleFlight
<1>1. CASE Active = {}
  BY <1>1, FS_EmptySet
<1>2. CASE Active # {}
  <2>1. PICK j \in Active : TRUE
    BY <1>2
  <2>2. Active \subseteq Jobs
    BY DEF Active
  <2>3. Active = {j}
    BY <2>1, <2>2 DEF AloneWithLock
  <2>4. Cardinality({j}) = 1
    BY FS_Singleton
  <2> QED
    BY <2>3, <2>4
<1> QED
  BY <1>1, <1>2

\* The shared state of the runtime and the places of its threads keep their
\* types.
THEOREM LoadTyped ==
    ASSUME 0 \notin Jobs
    PROVE  LoadSpec => []LoadTypeOK
<1>1. LoadInv => LoadTypeOK
  BY DEF LoadInv
<1> QED
  BY <1>1, LoadInductive, PTL

\* However often loads are asked for, fail or are re-downloaded, two run only
\* after a re-download; and the watchdog of a blocking load leaves it only when
\* another thread dropped "loading" during that load.
THEOREM LoadsAreGuarded ==
    ASSUME 0 \notin Jobs
    PROVE  LoadSpec => []LoadsGuarded
<1>1. LoadInv => SingleFlight
  BY AloneIsSingle DEF LoadInv
<1>2. LoadInv => WatchedWhileLoading
  BY DEF LoadInv
<1>3. LoadInv => LoadsGuarded
  BY <1>1, <1>2 DEF LoadsGuarded
<1> QED
  BY <1>3, LoadInductive, PTL

\* A stream that its guard let pass answers with the demo text only if the
\* model was taken away, or refused another load, in between.
THEOREM MockIsHidden ==
    ASSUME 0 \notin Jobs
    PROVE  LoadSpec => []MockOnlyWhenHidden
<1>1. LoadInv => MockOnlyWhenHidden
  BY DEF LoadInv
<1> QED
  BY <1>1, LoadInductive, PTL


-----------------------------------------------------------------------------
(* The services side by side.                                               *)

\* A behaviour of the services side by side is a behaviour of each of them.
LEMMA SideBySide ==
    Spec => OrchSpec /\ AgentSpec /\ WatchSpec /\ LoadSpec /\ ExecSpec /\ McpSpec
<1>0. Init => OrchInit /\ AgentInit /\ WatchInit /\ LoadInit /\ ExecInit /\ McpInit
  BY DEF Init
<1> USE DEF Next, InOrch, InAgent, InWatch, InLoad, InExec, InMcp, all
<1>1. [Next]_all => [OrchNext]_orchVars
  BY DEF orch, orchVars
<1>2. [Next]_all => [AgentNext]_superVars
  BY DEF agent, superVars, hostVars, serverVars
<1>3. [Next]_all => [WatchNext]_watchVars
  BY DEF watch, watchVars
<1>4. [Next]_all => [LoadNext]_loadVars
  BY DEF load, loadVars, stateVars
<1>5. [Next]_all => [ExecNext]_execVars
  BY DEF exec, execVars, recVars
<1>6. [Next]_all => [McpNext]_mcpVars
  BY DEF mcp, mcpVars
<1> QED
  BY <1>0, <1>1, <1>2, <1>3, <1>4, <1>5, <1>6, PTL
  DEF Spec, OrchSpec, AgentSpec, WatchSpec, LoadSpec, ExecSpec, McpSpec

\* Side by side the services keep the types of their variables, and what each
\* of them promises alone.
THEOREM ServicesTyped ==
    ASSUME N \in Nat, MaxCuts \in Nat, Nothing \notin OrchStates,
           Servings, Sizes, 0 \notin Jobs
    PROVE  Spec => []TypesOK
<1>1. /\ OrchSpec => []OrchTypeOK
      /\ AgentSpec => []AgentTypeOK
      /\ WatchSpec => []WatchTypeOK
  BY OrchTyped, AgentTyped, WatchTyped
<1>2. /\ LoadSpec => []LoadTypeOK
      /\ ExecSpec => []ExecTypeOK
      /\ McpSpec => []McpTypeOK
  BY LoadTyped, ExecTyped, McpTyped
<1> QED
  BY <1>1, <1>2, SideBySide, PTL DEF TypesOK
=============================================================================

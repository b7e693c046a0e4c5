----------------------------- MODULE TurnProofs -----------------------------
(* Safety of the rounds of a turn for every bound of the loop, and of an    *)
(* orchestrated run for every number of steps and every number of crashes,  *)
(* aborts and failing saves.                                                *)
EXTENDS OrchRun, TurnLoop, TLAPS

-----------------------------------------------------------------------------
(* The rounds of a turn.                                                    *)

Ended == {"over", "failed", "legacy"}

\* No request is made while a file of the text format is unwritten, and there
\* is no verdict before the end.
TurnInv ==
    /\ awaits \in {"backup", "wait"} => queue = 0
    /\ awaits \notin Ended => verdict = "none"
    /\ VerdictHonest

\* Where the turn is declared done, what was verified is what the verdict says.
LEMMA DeclaredHonest ==
    ASSUME NEW v, MaybeVerify(v), Accepts(v), Declare,
           queue = 0, verdict = "none", UNCHANGED <<ask, queue, files, external>>,
           unresolved' = AfterVerify(v) \/ unresolved' = AfterVerify(v) \ {"args", "missing"}
    PROVE  VerdictHonest' /\ (awaits' \notin Ended => verdict' = "none")
           /\ awaits' \notin {"backup", "wait"}
<1>1. CASE FalseDone' /\ attempt + 1 < Attempts
  BY <1>1 DEF Declare, VerdictHonest, Ended
<1>2. CASE ~(FalseDone' /\ attempt + 1 < Attempts)
  <2>1. awaits' = "over" /\ verdict' = Verdict'
    BY <1>2 DEF Declare
  <2>2. verdict' = "TERMINE" => (ask = "run" /\ ~files) \/ RunStatus' = "TERMINE"
    BY <2>1 DEF Verdict
  <2>3. verdict' = "TERMINE" /\ ask = "change" => files \/ external
    BY <2>1 DEF Verdict
  <2>4. RunStatus' = "TERMINE" => unresolved' = {} /\ ~verifyNote'
    BY DEF RunStatus
  <2>5. files /\ unresolved' = {} /\ ~verifyNote' => checked'
    <3>1. v = "passes" \/ v = "fails" \/ v = "unchecked" \/ v = "nothing"
      BY DEF MaybeVerify, Verifications, Accepts
    <3>2. CASE v = "passes"
      BY <3>2 DEF MaybeVerify
    <3>3. CASE v = "fails"
      BY <3>3 DEF AfterVerify
    <3>4. CASE v = "unchecked"
      BY <3>4 DEF MaybeVerify
    <3>5. CASE v = "nothing"
      BY <3>5 DEF MaybeVerify, Verifications
    <3> QED
      BY <3>1, <3>2, <3>3, <3>4, <3>5
  <2> QED
    BY <2>1, <2>2, <2>3, <2>4, <2>5 DEF VerdictHonest, Ended
<1> QED
  BY <1>1, <1>2

\* The other ends are never done.
LEMMA NotDone ==
    ASSUME verdict = "none", StopTurn \/ NextRound
    PROVE  VerdictHonest' /\ (awaits' \notin Ended => verdict' = "none")
           /\ awaits' \notin {"backup", "wait"}
  BY DEF StopTurn, NextRound, VerdictHonest, Ended

LEMMA TurnInductive == TurnSpec => []TurnInv
<1>1. TurnInit => TurnInv
  BY DEF TurnInit, TurnInv, VerdictHonest, Ended
<1>2. TurnInv /\ [TurnNext]_turnVars => TurnInv'
  <2> SUFFICES ASSUME TurnInv, [TurnNext]_turnVars PROVE TurnInv'
    OBVIOUS
  <2> USE DEF TurnInv
  <2>1. CASE MaybeCompress
    BY <2>1, NotDone DEF MaybeCompress, Ended, VerdictHonest, queueVars
  <2>2. CASE Unusable
    BY <2>2 DEF Unusable, Requested, Ended, VerdictHonest, queueVars
  <2>3. CASE Throws
    BY <2>3 DEF Throws, Requested, Ended, VerdictHonest, queueVars
  <2>4. CASE Offline \/ WaitAndRetry
    BY <2>4 DEF Offline, WaitAndRetry, Ended, VerdictHonest, queueVars
  <2>5. CASE NoCall
    BY <2>5, NotDone DEF NoCall, Requested, Ended, VerdictHonest, queueVars
  <2>6. ASSUME NEW n, TextFiles(n) PROVE TurnInv'
    <3>1. awaits = "backup" /\ verdict = "none" /\ (StopTurn \/ NextRound)
      BY <2>6 DEF TextFiles, Ended
    <3> QED
      BY <3>1, NotDone
  <2>7. ASSUME NEW v \in Verifications, FreeText(v) PROVE TurnInv'
    <3>1. queue = 0 /\ verdict = "none"
      BY <2>7 DEF FreeText, Requested, Ended
    <3>2. CASE Accepts(v)
      BY <2>7, <3>1, <3>2, DeclaredHonest DEF FreeText, Accepts, queueVars
    <3>3. CASE ~Accepts(v)
      BY <2>7, <3>1, <3>3, NotDone DEF FreeText
    <3> QED
      BY <3>2, <3>3
  <2>8. ASSUME NEW v \in Verifications, FinishCall(v) PROVE TurnInv'
    <3>1. queue = 0 /\ verdict = "none"
      BY <2>8 DEF FinishCall, Requested, Ended
    <3>2. CASE Accepts(v)
      BY <2>8, <3>1, <3>2, DeclaredHonest DEF FinishCall, queueVars
    <3>3. CASE ~Accepts(v)
      BY <2>8, <3>1, <3>3, NotDone DEF FinishCall
    <3> QED
      BY <3>2, <3>3
  <2>9. CASE BadFinishCall
    BY <2>9, NotDone DEF BadFinishCall, Requested, Ended
  <2>10. CASE Unrecorded
    BY <2>10, NotDone DEF Unrecorded, Requested, CountFix, Ended
  <2>11. ASSUME NEW c, Corrective(c) PROVE TurnInv'
    BY <2>11, NotDone DEF Corrective, Given, Ended
  <2>12. ASSUME NEW c, NEW o, ToolCall(c, o) PROVE TurnInv'
    BY <2>12, NotDone DEF ToolCall, Given, CountFix, Ended
  <2>13. ASSUME NEW o, Subagent(o) PROVE TurnInv'
    BY <2>13, NotDone DEF Subagent, Requested, Ended
  <2>14. CASE UNCHANGED turnVars
    BY <2>14 DEF turnVars, flowVars, requestVars, queueVars, verifyVars, workVars, VerdictHonest
  <2> QED
    BY <2>1, <2>2, <2>3, <2>4, <2>5, <2>6, <2>7, <2>8, <2>9, <2>10, <2>11, <2>12, <2>13, <2>14
    DEF TurnNext
<1> QED
  BY <1>1, <1>2, PTL DEF TurnSpec

\* A turn that ends as done has its evidence, whatever the bounds of the loop:
\* no reply, failed check, repair, sub-agent or further attempt leads around it.
THEOREM VerdictIsHonest == TurnSpec => []VerdictHonest
<1>1. TurnInv => VerdictHonest
  BY DEF TurnInv
<1> QED
  BY <1>1, TurnInductive, PTL

\* The guard and the history agree, and the guard forbids a call as soon as it
\* was completed Repeats times in a row.
Names   == {"edit", "check", "look", "mcp__tool", "mcp_call", "void", "none"}
Results == {"none", "ok", "error", "missing", "refused", "pending"}
Guards  == [sig : Names \X Results, count : 0 .. Repeats, forbidden : Names, refusals : Nat]
GuardInv ==
    /\ guard \in Guards
    /\ last \in Results
    /\ streak = [sig |-> guard.sig, n |-> guard.count]
    /\ guard.forbidden = guard.sig[1] \/ (guard.forbidden = "none" /\ guard.count # Repeats)

\* A call that is not the forbidden one is noted within the bound.
LEMMA NotedBounded ==
    ASSUME Repeats \in Nat, Repeats >= 2, GuardInv,
           NEW c \in Names, NEW result \in Results, c # guard.forbidden,
           NEW g, g = Noted(<<c, result>>)
    PROVE  /\ g \in Guards
           /\ g.sig = <<c, result>>
           /\ g.count = IF guard.sig = <<c, result>> THEN guard.count + 1 ELSE 1
           /\ g.forbidden = c \/ (g.forbidden = "none" /\ g.count # Repeats)
<1> DEFINE sig == <<c, result>>
           n == IF guard.forbidden = "none" /\ sig = guard.sig THEN guard.count + 1 ELSE 1
           next == IF n >= Repeats THEN c ELSE "none"
<1>1. sig \in Names \X Results /\ sig[1] = c
  OBVIOUS
<1>2. guard.count \in 0 .. Repeats /\ guard.forbidden \in Names
  BY DEF GuardInv, Guards
<1>3. guard.sig = sig => guard.count # Repeats /\ guard.forbidden = "none"
  BY <1>1 DEF GuardInv
<1>4. n \in 1 .. Repeats /\ n = IF guard.sig = sig THEN guard.count + 1 ELSE 1
  BY <1>2, <1>3
<1>5. g = [sig |-> sig, count |-> n, forbidden |-> next, refusals |-> 0]
  BY <1>1 DEF Noted
<1>6. next \in Names /\ (next = c \/ (next = "none" /\ n # Repeats))
  BY <1>4 DEF Names
<1>7. g \in Guards
  BY <1>1, <1>4, <1>5, <1>6 DEF Guards
<1>8. g.sig = sig /\ g.count = n /\ g.forbidden = next
  BY <1>5
<1> HIDE DEF n, next
<1> QED
  BY <1>4, <1>6, <1>7, <1>8

LEMMA FreshGuard ==
    ASSUME Repeats \in Nat, Repeats >= 2
    PROVE  /\ NoGuard \in Guards
           /\ NoStreak = [sig |-> NoGuard.sig, n |-> NoGuard.count]
           /\ NoGuard.forbidden = "none" /\ NoGuard.count # Repeats
<1>1. NoCallYet \in Names \X Results
  BY DEF NoCallYet, Names, Results
<1>2. NoGuard \in Guards
  BY <1>1 DEF NoGuard, Guards, Names
<1>3. NoGuard.sig = NoCallYet /\ NoGuard.count = 0 /\ NoGuard.forbidden = "none"
  BY DEF NoGuard
<1> QED
  BY <1>2, <1>3 DEF NoStreak

LEMMA ReadAsResult == ASSUME NEW o PROVE ReadAs(o) \in Results
<1>1. CASE o \in {"ok", "error", "missing"}
  BY <1>1 DEF ReadAs, Results
<1>2. CASE o \notin {"ok", "error", "missing"}
  BY <1>2 DEF ReadAs, Results
<1> QED
  BY <1>1, <1>2

LEMMA NoteKeeps ==
    ASSUME Repeats \in Nat, Repeats >= 2, GuardInv,
           NEW c \in Names, NEW result \in Results, c # guard.forbidden,
           GuardNote(c, result), last' \in Results
    PROVE  GuardInv'
<1>1. CASE UNCHANGED guardVars
  BY <1>1 DEF guardVars, GuardInv
<1>2. CASE ~UNCHANGED guardVars
  <2>1. /\ guard' = Noted(<<c, result>>)
        /\ streak' = [sig |-> <<c, result>>,
                      n |-> IF streak.sig = <<c, result>> THEN streak.n + 1 ELSE 1]
    BY <1>2 DEF GuardNote
  <2>2. streak.sig = guard.sig /\ streak.n = guard.count
    BY DEF GuardInv
  <2> QED
    BY <2>1, <2>2, NotedBounded DEF GuardInv
<1> QED
  BY <1>1, <1>2

\* No call of GUARD_TOOLS or of an mcp__ tool is completed with the same result
\* more often in a row than makes the guard corrective, whatever comes in
\* between (mcp_call too, which the guard is never told of), in every attempt.
THEOREM RepeatsAreBounded ==
    ASSUME Repeats \in Nat, Repeats >= 2
    PROVE  TurnSpec => []RepeatsBounded
<1>1. TurnInit => GuardInv
  <2> SUFFICES ASSUME TurnInit PROVE GuardInv
    OBVIOUS
  <2>1. guard = NoGuard /\ streak = NoStreak /\ last = "none"
    BY DEF TurnInit
  <2> QED
    BY <2>1, FreshGuard DEF GuardInv, Results
<1>2. GuardInv /\ [TurnNext]_turnVars => GuardInv'
  <2> SUFFICES ASSUME GuardInv, [TurnNext]_turnVars PROVE GuardInv'
    OBVIOUS
  <2>1. CASE MaybeCompress \/ Unusable \/ Throws \/ Offline \/ WaitAndRetry \/ NoCall
    BY <2>1 DEF MaybeCompress, Unusable, Throws, Offline, WaitAndRetry, NoCall, workVars,
                guardVars, GuardInv
  <2>2. ASSUME NEW n, TextFiles(n) PROVE GuardInv'
    BY <2>2 DEF TextFiles, workVars, guardVars, GuardInv
  <2>3. ASSUME NEW v \in Verifications, FreeText(v) PROVE GuardInv'
    <3>1. last' \in Results
      BY <2>3 DEF FreeText, GuardInv, Results
    <3>2. UNCHANGED guardVars \/ (guard' = NoGuard /\ streak' = NoStreak)
      BY <2>3 DEF FreeText, Declare
    <3> QED
      BY <3>1, <3>2, FreshGuard DEF guardVars, GuardInv
  <2>4. ASSUME NEW v \in Verifications, FinishCall(v) PROVE GuardInv'
    <3>1. last' \in Results
      BY <2>4 DEF FinishCall, GuardInv, Results
    <3>2. UNCHANGED guardVars \/ (guard' = NoGuard /\ streak' = NoStreak)
      BY <2>4 DEF FinishCall, Declare
    <3> QED
      BY <3>1, <3>2, FreshGuard DEF guardVars, GuardInv
  <2>5. CASE BadFinishCall
    BY <2>5 DEF BadFinishCall, guardVars, GuardInv, Results
  <2>6. CASE Unrecorded
    <3>1. last' = last /\ GuardNote("void", last) /\ guard.forbidden # "void"
      BY <2>6 DEF Unrecorded
    <3> QED
      BY <3>1, NoteKeeps DEF GuardInv, Names
  <2>7. ASSUME NEW c, Corrective(c) PROVE GuardInv'
    <3>1. last' \in Results /\ streak' = streak
      BY <2>7 DEF Corrective, Results
    <3>2. guard' = [guard EXCEPT !.refusals = guard.refusals + 1]
      BY <2>7 DEF Corrective
    <3> QED
      BY <3>1, <3>2 DEF GuardInv, Guards
  <2>8. ASSUME NEW c \in Tools, NEW o, ToolCall(c, o) PROVE GuardInv'
    <3>1. c # guard.forbidden /\ GuardNote(c, ReadAs(o)) /\ last' \in {ReadAs(o), "pending"}
      BY <2>8 DEF ToolCall
    <3>2. ReadAs(o) \in Results /\ last' \in Results /\ c \in Names
      BY <3>1, ReadAsResult DEF Results, Names, Tools, Mcp
    <3> QED
      BY <3>1, <3>2, NoteKeeps
  <2>9. ASSUME NEW o, Subagent(o) PROVE GuardInv'
    <3>1. last' \in {ReadAs(o), "pending"} /\ UNCHANGED guardVars
      BY <2>9 DEF Subagent
    <3> QED
      BY <3>1, ReadAsResult DEF guardVars, GuardInv, Results
  <2>10. CASE UNCHANGED turnVars
    BY <2>10 DEF turnVars, workVars, guardVars, GuardInv
  <2> QED
    BY <2>1, <2>2, <2>3, <2>4, <2>5, <2>6, <2>7, <2>8, <2>9, <2>10 DEF TurnNext
<1>3. GuardInv => RepeatsBounded
  BY DEF GuardInv, Guards, RepeatsBounded
<1> QED
  BY <1>1, <1>2, <1>3, PTL DEF TurnSpec

\* What the types rest on: a round that goes on has a request left, and a turn
\* that goes on has not failed MaxFix times in a row.
FlowTypes ==
    /\ awaits \in {"compress", "model", "backup", "wait", "over", "failed", "legacy"}
    /\ attempt \in 0 .. Attempts - 1 /\ iters \in 0 .. MaxIt - 1
    /\ asked \in 0 .. Requests /\ repair \in 0 .. Repairs /\ waited \in BOOLEAN
    /\ verdict \in {"none", "TERMINE", "PARTIEL", "ECHEC"}
    /\ awaits = "over" <=> verdict # "none"
    /\ awaits \in {"compress", "model"} => asked < Requests
WorkTypes ==
    /\ queue \in 0 .. MaxFiles /\ verifyRounds \in 0 .. MaxVerify /\ subSpawns \in 0 .. MaxSpawns
    /\ verifyNote \in BOOLEAN /\ files \in BOOLEAN /\ external \in BOOLEAN /\ checked \in BOOLEAN
    /\ unresolved \subseteq Tools \cup {"sub", "args", "missing"}
    /\ last \in {"none", "ok", "error", "missing", "refused", "pending"}
FailsTypes == fails \in 0 .. MaxFix /\ (awaits \notin Ended => fails < MaxFix)
RoundInv == FlowTypes /\ WorkTypes /\ FailsTypes

\* What the theorem assumes of the bounds of the loop.
LoopBounds ==
    /\ MaxIt \in Nat \ {0} /\ Attempts \in Nat \ {0} /\ Requests \in Nat \ {0}
    /\ MaxFix \in Nat \ {0} /\ Repairs \in Nat /\ MaxVerify \in Nat
    /\ MaxSpawns \in Nat /\ MaxFiles \in Nat

LEMMA EndKeeps ==
    ASSUME LoopBounds, FlowTypes, verdict = "none", StopTurn \/ NextRound
    PROVE  FlowTypes'
<1>1. waited' \in BOOLEAN
  BY DEF FlowTypes, StopTurn, NextRound, FreshRequest, requestVars
<1>2. CASE StopTurn
  BY <1>1, <1>2 DEF LoopBounds, FlowTypes, StopTurn, requestVars
<1>3. CASE NextRound
  BY <1>1, <1>3 DEF LoopBounds, FlowTypes, NextRound, FreshRequest
<1> QED
  BY <1>2, <1>3

LEMMA DeclareKeeps ==
    ASSUME LoopBounds, FlowTypes, verdict = "none", Declare
    PROVE  FlowTypes' /\ awaits' \notin {"model", "backup", "wait"}
<1>1. CASE FalseDone' /\ attempt + 1 < Attempts
  <2>1. /\ awaits' = "compress" /\ attempt' = attempt + 1 /\ iters' = 0 /\ asked' = 0
        /\ waited' = FALSE /\ repair' = 0 /\ verdict' = verdict
    BY <1>1 DEF Declare, FreshRequest
  <2>2. waited' \in BOOLEAN
    BY <2>1
  <2>3. attempt' \in 0 .. Attempts - 1
    BY <1>1, <2>1 DEF LoopBounds, FlowTypes
  <2> QED
    BY <2>1, <2>2, <2>3 DEF LoopBounds, FlowTypes
<1>2. CASE ~(FalseDone' /\ attempt + 1 < Attempts)
  <2>1. awaits' = "over" /\ verdict' = Verdict' /\ UNCHANGED <<attempt, iters, requestVars>>
    BY <1>2 DEF Declare
  <2>2. RunStatus' \in {"TERMINE", "PARTIEL", "ECHEC"}
    BY DEF RunStatus
  <2>3. Verdict' \in {"TERMINE", "PARTIEL", "ECHEC"}
    BY <2>2 DEF Verdict
  <2> QED
    BY <2>1, <2>3 DEF FlowTypes, requestVars
<1> QED
  BY <1>1, <1>2

LEMMA VerifyKeeps ==
    ASSUME LoopBounds, WorkTypes, NEW v, MaybeVerify(v),
           unresolved' = AfterVerify(v) \/ unresolved' = AfterVerify(v) \ {"args", "missing"}
    PROVE  /\ verifyRounds' \in 0 .. MaxVerify /\ verifyNote' \in BOOLEAN /\ checked' \in BOOLEAN
           /\ unresolved' \subseteq Tools \cup {"sub", "args", "missing"}
<1>1. verifyRounds' \in 0 .. MaxVerify
  BY DEF LoopBounds, WorkTypes, MaybeVerify, FedBack
<1>2. verifyNote' \in BOOLEAN /\ checked' \in BOOLEAN
  BY DEF MaybeVerify
<1>3. AfterVerify(v) \subseteq Tools \cup {"sub", "args", "missing"}
  BY DEF WorkTypes, AfterVerify, Tools, Mcp
<1> QED
  BY <1>1, <1>2, <1>3

LEMMA CountKeeps ==
    ASSUME LoopBounds, FlowTypes, FailsTypes, verdict = "none", awaits \notin Ended,
           NEW c, NEW result, CountFix(c, result)
    PROVE  FlowTypes' /\ FailsTypes'
<1>1. fails' \in {0, fails, fails + 1}
  BY DEF CountFix
<1>2. fails' \in 0 .. MaxFix
  BY <1>1 DEF LoopBounds, FailsTypes
<1>3. (fails' >= MaxFix /\ StopTurn) \/ (~(fails' >= MaxFix) /\ NextRound)
  BY DEF CountFix
<1>4. awaits' \notin Ended => fails' < MaxFix
  BY <1>2, <1>3 DEF StopTurn, Ended, LoopBounds
<1> QED
  BY <1>2, <1>3, <1>4, EndKeeps DEF FailsTypes

LEMMA RoundInductive == ASSUME LoopBounds PROVE TurnSpec => []RoundInv
<1>1. TurnInit => RoundInv
  <2> SUFFICES ASSUME TurnInit PROVE RoundInv
    OBVIOUS
  <2> USE DEF TurnInit
  <2>0. /\ waited \in BOOLEAN /\ verifyNote \in BOOLEAN /\ files \in BOOLEAN
        /\ external \in BOOLEAN /\ checked \in BOOLEAN
    OBVIOUS
  <2>1. FlowTypes /\ FailsTypes
    BY <2>0 DEF LoopBounds, FlowTypes, FailsTypes
  <2>2. WorkTypes
    BY <2>0 DEF LoopBounds, WorkTypes
  <2> QED
    BY <2>1, <2>2 DEF RoundInv
<1>2. RoundInv /\ [TurnNext]_turnVars => RoundInv'
  <2> SUFFICES ASSUME RoundInv, [TurnNext]_turnVars PROVE RoundInv'
    OBVIOUS
  <2> USE DEF RoundInv
  <2>0. awaits \in {"compress", "model", "backup", "wait"} => verdict = "none" /\ awaits \notin Ended
    BY DEF FlowTypes, Ended
  <2>w. WorkTypes /\ FailsTypes /\ awaits \notin Ended /\ UNCHANGED <<queueVars, verifyVars, workVars>>
          => WorkTypes' /\ FailsTypes'
    BY DEF WorkTypes, FailsTypes, queueVars, verifyVars, workVars
  <2>1. CASE MaybeCompress
    <3>1. /\ awaits = "compress" /\ UNCHANGED <<queueVars, verifyVars, workVars>>
          /\ \/ awaits' = "model" /\ UNCHANGED <<attempt, iters, requestVars, verdict>>
             \/ StopTurn
      BY <2>1 DEF MaybeCompress
    <3>2. CASE awaits' = "model" /\ UNCHANGED <<attempt, iters, requestVars, verdict>>
      <4>1. waited' \in BOOLEAN
        BY <3>2 DEF FlowTypes, requestVars
      <4> QED
        BY <2>0, <2>w, <3>1, <3>2, <4>1 DEF FlowTypes, requestVars
    <3>3. CASE StopTurn
      BY <2>0, <2>w, <3>1, <3>3, EndKeeps
    <3> QED
      BY <3>1, <3>2, <3>3
  <2>11. CASE NoCall
    <3>1. /\ awaits \in {"model", "backup"} /\ UNCHANGED <<queueVars, verifyVars, workVars>>
          /\ \/ /\ repair < Repairs /\ awaits' = "model" /\ repair' = repair + 1 /\ FreshRequest
                /\ UNCHANGED <<attempt, iters, verdict>>
             \/ StopTurn
      BY <2>11 DEF NoCall, Requested
    <3>2. CASE /\ repair < Repairs /\ awaits' = "model" /\ repair' = repair + 1 /\ FreshRequest
               /\ UNCHANGED <<attempt, iters, verdict>>
      <4>1. asked' = 0 /\ waited' \in BOOLEAN
        BY <3>2 DEF FreshRequest
      <4> QED
        BY <2>0, <2>w, <3>1, <3>2, <4>1 DEF LoopBounds, FlowTypes
    <3>3. CASE StopTurn
      BY <2>0, <2>w, <3>1, <3>3, EndKeeps
    <3> QED
      BY <3>1, <3>2, <3>3
  <2>2. CASE Unusable \/ Throws \/ Offline \/ WaitAndRetry
    <3>1. /\ awaits \in {"model", "backup", "wait"}
          /\ UNCHANGED <<queueVars, verifyVars, workVars>>
          /\ UNCHANGED <<attempt, iters, repair, verdict>>
      BY <2>2 DEF Unusable, Throws, Offline, WaitAndRetry, Requested, requestVars
    <3>2. waited' \in BOOLEAN
      BY <2>2 DEF FlowTypes, Unusable, Throws, Offline, WaitAndRetry, requestVars
    <3>3. awaits' \in {"model", "backup", "wait", "failed", "legacy"}
      BY <2>2 DEF Unusable, Throws, Offline, WaitAndRetry
    <3>4. \/ awaits = "model" /\ asked' = asked + 1 /\ (awaits' = "model" => asked + 1 < Requests)
          \/ awaits' # "model" /\ asked' = asked
          \/ asked' = 0
      BY <2>2 DEF Unusable, Throws, Offline, WaitAndRetry, Requested, requestVars
    <3>5. FlowTypes'
      BY <2>0, <3>1, <3>2, <3>3, <3>4 DEF LoopBounds, FlowTypes
    <3> QED
      BY <2>0, <2>w, <3>1, <3>5
  <2>3. ASSUME NEW n \in 1 .. MaxFiles, TextFiles(n) PROVE RoundInv'
    <3> USE <2>3 DEF TextFiles
    <3>1. /\ awaits = "backup" /\ (StopTurn \/ NextRound) /\ queue' \in {queue, n}
          /\ UNCHANGED <<verifyVars, workVars>>
      BY DEF queueVars
    <3>2. queue' \in 0 .. MaxFiles
      BY <3>1 DEF WorkTypes, LoopBounds
    <3> QED
      BY <2>0, <3>1, <3>2, EndKeeps DEF WorkTypes, FailsTypes, verifyVars, workVars
  <2>4. ASSUME NEW v \in Verifications, FreeText(v) \/ FinishCall(v) PROVE RoundInv'
    <3> USE DEF FreeText, FinishCall, Requested
    <3>1. /\ awaits \in {"model", "backup"} /\ MaybeVerify(v)
          /\ UNCHANGED <<ask, queueVars, files, external, fails, subSpawns>>
          /\ unresolved' = AfterVerify(v) \/ unresolved' = AfterVerify(v) \ {"args", "missing"}
          /\ Declare \/ NextRound \/ StopTurn
          /\ last' \in {last, "error", "refused", "ok", "pending"}
      BY <2>4
    <3>2. WorkTypes'
      BY <3>1, VerifyKeeps DEF WorkTypes, queueVars
    <3>3. FlowTypes'
      BY <2>0, <3>1, EndKeeps, DeclareKeeps
    <3>4. FailsTypes'
      BY <2>0, <3>1 DEF FailsTypes
    <3> QED
      BY <3>2, <3>3, <3>4
  <2>5. CASE BadFinishCall
    <3> USE <2>5 DEF BadFinishCall, Requested
    <3>1. WorkTypes' /\ FailsTypes'
      BY <2>0 DEF WorkTypes, FailsTypes, queueVars, verifyVars
    <3> QED
      BY <2>0, <3>1, EndKeeps
  <2>6. CASE Unrecorded
    <3> USE <2>6 DEF Unrecorded, Requested
    <3>1. WorkTypes'
      BY DEF WorkTypes, queueVars, verifyVars
    <3> QED
      BY <2>0, <3>1, CountKeeps
  <2>7. ASSUME NEW c \in Tools \cup {"void"}, Corrective(c) PROVE RoundInv'
    <3> USE <2>7 DEF Corrective, Given
    <3>1. /\ awaits = "model" /\ (StopTurn \/ NextRound)
          /\ queue' = (IF queue > 0 THEN queue - 1 ELSE 0)
          /\ last' \in {"refused", "pending"}
          /\ UNCHANGED <<verifyVars, files, external, unresolved, fails, subSpawns>>
      OBVIOUS
    <3>2. WorkTypes' /\ FailsTypes'
      BY <2>0, <3>1 DEF WorkTypes, FailsTypes, verifyVars, LoopBounds
    <3> QED
      BY <2>0, <3>1, <3>2, EndKeeps
  <2>8. ASSUME NEW c \in Tools, NEW o \in Outcomes(c), ToolCall(c, o) PROVE RoundInv'
    <3> USE <2>8 DEF ToolCall, Given
    <3>1. /\ awaits = "model" /\ CountFix(c, ReadAs(o))
          /\ queue' = (IF queue > 0 THEN queue - 1 ELSE 0)
          /\ last' \in {ReadAs(o), "pending"} /\ unresolved' = Resolved(c, o)
          /\ UNCHANGED <<verifyRounds, verifyNote, subSpawns>>
      OBVIOUS
    <3>2. files' \in BOOLEAN
      BY DEF WorkTypes
    <3>3. checked' \in BOOLEAN /\ external' \in BOOLEAN
      OBVIOUS
    <3>4. Resolved(c, o) \subseteq Tools \cup {"sub", "args", "missing"}
      BY DEF Resolved, WorkTypes
    <3>5. ReadAs(o) \in Results
      BY ReadAsResult
    <3>6. WorkTypes'
      BY <3>1, <3>2, <3>3, <3>4, <3>5 DEF WorkTypes, Results, LoopBounds
    <3> QED
      BY <2>0, <3>1, <3>6, CountKeeps
  <2>9. ASSUME NEW o \in {"ok", "error", "bad_args"}, Subagent(o) PROVE RoundInv'
    <3> USE <2>9 DEF Subagent, Requested
    <3>1. /\ awaits = "model" /\ NextRound
          /\ last' \in {ReadAs(o), "pending"} /\ unresolved' = Resolved("sub", o)
          /\ UNCHANGED <<queueVars, verifyRounds, verifyNote, external, fails>>
      OBVIOUS
    <3>2. files' \in BOOLEAN
      BY DEF WorkTypes
    <3>3. checked' \in BOOLEAN
      OBVIOUS
    <3>4. Resolved("sub", o) \subseteq Tools \cup {"sub", "args", "missing"}
      BY DEF Resolved, WorkTypes
    <3>5. ReadAs(o) \in Results
      BY ReadAsResult
    <3>6. subSpawns' \in 0 .. MaxSpawns
      BY DEF WorkTypes, LoopBounds
    <3>7. WorkTypes' /\ FailsTypes'
      BY <2>0, <3>1, <3>2, <3>3, <3>4, <3>5, <3>6 DEF WorkTypes, FailsTypes, Results, queueVars
    <3> QED
      BY <2>0, <3>1, <3>7, EndKeeps
  <2>10. CASE UNCHANGED turnVars
    BY <2>10 DEF turnVars, flowVars, requestVars, queueVars, verifyVars, workVars,
                 FlowTypes, WorkTypes, FailsTypes
  <2> QED
    BY <2>1, <2>2, <2>3, <2>4, <2>5, <2>6, <2>7, <2>8, <2>9, <2>10, <2>11
    DEF TurnNext
<1> QED
  BY <1>1, <1>2, PTL DEF TurnSpec

\* Whatever the model answers, the counters of a turn stay within their limits,
\* its failures in a row and its requests among them, and a turn has a verdict
\* exactly when it is over.
THEOREM TurnTyped == ASSUME LoopBounds PROVE TurnSpec => []TurnTypeOK
<1>1. RoundInv => TurnTypeOK
  BY DEF RoundInv, FlowTypes, WorkTypes, FailsTypes, TurnTypeOK
<1> QED
  BY <1>1, RoundInductive, PTL

-----------------------------------------------------------------------------
(* Orchestrated runs.                                                       *)

\* The file has the attempts of the execution under way, and all that was tried.
Counted ==
    /\ Running => orchFile.attempts = orchState.attempts
    /\ IF orchFile = Nothing THEN tries = [s \in Steps |-> 0] ELSE tries = orchFile.attempts

\* The attempts at a step that st allows: one less while it is pending and not
\* awaited, since it may be begun once more.
Allowed(st) == \A s \in Steps :
    st.attempts[s] <= cuts[s] + (IF st.status[s] = "pending" /\ ~(inStep /\ at = s)
                                 THEN 1 ELSE 2)
FileAllowed  == orchFile # Nothing => Allowed(orchFile)
StateAllowed == Running => Allowed(orchState)

\* Counting alone is not inductive: a step that is pending after an
\* interruption has used up an attempt for which "cuts" gives it another.
OrchInv == OrchTypeOK /\ Counted /\ InterruptedIsPending /\ FileAllowed /\ StateAllowed

-----------------------------------------------------------------------------
(* The records of the model: what they are made of, and what an update of   *)
(* one of them is.                                                          *)

LEMMA RecordType ==
    /\ \A st \in OrchStates : st.status \in [Steps -> Statuses] /\ st.attempts \in [Steps -> Nat]
    /\ FreshRun \in OrchStates
    /\ \A s \in Steps : FreshRun.attempts[s] = 0
    /\ FreshRun.attempts = [s \in Steps |-> 0]
  BY DEF OrchStates, Statuses, FreshRun

LEMMA StatusUpdate ==
    ASSUME NEW st \in OrchStates, NEW f \in [Steps -> Statuses]
    PROVE  /\ [st EXCEPT !.status = f] \in OrchStates
           /\ [st EXCEPT !.status = f].status = f
           /\ [st EXCEPT !.status = f].attempts = st.attempts
  BY DEF OrchStates

LEMMA AttemptUpdate ==
    ASSUME orchState \in OrchStates, NEW s \in Steps
    PROVE  /\ Attempt(s) \in OrchStates
           /\ Attempt(s).status = [orchState.status EXCEPT ![s] = "pending"]
           /\ Attempt(s).attempts = [orchState.attempts EXCEPT ![s] = @ + 1]
<1>1. orchState.status \in [Steps -> Statuses] /\ orchState.attempts \in [Steps -> Nat]
  BY RecordType
<1>2. [orchState.status EXCEPT ![s] = "pending"] \in [Steps -> Statuses]
  BY <1>1 DEF Statuses
<1>3. [orchState.attempts EXCEPT ![s] = @ + 1] \in [Steps -> Nat]
  BY <1>1
<1> QED
  BY <1>2, <1>3 DEF Attempt, OrchStates

-----------------------------------------------------------------------------
LEMMA OrchInductive ==
    ASSUME N \in Nat, MaxCuts \in Nat, Nothing \notin OrchStates
    PROVE  OrchSpec => []OrchInv
<1> USE DEF Running
<1>s. \A s \in Steps : s \in Nat /\ s # 0 /\ s <= N
  BY DEF Steps
<1>1. OrchInit => OrchInv
  <2> SUFFICES ASSUME OrchInit PROVE OrchInv
    OBVIOUS
  <2> USE DEF OrchInit
  <2>1. OrchTypeOK
    <3>1. at \in 0 .. N + 1
      OBVIOUS
    <3> QED
      BY <3>1 DEF OrchTypeOK
  <2>2. Counted /\ InterruptedIsPending
    BY DEF Counted, InterruptedIsPending
  <2>3. FileAllowed /\ StateAllowed
    BY DEF FileAllowed, StateAllowed
  <2> QED
    BY <2>1, <2>2, <2>3 DEF OrchInv
<1>2. ASSUME OrchInv, [OrchNext]_orchVars PROVE OrchInv'
  <2> USE <1>2, <1>s, RecordType DEF OrchInv
  <2>1. CASE Execute
    <3> USE <2>1 DEF Execute, Save
    <3>1. OrchTypeOK'
      <4>1. at' \in 0 .. N + 1
        BY DEF OrchTypeOK
      <4>2. inStep' \in BOOLEAN
        BY DEF OrchTypeOK
      <4> QED
        BY <4>1, <4>2 DEF OrchTypeOK
    <3>2. Counted'
      BY DEF OrchTypeOK, Counted
    <3>3. InterruptedIsPending'
      BY DEF OrchTypeOK, InterruptedIsPending
    <3>4. FileAllowed'
      BY DEF OrchTypeOK, Counted, InterruptedIsPending, FileAllowed, StateAllowed, Allowed
    <3>5. StateAllowed'
      BY DEF OrchTypeOK, Counted, StateAllowed, FileAllowed, Allowed
    <3> QED
      BY <3>1, <3>2, <3>3, <3>4, <3>5
  <2>2. CASE Pass
    <3> USE <2>2 DEF Pass, InLoop
    <3>1. OrchTypeOK'
      <4>1. at' \in 0 .. N + 1
        BY DEF OrchTypeOK
      <4>2. inStep' \in BOOLEAN
        BY DEF OrchTypeOK
      <4> QED
        BY <4>1, <4>2 DEF OrchTypeOK
    <3>2. Counted'
      BY DEF OrchTypeOK, Counted
    <3>3. InterruptedIsPending'
      BY DEF OrchTypeOK, InterruptedIsPending
    <3>4. FileAllowed'
      BY DEF OrchTypeOK, Counted, InterruptedIsPending, FileAllowed, StateAllowed, Allowed
    <3>5. StateAllowed'
      BY DEF OrchTypeOK, Counted, StateAllowed, FileAllowed, Allowed
    <3> QED
      BY <3>1, <3>2, <3>3, <3>4, <3>5
  <2>3. CASE Budget
    <3> USE <2>3 DEF Budget, InLoop, ShouldRun
    <3> DEFINE f == [s \in Steps |-> IF ShouldRun(orchState, s) THEN "skipped" ELSE orchState.status[s]]
    <3>a. f \in [Steps -> Statuses]
      BY DEF OrchTypeOK, Statuses, InLoop
    <3>b. /\ orchState' \in OrchStates
          /\ orchState'.status = f /\ orchState'.attempts = orchState.attempts
      BY <3>a, StatusUpdate DEF OrchTypeOK, InLoop
    <3>1. OrchTypeOK'
      <4>1. at' \in 0 .. N + 1
        BY DEF OrchTypeOK
      <4>2. inStep' \in BOOLEAN
        BY DEF OrchTypeOK
      <4> QED
        BY <3>b, <4>1, <4>2 DEF OrchTypeOK
    <3>2. Counted'
      BY <3>b DEF OrchTypeOK, Counted
    <3>3. InterruptedIsPending'
      BY <3>b DEF OrchTypeOK, InterruptedIsPending
    <3>4. FileAllowed'
      BY <3>b DEF OrchTypeOK, Counted, InterruptedIsPending, FileAllowed, StateAllowed, Allowed
    <3>5. StateAllowed'
      BY <3>b DEF OrchTypeOK, Counted, StateAllowed, FileAllowed, Allowed
    <3> QED
      BY <3>1, <3>2, <3>3, <3>4, <3>5
  <2>4. CASE BeginStep
    <3> USE <2>4 DEF BeginStep, InLoop, ShouldRun, Save
    <3>b. /\ Attempt(at) \in OrchStates
          /\ Attempt(at).status = [orchState.status EXCEPT ![at] = "pending"]
          /\ Attempt(at).attempts = [orchState.attempts EXCEPT ![at] = @ + 1]
      BY AttemptUpdate DEF OrchTypeOK, InLoop
    <3>1. OrchTypeOK'
      <4>1. at' \in 0 .. N + 1
        BY DEF OrchTypeOK
      <4>2. inStep' \in BOOLEAN
        BY DEF OrchTypeOK
      <4> QED
        BY <3>b, <4>1, <4>2 DEF OrchTypeOK
    <3>2. Counted'
      BY <3>b DEF OrchTypeOK, Counted
    <3>3. InterruptedIsPending'
      BY <3>b DEF OrchTypeOK, InterruptedIsPending
    <3>4. FileAllowed'
      BY <3>b DEF OrchTypeOK, Counted, InterruptedIsPending, FileAllowed, StateAllowed, Allowed
    <3>5. StateAllowed'
      BY <3>b DEF OrchTypeOK, Counted, StateAllowed, FileAllowed, Allowed
    <3> QED
      BY <3>1, <3>2, <3>3, <3>4, <3>5
  <2>5. CASE StepEnds
    <3> USE <2>5 DEF StepEnds, Save
    <3>a. PICK outcome \in {"done", "failed"} :
             orchState' = [orchState EXCEPT !.status[at] = outcome] /\ orchFile' = orchState'
      OBVIOUS
    <3> DEFINE f == [orchState.status EXCEPT ![at] = outcome]
    <3>c. f \in [Steps -> Statuses] /\ orchState' = [orchState EXCEPT !.status = f]
      BY <3>a DEF OrchTypeOK, Statuses
    <3>d. orchState \in OrchStates
      BY DEF OrchTypeOK
    <3>e. /\ [orchState EXCEPT !.status = f] \in OrchStates
          /\ [orchState EXCEPT !.status = f].status = f
          /\ [orchState EXCEPT !.status = f].attempts = orchState.attempts
      BY ONLY <3>c, <3>d, StatusUpdate
    <3>b. /\ orchState' \in OrchStates /\ orchFile' = orchState'
          /\ orchState'.status = f /\ orchState'.attempts = orchState.attempts
      BY <3>a, <3>c, <3>e
    <3>1. OrchTypeOK'
      <4>1. at' \in 0 .. N + 1
        BY DEF OrchTypeOK
      <4>2. inStep' \in BOOLEAN
        BY DEF OrchTypeOK
      <4> QED
        BY <3>b, <4>1, <4>2 DEF OrchTypeOK
    <3>2. Counted'
      BY <3>b DEF OrchTypeOK, Counted
    <3>3. InterruptedIsPending'
      BY <3>b DEF OrchTypeOK, InterruptedIsPending
    <3>4. FileAllowed'
      BY <3>b DEF OrchTypeOK, Counted, InterruptedIsPending, FileAllowed, StateAllowed, Allowed
    <3>5. StateAllowed'
      BY <3>b DEF OrchTypeOK, Counted, StateAllowed, FileAllowed, Allowed
    <3> QED
      BY <3>1, <3>2, <3>3, <3>4, <3>5
  <2>6. CASE StepAborted
    <3> USE <2>6 DEF StepAborted, Save, Cut
    <3>1. OrchTypeOK'
      <4>1. at' \in 0 .. N + 1
        BY DEF OrchTypeOK
      <4>2. inStep' \in BOOLEAN
        BY DEF OrchTypeOK
      <4> QED
        BY <4>1, <4>2 DEF OrchTypeOK
    <3>2. Counted'
      BY DEF OrchTypeOK, Counted
    <3>3. InterruptedIsPending'
      BY DEF OrchTypeOK, InterruptedIsPending
    <3>4. FileAllowed'
      BY DEF OrchTypeOK, Counted, InterruptedIsPending, FileAllowed, StateAllowed, Allowed
    <3>5. StateAllowed'
      BY DEF OrchTypeOK, Counted, StateAllowed, FileAllowed, Allowed
    <3> QED
      BY <3>1, <3>2, <3>3, <3>4, <3>5
  <2>7. CASE Report
    <3> USE <2>7 DEF Report, Save, Leave
    <3>1. OrchTypeOK'
      <4>1. at' \in 0 .. N + 1
        BY DEF OrchTypeOK
      <4>2. inStep' \in BOOLEAN
        BY DEF OrchTypeOK
      <4> QED
        BY <4>1, <4>2 DEF OrchTypeOK
    <3>2. Counted'
      BY DEF OrchTypeOK, Counted
    <3>3. InterruptedIsPending'
      BY DEF OrchTypeOK, InterruptedIsPending
    <3>4. FileAllowed'
      BY DEF OrchTypeOK, Counted, InterruptedIsPending, FileAllowed, StateAllowed, Allowed
    <3>5. StateAllowed'
      BY DEF OrchTypeOK, Counted, StateAllowed, FileAllowed, Allowed
    <3> QED
      BY <3>1, <3>2, <3>3, <3>4, <3>5
  <2>8. CASE SaveFails
    <3> USE <2>8 DEF SaveFails, Leave, Cut
    <3>1. OrchTypeOK'
      <4>1. at' \in 0 .. N + 1
        BY DEF OrchTypeOK
      <4>2. inStep' \in BOOLEAN
        BY DEF OrchTypeOK
      <4> QED
        BY <4>1, <4>2 DEF OrchTypeOK
    <3>2. Counted'
      BY DEF OrchTypeOK, Counted
    <3>3. InterruptedIsPending'
      BY DEF OrchTypeOK, InterruptedIsPending
    <3>4. FileAllowed'
      BY DEF OrchTypeOK, Counted, InterruptedIsPending, FileAllowed, StateAllowed, Allowed
    <3>5. StateAllowed'
      BY DEF OrchTypeOK, Counted, StateAllowed, FileAllowed, Allowed
    <3> QED
      BY <3>1, <3>2, <3>3, <3>4, <3>5
  <2>9. CASE OrchCrash
    <3> USE <2>9 DEF OrchCrash, Leave, Cut
    <3>1. OrchTypeOK'
      <4>1. at' \in 0 .. N + 1
        BY DEF OrchTypeOK
      <4>2. inStep' \in BOOLEAN
        BY DEF OrchTypeOK
      <4> QED
        BY <4>1, <4>2 DEF OrchTypeOK
    <3>2. Counted'
      BY DEF OrchTypeOK, Counted
    <3>3. InterruptedIsPending'
      BY DEF OrchTypeOK, InterruptedIsPending
    <3>4. FileAllowed'
      BY DEF OrchTypeOK, Counted, InterruptedIsPending, FileAllowed, StateAllowed, Allowed
    <3>5. StateAllowed'
      BY DEF OrchTypeOK, Counted, StateAllowed, FileAllowed, Allowed
    <3> QED
      BY <3>1, <3>2, <3>3, <3>4, <3>5
  <2>10. CASE UNCHANGED orchVars
    BY <2>10 DEF orchVars, OrchTypeOK, Counted, InterruptedIsPending, FileAllowed, StateAllowed, Allowed
  <2> QED
    BY <2>1, <2>2, <2>3, <2>4, <2>5, <2>6, <2>7, <2>8, <2>9, <2>10 DEF OrchNext
<1> QED
  BY <1>1, <1>2, PTL DEF OrchSpec

-----------------------------------------------------------------------------
(* The theorems.                                                            *)

\* What the code keeps of a plan, in memory and in its file, has the status
\* and the attempts of each step, and a step is awaited only in the loop.
THEOREM OrchTyped ==
    ASSUME N \in Nat, MaxCuts \in Nat, Nothing \notin OrchStates
    PROVE  OrchSpec => []OrchTypeOK
<1>1. OrchInv => OrchTypeOK
  BY DEF OrchInv
<1> QED
  BY <1>1, OrchInductive, PTL

LEMMA TriesFromFile ==
    ASSUME N \in Nat, MaxCuts \in Nat, Nothing \notin OrchStates, OrchInv
    PROVE  TriesBounded
<1> USE DEF OrchInv, OrchTypeOK, Counted
<1>1. CASE orchFile = Nothing
  BY <1>1 DEF TriesBounded
<1>2. CASE orchFile # Nothing
  <2> SUFFICES ASSUME NEW s \in Steps PROVE tries[s] <= 2 + cuts[s]
    BY DEF TriesBounded
  <2>1. tries[s] = orchFile.attempts[s] /\ tries[s] \in Nat /\ cuts[s] \in Nat
    BY <1>2
  <2>2. orchFile.attempts[s] <= cuts[s] + 1 \/ orchFile.attempts[s] <= cuts[s] + 2
    BY <1>2 DEF FileAllowed, Allowed
  <2> QED
    BY <2>1, <2>2
<1> QED
  BY <1>1, <1>2

\* A crash, a failing save or an abort finds the step that is being executed
\* pending in the file, and no step is handed to the model more than twice but
\* for those cuts, whatever the number of steps and of interruptions.
THEOREM OrchAccounted ==
    ASSUME N \in Nat, MaxCuts \in Nat, Nothing \notin OrchStates
    PROVE  OrchSpec => []StepsAccounted
<1>1. OrchInv => InterruptedIsPending
  BY DEF OrchInv
<1>2. OrchInv => TriesBounded
  BY TriesFromFile
<1>3. OrchInv => StepsAccounted
  BY <1>1, <1>2 DEF StepsAccounted
<1> QED
  BY <1>3, OrchInductive, PTL
=============================================================================

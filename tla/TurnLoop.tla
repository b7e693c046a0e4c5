------------------------------ MODULE TurnLoop ------------------------------
(* The rounds of one turn with tools in build mode (toolsTurn of loop.js):  *)
(* requests to the model, their retries and the text format a failing       *)
(* provider is left with, repairs, the guard against repeated calls,        *)
(* verification, the bounds, and the verdict. Nothing but an abort          *)
(* interferes with a round (aborts and pauses are AgentServer's): all that  *)
(* follows a reply of the model is one step.                                *)
EXTENDS Integers, FiniteSets

CONSTANTS
    MaxIt,        \* rounds of one attempt
    Attempts,     \* MAX_ATTEMPTS of an ACTION
    Requests,     \* requests of a round with tools
    Repairs,      \* requests of actionRepair
    Repeats,      \* identical calls that make the guard corrective
    MaxFix,       \* MAX_BUILD_FIX
    MaxVerify,    \* times failed checks are fed back
    MaxSpawns,    \* MAX_SUB_SPAWNS
    MaxFiles      \* files of one answer in the text format

VARIABLES
    ask,          \* the demand: "plain", or an ACTION, to "change" files or "run"
    awaits,       \* "compress", "model", "backup", "wait"; "over", "failed", "legacy"
    attempt, iters,
    asked, waited, repair,   \* the request: its tries, one wait, actionRepair's
    queue, fallbackRounds,   \* files of the text format still to be written
    guard, fails,            \* createLoopGuard, buildFixFails
    verifyRounds, verifyNote, subSpawns,
    files,        \* the project differs from its snapshot
    external,     \* an MCP call succeeded
    unresolved,   \* what unresolvedErrors finds in run.calls
    last,         \* how the last entry of run.calls ended
    verdict,
    checked,       \* history: a check passed since the files last changed
    streak        \* history: the last completed call but for looks and mcp_call,
                  \* and how often in a row

requestVars == <<asked, waited, repair>>
queueVars   == <<queue, fallbackRounds>>
verifyVars  == <<verifyRounds, verifyNote, checked>>
flowVars    == <<awaits, attempt, iters, requestVars, verdict>>
workVars    == <<files, external, unresolved, last, fails, subSpawns>>
guardVars   == <<guard, streak>>
turnVars    == <<ask, flowVars, queueVars, verifyVars, workVars, guardVars>>

NoCallYet == <<"none", "none">>
NoGuard  == [sig |-> NoCallYet, count |-> 0, forbidden |-> "none", refusals |-> 0]
NoStreak == [sig |-> NoCallYet, n |-> 0]

\* The calls of the model by what the loop tells apart: a tool that writes, the
\* command of the project's check, a look, a call over MCP: by the name of its
\* tool, mcp__server__tool, or by mcp_call. The errors that end a call before the
\* guard would count it are not "completed".
Mcp == {"mcp__tool", "mcp_call"}
Outcomes(c) ==
    CASE c = "edit"  -> {"ok", "error", "denied", "exists", "bad_args", "need_approval"}
      [] c = "check" -> {"ok", "error", "missing", "denied", "bad_args", "need_approval"}
      [] c = "look"  -> {"ok", "error"}
      [] c \in Mcp   -> {"ok", "error", "denied"}
Tools     == {"edit", "check", "look"} \cup Mcp
Completed == {"ok", "error", "missing", "none"}

TurnInit ==
    /\ ask \in {"plain", "change", "run"}
    /\ awaits = "compress" /\ attempt = 0 /\ iters = 0
    /\ asked = 0 /\ waited = FALSE /\ repair = 0
    /\ queue = 0 /\ fallbackRounds = 0 /\ guard = NoGuard /\ fails = 0
    /\ verifyRounds = 0 /\ verifyNote = FALSE /\ subSpawns = 0
    /\ files = FALSE /\ external = FALSE /\ unresolved = {} /\ last = "none"
    /\ verdict = "none" /\ checked = TRUE /\ streak = NoStreak

-----------------------------------------------------------------------------
(* The verdict, and the ends of a request, a round, an attempt, the turn.   *)

\* computeRunStatus of a turn that was declared done.
RunStatus ==
    CASE unresolved # {} /\ files -> "PARTIEL"
      [] unresolved # {} /\ ~files -> "ECHEC"
      [] OTHER -> IF verifyNote THEN "PARTIEL" ELSE "TERMINE"

\* Mutant of Verdict: changed files are evidence enough.
VerdictByFiles == IF ask = "change" /\ files THEN "TERMINE" ELSE RunStatus

\* What toolsTurn makes of it. The accepted finish is itself a call that
\* succeeded, so that a demand to "run" is done whenever it was declared.
Verdict ==
    CASE ask = "run" /\ ~files -> "TERMINE"
      [] ask = "change" /\ RunStatus = "TERMINE" /\ ~files /\ ~external -> "PARTIEL"
      [] OTHER -> RunStatus

FreshRequest == asked' = 0 /\ waited' = FALSE

\* A round is left without a declaration: PARTIEL, whatever was done.
StopTurn ==
    /\ awaits' = "over" /\ verdict' = "PARTIEL"
    /\ UNCHANGED <<attempt, iters, requestVars>>

NextRound ==
    /\ FreshRequest /\ repair' = 0 /\ attempt' = attempt
    /\ IF iters + 1 < MaxIt
       THEN awaits' = "compress" /\ iters' = iters + 1 /\ UNCHANGED verdict
       ELSE awaits' = "over" /\ verdict' = "PARTIEL" /\ UNCHANGED iters

\* A change was declared and no file differs: the turn is tried again, with a
\* new guard; the counters of verification, repair and fallback stay.
FalseDone == ask = "change" /\ ~files /\ RunStatus = "TERMINE"
Declare ==
    IF FalseDone' /\ attempt + 1 < Attempts
    THEN /\ awaits' = "compress" /\ attempt' = attempt + 1 /\ iters' = 0
         /\ FreshRequest /\ repair' = 0
         /\ guard' = NoGuard /\ streak' = NoStreak /\ UNCHANGED verdict
    ELSE /\ awaits' = "over" /\ verdict' = Verdict'
         /\ UNCHANGED <<attempt, iters, requestVars, guardVars>>

-----------------------------------------------------------------------------
(* The request of a round.                                                  *)

\* maybeCompress: the history fits, or is summarised, or the turn ends here.
MaybeCompress ==
    /\ awaits = "compress"
    /\ \/ awaits' = "model" /\ UNCHANGED <<attempt, iters, requestVars, verdict>>
       \/ StopTurn
    /\ UNCHANGED <<ask, queueVars, verifyVars, workVars, guardVars>>

\* roundOnce: a file of the text format comes before any request.
Requested == awaits = "model" /\ queue = 0

\* A call that cannot be used, or an error that may pass: again, with fewer
\* tools, and at last without any.
Unusable ==
    /\ Requested /\ asked' = asked + 1
    /\ awaits' = IF asked + 1 < Requests THEN "model" ELSE "backup"
    /\ UNCHANGED <<ask, attempt, iters, waited, repair, verdict, queueVars, verifyVars,
                   workVars, guardVars>>

\* The turn ends with an error, or as one without tools.
Throws ==
    /\ Requested \/ awaits = "backup"
    /\ \/ awaits' = "failed"
       \/ awaits' = "legacy" /\ iters = 0 /\ repair = 0 /\ ~waited
    /\ UNCHANGED <<ask, attempt, iters, requestVars, verdict, queueVars, verifyVars,
                   workVars, guardVars>>

\* runtime_offline in the last of the requests: one wait, one more roundOnce.
Offline ==
    /\ awaits = "backup" /\ ~waited /\ awaits' = "wait"
    /\ UNCHANGED <<ask, attempt, iters, requestVars, verdict, queueVars, verifyVars,
                   workVars, guardVars>>
WaitAndRetry ==
    /\ awaits = "wait"
    /\ \/ awaits' = "model" /\ asked' = 0 /\ waited' = TRUE
       \/ awaits' = "failed" /\ UNCHANGED <<asked, waited>>
    /\ UNCHANGED <<ask, attempt, iters, repair, verdict, queueVars, verifyVars,
                   workVars, guardVars>>

\* Files in the text format: they wait for the next rounds, once in a turn.
\* (Within a repair they are dropped: it only looks for calls.)
TextFiles(n) ==
    /\ awaits = "backup" /\ repair = 0
    /\ fallbackRounds' = fallbackRounds + 1
    /\ IF fallbackRounds > 0 THEN StopTurn /\ UNCHANGED queue ELSE queue' = n /\ NextRound
    /\ UNCHANGED <<ask, verifyVars, workVars, guardVars>>

\* No call for an ACTION: actionRepair orders one, then gives up.
NoCall ==
    /\ ask # "plain"
    /\ Requested \/ awaits = "backup"
    /\ IF repair < Repairs
       THEN /\ awaits' = "model" /\ repair' = repair + 1 /\ FreshRequest
            /\ UNCHANGED <<attempt, iters, verdict>>
       ELSE StopTurn
    /\ UNCHANGED <<ask, queueVars, verifyVars, workVars, guardVars>>

-----------------------------------------------------------------------------
(* Verification, when the model wants to end.                               *)

\* What maybeVerify meets: nothing to check, a check that passes, fails, could
\* not be run or ran out of time, is refused. One check stands for them all,
\* and is taken to leave the files alone.
Verifications == IF files THEN {"passes", "fails", "unchecked", "denied"} ELSE {"nothing"}

\* Failures are fed back MaxVerify times, then the turn ends with them.
FedBack(v)  == v = "fails" /\ verifyRounds < MaxVerify
Accepts(v) == v # "denied" /\ ~FedBack(v)

\* The command of a check is recorded as a call of the model's would be.
AfterVerify(v) ==
    CASE v = "passes" -> unresolved \ {"check", "args", "missing"}
      [] v = "fails"  -> unresolved \cup {"check"}
      [] OTHER        -> unresolved
MaybeVerify(v) ==
    /\ v \in Verifications
    /\ verifyRounds' = IF FedBack(v) THEN verifyRounds + 1 ELSE verifyRounds
    /\ verifyNote' = (verifyNote \/ v = "unchecked")
    /\ checked' = (v = "passes" \/ (checked /\ v # "fails"))

\* A text without a call ends a turn that is not an ACTION.
FreeText(v) ==
    /\ ask = "plain" /\ MaybeVerify(v)
    /\ Requested \/ awaits = "backup"
    /\ UNCHANGED <<ask, queueVars, files, external, fails, subSpawns>>
    /\ unresolved' = AfterVerify(v)
    /\ \/ Accepts(v) /\ Declare /\ UNCHANGED last
       \/ FedBack(v) /\ NextRound /\ last' = "error" /\ UNCHANGED guardVars
       \/ v = "denied" /\ StopTurn /\ last' = "refused" /\ UNCHANGED guardVars

\* reply or done. The entry of an accepted one is a success, which makes up for
\* arguments that could not be read and for a missing tool.
FinishCall(v) ==
    /\ Requested /\ MaybeVerify(v)
    /\ UNCHANGED <<ask, queueVars, files, external, fails, subSpawns>>
    /\ IF Accepts(v)
       THEN unresolved' = AfterVerify(v) \ {"args", "missing"} /\ last' = "ok" /\ Declare
       ELSE /\ unresolved' = AfterVerify(v) /\ last' \in {"refused", "pending"}
            /\ IF FedBack(v) THEN NextRound ELSE StopTurn
            /\ UNCHANGED guardVars

\* reply or done without a text, or with one that repeats itself.
BadFinishCall ==
    /\ Requested /\ NextRound
    /\ unresolved' = unresolved \cup {"args"} /\ last' \in {"refused", "pending"}
    /\ UNCHANGED <<ask, queueVars, verifyVars, files, external, fails, subSpawns, guardVars>>

-----------------------------------------------------------------------------
(* The first call of a reply (the others are not executed).                 *)

\* A file of the text format is written like a call of the model's.
Given(c) ==
    /\ awaits = "model" /\ (queue > 0 => c = "edit")
    /\ queue' = IF queue > 0 THEN queue - 1 ELSE 0
    /\ UNCHANGED fallbackRounds

\* While the guard is corrective the repeated call is refused, once; the second
\* time the turn ends.
Corrective(c) ==
    /\ Given(c) /\ guard.forbidden = c
    /\ guard' = [guard EXCEPT !.refusals = @ + 1]
    /\ IF guard.refusals = 0 THEN NextRound ELSE StopTurn
    /\ last' \in {"refused", "pending"}
    /\ UNCHANGED <<ask, verifyVars, files, external, unresolved, fails, subSpawns, streak>>

\* Mutant of Noted: what is forbidden is not remembered.
NotedOnly(sig) ==
    [sig |-> sig, count |-> IF sig = guard.sig THEN guard.count + 1 ELSE 1,
     forbidden |-> "none", refusals |-> 0]

\* createLoopGuard's note. A corrective guard is not told of the call it forbids
\* (that one was refused), and forgets everything at any other.
Noted(sig) ==
    LET n == IF guard.forbidden = "none" /\ sig = guard.sig THEN guard.count + 1 ELSE 1
    IN [sig |-> sig, count |-> n,
        forbidden |-> IF n >= Repeats THEN sig[1] ELSE "none", refusals |-> 0]

\* The guard is told of the calls in GUARD_TOOLS and of those that begin with
\* mcp__: a look changes nothing, mcp_call is overlooked.
GuardNote(c, result) ==
    IF c \notin {"look", "mcp_call"} /\ result \in Completed
    THEN /\ guard' = Noted(<<c, result>>)
         /\ streak' = [sig |-> <<c, result>>,
                       n |-> IF streak.sig = <<c, result>> THEN streak.n + 1 ELSE 1]
    ELSE UNCHANGED guardVars

\* Failures in a row of the tools a build is repaired with.
CountFix(c, result) ==
    /\ fails' = CASE result = "ok" -> 0
                  [] c \in {"edit", "check"} /\ result \notin {"ok", "pending"} -> fails + 1
                  [] OTHER -> fails
    /\ IF fails' >= MaxFix THEN StopTurn ELSE NextRound

\* How the guard, and the count of failures, read the entry of an outcome.
ReadAs(o) ==
    IF o \in {"ok", "error", "missing"} THEN o
    ELSE IF o = "need_approval" THEN "pending" ELSE "refused"

\* unresolvedErrors: an error stands until the same call succeeds; one of the
\* arguments, or a missing tool, until any call does.
Resolved(c, o) ==
    CASE o = "ok" -> unresolved \ {c, "args", "missing"}
      [] o = "bad_args" -> unresolved \cup {"args"}
      [] o = "missing" -> unresolved \cup {"missing"}
      [] o = "denied" -> unresolved
      [] OTHER -> unresolved \cup {c}

\* A command may change the files although it fails.
MayChange(c, o) == (c = "edit" /\ o = "ok") \/ (c = "check" /\ o \in {"ok", "error"})

\* executeTool, its pauses over, and what follows it; the entries of calls that
\* were not executed may come last.
ToolCall(c, o) ==
    /\ Given(c) /\ guard.forbidden # c
    /\ o \in Outcomes(c) /\ (queue > 0 => o # "bad_args")
    /\ IF MayChange(c, o) THEN files' \in BOOLEAN ELSE files' = files
    /\ checked' = (checked /\ ~MayChange(c, o))
    /\ external' = (external \/ (c \in Mcp /\ o = "ok"))
    /\ unresolved' = Resolved(c, o)
    /\ last' \in {ReadAs(o), "pending"}
    /\ GuardNote(c, ReadAs(o)) /\ CountFix(c, ReadAs(o))
    /\ UNCHANGED <<ask, verifyRounds, verifyNote, subSpawns>>

\* A write without a path is answered and leaves no entry: the guard, and the
\* count, read the entry of an earlier call.
Unrecorded ==
    /\ Requested /\ guard.forbidden # "void"
    /\ GuardNote("void", last) /\ CountFix("edit", last)
    /\ UNCHANGED <<ask, queueVars, verifyVars, files, external, unresolved, last, subSpawns>>

\* Sub-agents work on the same files; they are neither counted by the guard nor
\* as repairs.
Subagent(o) ==
    /\ Requested /\ NextRound
    /\ o \in IF subSpawns < MaxSpawns THEN {"ok", "error", "bad_args"} ELSE {"bad_args"}
    /\ subSpawns' = IF o = "bad_args" THEN subSpawns ELSE subSpawns + 1
    /\ IF o = "bad_args" THEN files' = files ELSE files' \in BOOLEAN
    /\ checked' = (checked /\ o = "bad_args")
    /\ unresolved' = Resolved("sub", o) /\ last' \in {ReadAs(o), "pending"}
    /\ UNCHANGED <<ask, queueVars, verifyRounds, verifyNote, external, fails, guardVars>>

-----------------------------------------------------------------------------
TurnNext ==
    \/ MaybeCompress \/ Unusable \/ Throws \/ Offline \/ WaitAndRetry \/ NoCall
    \/ \E n \in 1 .. MaxFiles : TextFiles(n)
    \/ \E v \in Verifications : FreeText(v) \/ FinishCall(v)
    \/ BadFinishCall \/ Unrecorded \/ Corrective("void")
    \/ \E c \in Tools : Corrective(c) \/ \E o \in Outcomes(c) : ToolCall(c, o)
    \/ \E o \in {"ok", "error", "bad_args"} : Subagent(o)

TurnSpec == TurnInit /\ [][TurnNext]_turnVars

-----------------------------------------------------------------------------
\* The variables keep their types.
TurnTypeOK ==
    /\ awaits \in {"compress", "model", "backup", "wait", "over", "failed", "legacy"}
    /\ attempt \in 0 .. Attempts - 1 /\ iters \in 0 .. MaxIt - 1
    /\ asked \in 0 .. Requests /\ repair \in 0 .. Repairs /\ queue \in 0 .. MaxFiles
    /\ fails \in 0 .. MaxFix /\ verifyRounds \in 0 .. MaxVerify /\ subSpawns \in 0 .. MaxSpawns
    /\ {waited, verifyNote, files, external, checked} \subseteq BOOLEAN
    /\ unresolved \subseteq Tools \cup {"sub", "args", "missing"}
    /\ last \in {"none", "ok", "error", "missing", "refused", "pending"}
    /\ verdict \in {"none", "TERMINE", "PARTIEL", "ECHEC"}
    /\ awaits = "over" <=> verdict # "none"

\* loop.js "TERMINE only with evidence": a demand for a change that ends as done
\* has changed a file or an external system; no error stands; the files that
\* differ passed their checks after the last of the changes; and nothing the
\* text format brought is unwritten. Over all the ways to the end: failed
\* checks fed back, repairs, sub-agents and a second attempt.
VerdictHonest == verdict = "TERMINE" =>
    /\ queue = 0
    /\ ask = "change" => files \/ external
    /\ ask # "run" \/ files => unresolved = {}
    /\ files => checked

\* plan.js "1-2 -> 'ok', 3rd -> 'correct'": within an attempt no call the guard is
\* told of is completed with the same result more often than Repeats times in a
\* row, whatever is refused, asked, read or called with mcp_call in between. (An
\* mcp_call itself is repeated as often as the rounds allow.)
RepeatsBounded == streak.n <= Repeats
=============================================================================

-------------------------- MODULE RuntimeSupervisor --------------------------
(* The backend's watch over the model runtime (runtimeSupervisor.js): probes *)
(* of /health, automatic restarts and those the operator asks for, capped in *)
(* a sliding window.  Time is a tick; of a moment only its age is kept, up    *)
(* to where the code stops telling ages apart.  How long a restart backs off *)
(* is left open.                                                             *)
EXTENDS Integers, FiniteSets

CONSTANTS
    Episodes,     \* calls of maybeRestart that may be under way at once
    Threshold,    \* failThreshold
    MaxRestarts,  \* maxRestarts
    Window,       \* windowMs, in ticks
    Grace,        \* graceMs, in ticks
    Moments       \* names of the moments kept in restartAttempts, numbers

VARIABLES
    runtime,      \* the process on the runtime's port
    restarting, failures,   \* restarting, consecutiveFailures
    age,          \* since startedAt
    restartAttempts, \* the moments on record ...
    aged,         \* ... and how long ago each was
    probe,        \* pollTick: its request to /health
    episode,      \* where each call of maybeRestart is
    begun,        \* history: when restarts were begun, inside the window
    pressed       \* history: the operator restarted the runtime by hand

watchVars == <<runtime, restarting, failures, age, restartAttempts, aged, probe,
               episode, begun, pressed>>

WatchInit ==
    /\ runtime \in {"down", "boot", "up"}
    /\ restarting = FALSE /\ failures = 0 /\ age = 0
    /\ restartAttempts = {} /\ begun = {} /\ aged = [t \in Moments |-> Window] /\ probe = "none"
    /\ episode = [e \in Episodes |-> "idle"] /\ pressed = FALSE

UpTo(n, max) == IF n < max THEN n ELSE max
Older == [t \in Moments |-> UpTo(aged[t] + 1, Window)]

-----------------------------------------------------------------------------
(* The runtime and the clock.                                               *)

Boots  == runtime = "boot" /\ runtime' = "up"
RuntimeDies   == runtime # "down" /\ runtime' = "down"
Hangs  == runtime = "up" /\ runtime' = "hung"
External == /\ Boots \/ RuntimeDies \/ Hangs
            /\ UNCHANGED <<restarting, failures, age, restartAttempts, aged,
                           probe, episode, begun, pressed>>

Tick ==
    /\ age' = UpTo(age + 1, Grace)
    /\ aged' = Older /\ begun' = {t \in begun : Older[t] < Window}
    /\ UNCHANGED <<runtime, restarting, failures, restartAttempts, probe, episode, pressed>>

-----------------------------------------------------------------------------
(* maybeRestart.                                                            *)

\* Mutant of Prune: nothing falls out of the window.
PruneNever == restartAttempts

\* pruneAttempts.
Prune == {t \in restartAttempts : aged[t] < Window}

UnusedMoment(t) ==
    /\ t \in Moments \ (Prune \cup begun)
    /\ \A x \in Moments \ (Prune \cup begun) : t <= x

\* Mutant of BeginRestart: the attempt is not on record while it runs.
BeginUnrecorded(e) == \E t \in Moments :
    /\ UnusedMoment(t) /\ begun' = begun \cup {t} /\ aged' = [aged EXCEPT ![t] = 0]
    /\ restarting' = TRUE /\ restartAttempts' = Prune
    /\ episode' = [episode EXCEPT ![e] = "kill"]

\* The attempt is on record before the first await.
BeginRestart(e) == \E t \in Moments :
    /\ UnusedMoment(t) /\ begun' = begun \cup {t} /\ aged' = [aged EXCEPT ![t] = 0]
    /\ restarting' = TRUE /\ restartAttempts' = Prune \cup {t}
    /\ episode' = [episode EXCEPT ![e] = "kill"]

AtCap == Cardinality(Prune) >= MaxRestarts

\* Refused at the cap, else begun up to the first await.
MaybeRestart(e) ==
    /\ episode[e] = "idle"
    /\ \/ AtCap /\ restartAttempts' = Prune /\ UNCHANGED <<restarting, aged, begun, episode>>
       \/ ~AtCap /\ BeginRestart(e)

\* "Restart now" of the runtime panel; nothing says that a restart is under way.
ByHand(e) ==
    /\ MaybeRestart(e) /\ pressed' = TRUE
    /\ UNCHANGED <<runtime, failures, age, probe>>

\* taskkill: only on Windows, and best effort.
Kill(e) ==
    /\ episode[e] = "kill" /\ episode' = [episode EXCEPT ![e] = "sleep"]
    /\ runtime' \in {runtime, "down"}
    /\ UNCHANGED <<restarting, failures, age, restartAttempts, aged, probe, begun, pressed>>

\* Mutant of End: an episode that fails leaves the flag up.
EndDeaf(e, ok) ==
    /\ episode' = [episode EXCEPT ![e] = "idle"]
    /\ restarting' = (restarting /\ ~ok)
    /\ failures' = (IF ok THEN 0 ELSE failures)

End(e, ok) ==
    /\ episode' = [episode EXCEPT ![e] = "idle"]
    /\ restarting' = FALSE
    /\ failures' = (IF ok THEN 0 ELSE failures)

\* After the backoff the runtime is spawned, unless its file is missing; with
\* another one on the port the new process ends at once.
SpawnRuntime(e) ==
    /\ episode[e] = "sleep"
    /\ \/ /\ episode' = [episode EXCEPT ![e] = "wait"]
          /\ runtime' = IF runtime = "down" THEN "boot" ELSE runtime
          /\ UNCHANGED <<restarting, failures>>
       \/ End(e, FALSE) /\ UNCHANGED runtime
    /\ UNCHANGED <<age, restartAttempts, aged, probe, begun, pressed>>

\* waitHealthy: until /health answers or the deadline; then ensureModel.
Healthy(e) ==
    /\ episode[e] = "wait" /\ runtime = "up"
    /\ episode' = [episode EXCEPT ![e] = "model"]
    /\ UNCHANGED <<runtime, restarting, failures, age, restartAttempts, aged,
                   probe, begun, pressed>>

Deadline(e) ==
    /\ episode[e] = "wait" /\ End(e, FALSE)
    /\ UNCHANGED <<runtime, age, restartAttempts, aged, probe, begun, pressed>>

EnsureModel(e) ==
    /\ episode[e] = "model" /\ End(e, TRUE)
    /\ UNCHANGED <<runtime, age, restartAttempts, aged, probe, begun, pressed>>

-----------------------------------------------------------------------------
(* pollTick: one request at a time (its timeout is below pollMs).           *)

\* Mutant of PollTick: it does not look whether a restart is under way.
PollAlways ==
    /\ probe = "none" /\ probe' = "asked"
    /\ UNCHANGED <<runtime, restarting, failures, age, restartAttempts, aged,
                   episode, begun, pressed>>

PollTick ==
    /\ ~restarting /\ probe = "none" /\ probe' = "asked"
    /\ UNCHANGED <<runtime, restarting, failures, age, restartAttempts, aged,
                   episode, begun, pressed>>

\* What the runtime answers, in flight.
ProbeEnds ==
    /\ probe = "asked" /\ probe' = IF runtime = "up" THEN "good" ELSE "bad"
    /\ UNCHANGED <<runtime, restarting, failures, age, restartAttempts, aged,
                   episode, begun, pressed>>

GoodProbe ==
    /\ probe = "good" /\ probe' = "none"
    /\ failures' = 0
    /\ UNCHANGED <<runtime, restarting, age, restartAttempts, aged, episode, begun, pressed>>

\* Enough failures in a row restart the runtime, not in the grace period.
Bad(e) ==
    /\ probe = "bad" /\ probe' = "none"
    /\ failures' = UpTo(failures + 1, Threshold)
    /\ IF failures + 1 >= Threshold /\ age >= Grace THEN MaybeRestart(e)
       ELSE UNCHANGED <<restarting, restartAttempts, aged, begun, episode>>
    /\ UNCHANGED <<runtime, age, pressed>>

-----------------------------------------------------------------------------
Watch == PollTick \/ ProbeEnds \/ GoodProbe \/ \E e \in Episodes : Bad(e)
EpisodeStep(e) == Kill(e) \/ SpawnRuntime(e) \/ Healthy(e) \/ Deadline(e) \/ EnsureModel(e)
WatchNext == External \/ Tick \/ Watch \/ \E e \in Episodes : EpisodeStep(e) \/ ByHand(e)

WatchSpec == WatchInit /\ [][WatchNext]_watchVars

-----------------------------------------------------------------------------
\* The variables keep their types.
WatchTypeOK ==
    /\ runtime \in {"down", "boot", "up", "hung"} /\ probe \in {"none", "asked", "good", "bad"}
    /\ restarting \in BOOLEAN /\ pressed \in BOOLEAN
    /\ failures \in 0 .. Threshold /\ age \in 0 .. Grace
    /\ restartAttempts \subseteq Moments /\ begun \subseteq Moments
    /\ aged \in [Moments -> 0 .. Window]
    /\ episode \in [Episodes -> {"idle", "kill", "sleep", "wait", "model"}]

InFlight == {e \in Episodes : episode[e] # "idle"}

\* "the 10-minute restart cap still applies (safety)": no more than MaxRestarts
\* restarts are begun within any window, by hand and automatically together,
\* also while earlier ones are still under way.
RestartsCapped == Cardinality(begun) <= MaxRestarts

\* The watch is never switched off by a restart that is over: while the flag
\* keeps pollTick from probing, a restart is under way.
FlagMeansRestart == restarting => InFlight # {}

\* Left to itself the watch restarts the runtime once at a time; two restarts
\* (the second kills what the first one spawned) overlap only after one by hand.
OverlapOnlyByHand == Cardinality(InFlight) > 1 => pressed

\* Restarts are what the flag says, and one at a time.
RestartsOrderly == FlagMeansRestart /\ OverlapOnlyByHand

\* The cap delays and never ends the supervision: a runtime that is gone, or
\* hangs, is back some time.
RuntimeComesBack == runtime # "up" ~> runtime = "up"
=============================================================================

------------------------------ MODULE ModelLoad ------------------------------
(* How the runtime loads its model (server.enterprise.py): the HTTP threads *)
(* that ask for a load, the single-flight lock, the loader threads, the RAM *)
(* watchdog of each and a streamed inference.  Threads interleave between   *)
(* the assignments to the shared state that others read.                    *)
EXTENDS Integers, FiniteSets

CONSTANTS
    Callers,   \* HTTP threads
    Jobs       \* loader threads, numbers taken in order

VARIABLES
    lock, current,          \* _load_lock; whether state.current_job is there
    loading, loaded, model, \* state.loading, .loaded, and whether .model is there
    caller,    \* where each HTTP thread is
    job,       \* where each loader thread is
    nested,    \* loaders inside their forced re-download
    watchdog,  \* the _RamWatchdog of each loader
    blind,     \* history: loaders during which another thread dropped "loading"
    redone,    \* history: loaders that re-downloaded
    hidden,    \* history: streams during which the model was cleared or refused
    mocked     \* history: streams that answered with the demo text

stateVars == <<lock, current, loading, loaded, model>>
loadVars  == <<stateVars, caller, job, nested, watchdog, blind, redone, hidden, mocked>>

LoadInit ==
    /\ lock = FALSE /\ current = FALSE
    /\ loading = FALSE /\ loaded = FALSE /\ model = FALSE
    /\ caller = [c \in Callers |-> "idle"] /\ job = [j \in Jobs |-> "unused"]
    /\ nested = {} /\ watchdog = [j \in Jobs |-> "off"]
    /\ blind = {} /\ redone = {} /\ hidden = {} /\ mocked = {}

Loads == {j \in Jobs : job[j] \in {"gate", "weights"}}

\* Thread j (a request: 0) sets loading to FALSE.
Drop(j) == loading' = FALSE /\ blind' = blind \cup (Loads \ {j})

\* The model is taken away, or its "loaded", under the streams that go on.
Hide == hidden' = hidden \cup {c \in Callers : caller[c] = "passed"}

-----------------------------------------------------------------------------
(* /reload, /download and the load at startup.                              *)

\* _refuse_load_for_ram, called by a request while any load may be running;
\* a model that is there stays in memory.
Refuse(c) ==
    /\ caller[c] = "idle"
    /\ Drop(0) /\ loaded' = FALSE /\ Hide
    /\ UNCHANGED <<lock, current, model, caller, job, nested, watchdog, redone, mocked>>

\* The model is given up before the lock is asked for.
Clear(c) ==
    /\ caller[c] = "idle" /\ caller' = [caller EXCEPT ![c] = "cleared"]
    /\ loaded' = FALSE /\ model' = FALSE /\ Hide
    /\ UNCHANGED <<lock, current, loading, job, nested, watchdog, blind, redone, mocked>>

\* Mutant of Acquire: the lock is not looked at.
AcquireAnyway(j) ==
    /\ job[j] = "unused" /\ \A x \in Jobs : job[x] = "unused" => j <= x
    /\ lock' = TRUE /\ current' = TRUE /\ job' = [job EXCEPT ![j] = "begin"]
    /\ UNCHANGED <<loading, loaded, model, nested, watchdog, blind, redone, hidden, mocked>>

\* start_model_load, its lock free.  When the thread cannot be started, nobody
\* gives the lock back.
Acquire(j) ==
    /\ ~lock
    /\ job[j] = "unused" /\ \A x \in Jobs : job[x] = "unused" => j <= x
    /\ lock' = TRUE /\ current' = TRUE
    /\ \E p \in {"begin", "unstarted"} : job' = [job EXCEPT ![j] = p]
    /\ UNCHANGED <<loading, loaded, model, nested, watchdog, blind, redone, hidden, mocked>>

Startup(j) ==
    /\ \A x \in Jobs : job[x] = "unused"
    /\ Acquire(j) /\ UNCHANGED caller

StartLoad(c) ==
    /\ caller[c] = "cleared" /\ caller' = [caller EXCEPT ![c] = "idle"]
    /\ \E j \in Jobs : Acquire(j)

\* 409 already_loading.
Busy(c) ==
    /\ caller[c] = "cleared" /\ lock /\ caller' = [caller EXCEPT ![c] = "idle"]
    /\ UNCHANGED <<stateVars, job, nested, watchdog, blind, redone, hidden, mocked>>

-----------------------------------------------------------------------------
(* load_model_thread.                                                       *)

Goto(j, p) == job' = [job EXCEPT ![j] = p]

\* Mutant of BeginLoad: the flag is not raised.
BeginQuiet(j) ==
    /\ job[j] = "begin" /\ Goto(j, "gate") /\ UNCHANGED loading
    /\ UNCHANGED <<lock, current, loaded, model, caller, nested, watchdog, blind,
                   redone, hidden, mocked>>

BeginLoad(j) ==
    /\ job[j] = "begin" /\ Goto(j, "gate") /\ loading' = TRUE
    /\ UNCHANGED <<lock, current, loaded, model, caller, nested, watchdog, blind,
                   redone, hidden, mocked>>

\* The RAM gate refuses; or detection, the download or an import fails; or
\* the weights are loaded, watched.  "loading" may be down by then.
Gate(j) ==
    /\ job[j] = "gate"
    /\ \/ /\ Drop(j) /\ loaded' = FALSE /\ Hide /\ Goto(j, "finally")
          /\ UNCHANGED watchdog
       \/ /\ Drop(j) /\ Goto(j, "finally") /\ UNCHANGED <<loaded, hidden, watchdog>>
       \/ /\ Goto(j, "weights") /\ watchdog' = [watchdog EXCEPT ![j] = "armed"]
          /\ UNCHANGED <<loading, blind, loaded, hidden>>
    /\ UNCHANGED <<lock, current, model, caller, nested, redone, mocked>>

\* One poll of the watchdog: it leaves once "loading" is down, and trips when
\* the RAM is critical.
WatchdogPolls(j) ==
    /\ watchdog[j] = "armed"
    /\ watchdog' = [watchdog EXCEPT ![j] = IF loading THEN "tripped" ELSE "left"]
    /\ UNCHANGED <<stateVars, caller, job, nested, blind, redone, hidden, mocked>>

Disarm(j) == watchdog' = [watchdog EXCEPT ![j] = "off"]

\* The weights are there, the model is published ...
Weights(j) ==
    /\ job[j] = "weights" /\ watchdog[j] # "tripped"
    /\ Disarm(j) /\ Goto(j, "publish") /\ model' = TRUE
    /\ UNCHANGED <<lock, current, loading, loaded, caller, nested, blind, redone,
                   hidden, mocked>>

\* ... and said to be loaded; the GGUF path clears "loading" at once.
Announce(j) ==
    /\ job[j] = "publish" /\ Goto(j, "finally") /\ loaded' = TRUE
    /\ Drop(j) \/ UNCHANGED <<loading, blind>>
    /\ UNCHANGED <<lock, current, model, caller, nested, watchdog, redone, hidden, mocked>>

\* The watchdog tripped: the new model is released and so is the old one.
Tripped(j) ==
    /\ job[j] = "weights" /\ watchdog[j] = "tripped"
    /\ Disarm(j) /\ Goto(j, "finally") /\ Drop(j)
    /\ model' = FALSE /\ loaded' = FALSE /\ Hide
    /\ UNCHANGED <<lock, current, caller, nested, redone, mocked>>

\* No weights: every attempt failed, or an exception.
WeightsFail(j) ==
    /\ job[j] = "weights" /\ Disarm(j) /\ Goto(j, "finally") /\ Drop(j)
    /\ UNCHANGED <<lock, current, loaded, model, caller, nested, redone, hidden, mocked>>

\* The local copy is stale: the thread calls itself, forced, once.  (The
\* tokenizer is missing: before the weights are watched.)
Redownload(j) ==
    /\ job[j] = "gate" /\ j \notin redone
    /\ nested' = nested \cup {j} /\ redone' = redone \cup {j}
    /\ Goto(j, "begin") /\ Drop(j)
    /\ UNCHANGED <<lock, current, loaded, model, caller, watchdog, hidden, mocked>>

\* Mutant of Finally: the inner call is the only one that releases.
FinallyOnce(j) ==
    /\ job[j] = "finally" /\ Drop(j)
    /\ IF j \in nested THEN lock' = FALSE /\ current' = FALSE ELSE UNCHANGED <<lock, current>>
    /\ nested' = nested \ {j}
    /\ IF j \in nested THEN Goto(j, "finally")
       ELSE \E p \in {"done", "escaped"} : Goto(j, p)
    /\ UNCHANGED <<loaded, model, caller, watchdog, redone, hidden, mocked>>

\* "finally": the lock is released whoever holds it, and a second time by the
\* outer call after a forced re-download.  An exception in one of the handlers
\* escapes the outer call after that.
Finally(j) ==
    /\ job[j] = "finally" /\ Drop(j)
    /\ lock' = FALSE /\ current' = FALSE
    /\ nested' = nested \ {j}
    /\ IF j \in nested THEN Goto(j, "finally")
       ELSE \E p \in {"done", "escaped"} : Goto(j, p)
    /\ UNCHANGED <<loaded, model, caller, watchdog, redone, hidden, mocked>>

\* _model_thread_target catches it, hides the model and releases once more.
Caught(j) ==
    /\ job[j] = "escaped" /\ Goto(j, "crashed")
    /\ Drop(j) /\ loaded' = FALSE /\ Hide
    /\ lock' = FALSE /\ current' = FALSE
    /\ UNCHANGED <<model, caller, nested, watchdog, redone, mocked>>

-----------------------------------------------------------------------------
(* /infer-stream without the demo mode.                                     *)

\* Mutant of StreamPasses: no 503.
StreamAnyway(c) ==
    /\ caller[c] = "idle" /\ caller' = [caller EXCEPT ![c] = "passed"]
    /\ hidden' = hidden \ {c} /\ mocked' = mocked \ {c}
    /\ UNCHANGED <<stateVars, job, nested, watchdog, blind, redone>>

\* The guard finds a model (or answers 503, which changes nothing).
StreamPasses(c) ==
    /\ caller[c] = "idle" /\ loaded /\ model
    /\ caller' = [caller EXCEPT ![c] = "passed"]
    /\ hidden' = hidden \ {c} /\ mocked' = mocked \ {c}
    /\ UNCHANGED <<stateVars, job, nested, watchdog, blind, redone>>

\* The generator reads the state again: the demo text when no model is there.
StreamRuns(c) ==
    /\ caller[c] = "passed" /\ caller' = [caller EXCEPT ![c] = "idle"]
    /\ mocked' = IF loaded /\ model THEN mocked ELSE mocked \cup {c}
    /\ UNCHANGED <<stateVars, job, nested, watchdog, blind, redone, hidden>>

-----------------------------------------------------------------------------
Loader(j) ==
    \/ BeginLoad(j) \/ Gate(j) \/ Weights(j) \/ Announce(j) \/ Tripped(j)
    \/ WeightsFail(j) \/ Redownload(j) \/ Finally(j) \/ Caught(j)
Caller(c) == Refuse(c) \/ Clear(c) \/ StartLoad(c) \/ Busy(c) \/ StreamPasses(c) \/ StreamRuns(c)
LoadNext ==
    \/ \E c \in Callers : Caller(c)
    \/ \E j \in Jobs : Startup(j) \/ Loader(j) \/ WatchdogPolls(j)

LoadSpec == LoadInit /\ [][LoadNext]_loadVars

-----------------------------------------------------------------------------
\* The variables keep their types.
LoadTypeOK ==
    /\ {lock, current, loading, loaded, model} \subseteq BOOLEAN
    /\ caller \in [Callers -> {"idle", "cleared", "passed"}]
    /\ job \in [Jobs -> {"unused", "unstarted", "begin", "gate", "weights", "publish",
                        "finally", "done", "escaped", "crashed"}]
    /\ watchdog \in [Jobs -> {"off", "armed", "tripped", "left"}]
    /\ {nested, blind, redone} \subseteq SUBSET Jobs
    /\ {hidden, mocked} \subseteq SUBSET Callers

\* Loaders that release the lock a second time, when it may be another's.
ReleasesTwice == redone \cup {j \in Jobs : job[j] = "crashed"}

Active == {j \in Jobs : job[j] \in {"begin", "gate", "weights", "publish", "finally"}}

\* "Only ONE model load/download job may run at a time": two run only after
\* one of them, or one before them, was re-downloaded or crashed (its second
\* release frees the lock of the next job).
SingleFlight == Cardinality(Active) > 1 => ReleasesTwice # {}

\* A blocking load is watched for critical RAM until it ends, unless another
\* thread dropped "loading" (a refused request, a job that is ending).
WatchedWhileLoading == \A j \in Loads : watchdog[j] = "left" => j \in blind

\* One load at a time, and watched.
LoadsGuarded == SingleFlight /\ WatchedWhileLoading

\* "Demo mock (reachable only when SUDO_DEMO_MOCK=1, see guard above)": without
\* that mode the text is streamed only if the model was taken away, or refused
\* another load, between the guard and the generator.
MockOnlyWhenHidden == mocked \subseteq hidden

\* The load lock is given back by every end of a loader, its crash included: the
\* runtime does not answer 409 for ever, unless a loader's thread could not be
\* started.
LockFreed == lock ~> ~lock \/ \E j \in Jobs : job[j] = "unstarted"
=============================================================================

------------------------------ MODULE ExecProcs ------------------------------
(* The tracked processes of the agent (exec.js) and the tools that use them *)
(* (tools.js: exec_start, exec_poll, exec_stop, gen_check).  All sessions    *)
(* share one table.  Output is left out: of a record the model keeps what   *)
(* tells how the process ended.  A kill may leave the process alive (Windows, *)
(* an uninterruptible call): the code provides for it.                       *)
EXTENDS Integers, FiniteSets

CONSTANTS
    Procs,     \* processes, numbers taken in order
    MaxProcs   \* MAX_PROCS

VARIABLES
    record,    \* of each process: none yet, in procs, or no longer
    lifeTimer, \* rec.timer: the life of the process, then the grace of its kill
    finished, timedOut, killed,   \* rec.done, rec.timedOut, rec.killed
    exitCode,  \* rec.exitCode
    os,        \* the process: none, alive, or over with its event to come
    status,    \* history: how it ended
    check,     \* the gen_check that awaits it, and its verdict
    stolen     \* history: records forgotten otherwise than by their own poll

recVars  == <<record, lifeTimer, finished, timedOut, killed, exitCode>>
execVars == <<recVars, os, status, check, stolen>>

ExecInit ==
    /\ record = [p \in Procs |-> "none"] /\ lifeTimer = [p \in Procs |-> "off"]
    /\ finished = {} /\ timedOut = {} /\ killed = {} /\ stolen = {}
    /\ exitCode = [p \in Procs |-> "null"]
    /\ os = [p \in Procs |-> "none"] /\ status = [p \in Procs |-> "null"]
    /\ check = [p \in Procs |-> "none"]

Table == {p \in Procs : record[p] = "kept"}
Unused(p) == record[p] = "none" /\ \A q \in Procs : record[q] = "none" => p <= q

-----------------------------------------------------------------------------
(* The operating system.                                                    *)

\* What killTree does to the processes in K.
KillTree(K) == \E deaf \in SUBSET {p \in K : os[p] = "alive"} :
    LET dead == {p \in K : os[p] = "alive"} \ deaf
    IN /\ os' = [p \in Procs |-> IF p \in dead THEN "over" ELSE os[p]]
       /\ status' = [p \in Procs |-> IF p \in dead THEN "signal" ELSE status[p]]

Exits(p) ==
    /\ os[p] = "alive" /\ os' = [os EXCEPT ![p] = "over"]
    /\ \E c \in {"zero", "other"} : status' = [status EXCEPT ![p] = c]
    /\ UNCHANGED <<recVars, check, stolen>>

-----------------------------------------------------------------------------
(* exec.js.                                                                 *)

\* startProc, for exec_start or for a gen_check, which begins to wait; a shell
\* that cannot be started is told of by an error event.
Start(p, waits) ==
    /\ Unused(p) /\ Cardinality(Table) < MaxProcs
    /\ record' = [record EXCEPT ![p] = "kept"] /\ lifeTimer' = [lifeTimer EXCEPT ![p] = "life"]
    /\ \/ os' = [os EXCEPT ![p] = "alive"] /\ UNCHANGED status
       \/ os' = [os EXCEPT ![p] = "over"] /\ status' = [status EXCEPT ![p] = "unstarted"]
    /\ check' = [check EXCEPT ![p] = IF waits THEN "waits" ELSE "none"]
    /\ UNCHANGED <<finished, timedOut, killed, exitCode, stolen>>

\* Mutant of Settles: the exit is noted, its code is not.
SettlesMute(p) == finished' = finished \cup {p} /\ UNCHANGED exitCode

\* What a settling event writes.
Settles(p) ==
    /\ finished' = finished \cup {p}
    /\ exitCode' = [exitCode EXCEPT ![p] = IF status[p] \in {"zero", "other"}
                                           THEN status[p] ELSE "null"]

\* The exit or the error event; a later one than the forced end is ignored.
Event(p) ==
    /\ os[p] = "over" /\ os' = [os EXCEPT ![p] = "none"]
    /\ IF p \in finished THEN UNCHANGED <<finished, exitCode, lifeTimer>>
       ELSE /\ Settles(p)
            /\ lifeTimer' = [lifeTimer EXCEPT ![p] = IF @ = "life" THEN "off" ELSE @]
    /\ UNCHANGED <<record, timedOut, killed, status, check, stolen>>

\* Mutant of TimeLimit: the exit event is relied on.
TimeoutTrusting(p) ==
    /\ lifeTimer[p] = "life" /\ lifeTimer' = [lifeTimer EXCEPT ![p] = "off"]
    /\ timedOut' = timedOut \cup {p} /\ killed' = killed \cup {p}
    /\ KillTree({p})
    /\ UNCHANGED <<record, finished, exitCode, check, stolen>>

\* The life of the process is over ...
TimeLimit(p) ==
    /\ lifeTimer[p] = "life" /\ lifeTimer' = [lifeTimer EXCEPT ![p] = "grace"]
    /\ timedOut' = timedOut \cup {p} /\ killed' = killed \cup {p}
    /\ KillTree({p})
    /\ UNCHANGED <<record, finished, exitCode, check, stolen>>

\* ... and two seconds later it counts as done, whatever the kill did.
GraceOver(p) ==
    /\ lifeTimer[p] = "grace" /\ lifeTimer' = [lifeTimer EXCEPT ![p] = "off"]
    /\ finished' = finished \cup {p}
    /\ UNCHANGED <<record, timedOut, killed, exitCode, os, status, check, stolen>>

\* stopProc, by exec_stop or when the turn of a gen_check is aborted.
Stop(p) ==
    /\ p \in Table \ finished
    /\ killed' = killed \cup {p} /\ KillTree({p})
    /\ lifeTimer' = [lifeTimer EXCEPT ![p] = IF @ = "life" THEN "off" ELSE @]
    /\ UNCHANGED <<record, finished, timedOut, exitCode, check, stolen>>

\* reapProcs at the end of a poll of p: every finished record is forgotten.
Forget(p) ==
    /\ record' = [q \in Procs |-> IF q \in Table \cap finished THEN "gone" ELSE record[q]]
    /\ stolen' = stolen \cup ((Table \cap finished) \ {p})

\* exec_poll of a finished process (no tool tells the id of a gen_check's).
Poll(p) ==
    /\ check[p] = "none" /\ p \in Table \cap finished /\ Forget(p)
    /\ UNCHANGED <<lifeTimer, finished, timedOut, killed, exitCode, os, status, check>>

\* A code 0 is a success, after a stop as well, but not after a timeout.
GoodCheck(p) == p \notin timedOut /\ exitCode[p] = "zero"

\* gen_check polls until the process does not run: it is finished, or its
\* record is gone, which counts as a failure.
CheckPolls(p) ==
    /\ check[p] = "waits" /\ p \notin Table \ finished
    /\ check' = [check EXCEPT ![p] = IF p \in Table /\ GoodCheck(p) THEN "passed" ELSE "failed"]
    /\ Forget(p)
    /\ UNCHANGED <<lifeTimer, finished, timedOut, killed, exitCode, os, status>>

\* stopAll, when the server stops.
StopAll ==
    /\ Table # {} /\ killed' = killed \cup (Table \ finished)
    /\ KillTree(Table \ finished)
    /\ lifeTimer' = [p \in Procs |-> IF p \in Table /\ lifeTimer[p] = "life" THEN "off" ELSE lifeTimer[p]]
    /\ record' = [p \in Procs |-> IF p \in Table THEN "gone" ELSE record[p]]
    /\ stolen' = stolen \cup Table
    /\ UNCHANGED <<finished, timedOut, exitCode, check>>

-----------------------------------------------------------------------------
ProcStep(p) ==
    \/ Start(p, TRUE) \/ Start(p, FALSE) \/ Exits(p) \/ Event(p)
    \/ TimeLimit(p) \/ GraceOver(p) \/ Stop(p) \/ Poll(p) \/ CheckPolls(p)
ExecNext == StopAll \/ \E p \in Procs : ProcStep(p)

ExecSpec == ExecInit /\ [][ExecNext]_execVars

-----------------------------------------------------------------------------
\* The variables keep their types.
ExecTypeOK ==
    /\ record \in [Procs -> {"none", "kept", "gone"}]
    /\ lifeTimer \in [Procs -> {"off", "life", "grace"}]
    /\ {finished, timedOut, killed, stolen} \subseteq SUBSET Procs
    /\ exitCode \in [Procs -> {"null", "zero", "other"}]
    /\ os \in [Procs -> {"none", "alive", "over"}]
    /\ status \in [Procs -> {"null", "zero", "other", "signal", "unstarted"}]
    /\ check \in [Procs -> {"none", "waits", "passed", "failed"}]

\* A check that ended well and was not killed is not reported as failed, unless
\* the poll of another process forgot its record between two of its polls (or
\* the server stopped); and none is reported as passed that did not end well.
CheckVerdictTrue == \A p \in Procs :
    /\ check[p] = "passed" => status[p] = "zero"
    /\ check[p] = "failed" /\ status[p] = "zero" => p \in killed \cup stolen

\* No process is forgotten while it runs, except one whose kill it survived.
NoOrphan == \A p \in Procs : record[p] = "gone" /\ os[p] = "alive" => p \in killed

\* "total-life timeout": a process that goes on for the model has an end in
\* sight, the event of its exit or a timer, also when its exit is never told;
\* only one that was stopped may have none (the stop clears the timer).
EndInSight == \A p \in Table \ finished :
    lifeTimer[p] # "off" \/ os[p] = "over" \/ p \in killed \ timedOut

\* No process is lost: neither to the table while it runs, nor to time.
NoneLost == NoOrphan /\ EndInSight
=============================================================================

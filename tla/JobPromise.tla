----------------------------- MODULE JobPromise -----------------------------
(* What the file of a job promises to whoever reads it after a stop, a     *)
(* crash or a restart: a step that is done stays done, and a job is closed *)
(* once, when no step is left open.                                        *)
CONSTANT Steps

VARIABLES
    outcome,  \* of each step
    closed    \* the job is finished

vars == <<outcome, closed>>

Outcomes == {"open", "done", "failed", "skipped"}

\* Done is final; anything else may still change before the job is closed.
Keeps == \A s \in Steps : outcome[s] = "done" => outcome'[s] = "done"

Init == outcome = [s \in Steps |-> "open"] /\ closed = FALSE

\* Steps are tried, retried or put back; none is given up.
Work ==
    /\ ~closed /\ closed' = FALSE
    /\ outcome' \in [Steps -> Outcomes \ {"skipped"}]
    /\ Keeps

\* The job is closed; what nobody tried is given up.
Close ==
    /\ ~closed /\ closed' = TRUE
    /\ outcome' \in [Steps -> Outcomes \ {"open"}]
    /\ Keeps

Next == Work \/ Close

Spec == Init /\ [][Next]_vars
=============================================================================

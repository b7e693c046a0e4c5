------------------------------- MODULE JobRun -------------------------------
(***************************************************************************)
(* One job of sudo-agent (job.js) run by turns of its project (the project *)
(* run part of toolsTurn in loop.js).  The job lives in a file; a turn     *)
(* loads it, runs the steps that are left, one child turn each, and saves  *)
(* the file around every step.  Turns are stopped, the process dies, saves *)
(* fail without a word, and a later turn resumes from the file.            *)
(*                                                                         *)
(* planSteps puts a requirement in at most one step, so the coverage of    *)
(* the requirements of a step is kept here per step.                       *)
(***************************************************************************)
EXTENDS Naturals

CONSTANTS
    Runners,      \* sessions of the project whose turns may run the job
    N,            \* number of steps
    MaxAttempts,  \* budgets.attempts
    MaxRuns,      \* bound: turns that load the job
    None

Steps == 1 .. N

VARIABLES
    disk,     \* the job file
    mem,      \* the state each turn works on
    pc,       \* where the turn is
    at,       \* the step its loop is at
    stop,     \* runEntry.aborted of the turn
    runs,     \* turns that loaded the job so far (bound)
    fails,    \* failed results of each step (history)
    lost      \* a write of the file failed (history)

vars == <<disk, mem, pc, at, stop, runs, fails, lost>>

Marks == {"pending", "running", "done", "failed", "skipped"}
Cover == {"todo", "fait", "echec", "non fait"}
Closed == {"done", "partial", "failed"}
Jobs == [status : {"proposed", "running", "stopped"} \cup Closed,
         mark : [Steps -> Marks], attempts : [Steps -> Nat], cover : [Steps -> Cover]]

ASSUME JobAssumption ==
    /\ N \in Nat \ {0}
    /\ MaxAttempts \in Nat \ {0}
    /\ MaxRuns \in Nat
    /\ None \notin Jobs

\* freshState, saved when the plan is proposed.
Init ==
    /\ disk = [status |-> "proposed", mark |-> [s \in Steps |-> "pending"],
               attempts |-> [s \in Steps |-> 0], cover |-> [s \in Steps |-> "todo"]]
    /\ mem = [r \in Runners |-> None]
    /\ pc = [r \in Runners |-> "idle"]
    /\ at = [r \in Runners |-> 1]
    /\ stop = [r \in Runners |-> FALSE]
    /\ runs = 0
    /\ fails = [s \in Steps |-> 0]
    /\ lost = FALSE

-----------------------------------------------------------------------------
(* Helpers.                                                                *)

Goto(r, p) == pc' = [pc EXCEPT ![r] = p]

\* resumable: what "lancer" and "reprendre" pick up.
Resumable(job) == job.status \in {"proposed", "running", "stopped"}

\* save: the file is replaced, or the write fails and nobody is told.
Write(job) ==
    \/ disk' = job /\ UNCHANGED lost
    \/ UNCHANGED disk /\ lost' = TRUE

\* The state of the turn changes and is written to the file.
Save(r, job) ==
    /\ mem' = [mem EXCEPT ![r] = job]
    /\ Write(job)

\* Mutant of Retryable: one attempt too many.
RetryableOnce(job, s) ==
    \/ job.mark[s] = "pending"
    \/ job.mark[s] = "failed" /\ job.attempts[s] <= MaxAttempts

\* Steps a run takes up.
Retryable(job, s) ==
    \/ job.mark[s] = "pending"
    \/ job.mark[s] = "failed" /\ job.attempts[s] < MaxAttempts

\* Mutant of Recovered: what was interrupted stays "running".
AsFound(job) == job.mark

\* A step found running was interrupted: it is to be done again.
Recovered(job) ==
    IF job.status \in {"running", "stopped"}
    THEN [s \in Steps |-> IF job.mark[s] = "running" THEN "pending" ELSE job.mark[s]]
    ELSE job.mark

\* The state as the run begins, and as one attempt of a step does.
Opened(job) == [job EXCEPT !.status = "running", !.mark = Recovered(job)]
Begun(job, s) == [job EXCEPT !.mark[s] = "running", !.attempts[s] = @ + 1]

\* Mutant of GivenUp: the steps that were not tried are not marked.
LeftOpen(job) == job

\* The budget of the run is spent: what is pending is given up.
GivenUp(job) ==
    [job EXCEPT !.mark = [s \in Steps |-> IF job.mark[s] = "pending" THEN "skipped" ELSE job.mark[s]]]

\* Mutant of Judged: the last attempt but one already counts as the last.
JudgedEarly(job, s, ok) ==
    [job EXCEPT !.mark[s] = IF ok THEN "done" ELSE "failed",
                !.cover[s] = IF ok THEN "fait" ELSE
                             IF job.attempts[s] + 1 >= MaxAttempts THEN "non fait" ELSE "echec"]

\* Outcome of a step that answered, and the coverage it leaves.
Judged(job, s, ok) ==
    [job EXCEPT !.mark[s] = IF ok THEN "done" ELSE "failed",
                !.cover[s] = IF ok THEN "fait" ELSE
                             IF job.attempts[s] >= MaxAttempts THEN "non fait" ELSE "echec"]

\* The turn was stopped: the step is to be done again.
PutBack(job, s) == [job EXCEPT !.mark[s] = "pending"]

\* Steps whose mark is one of m.
Count(job, m) == {s \in Steps : job.mark[s] \in m}

\* Mutant of FinalStatus: the name of the event instead of the status.
EventStatus(job, aborted) == IF aborted THEN "aborted" ELSE "done"

\* countSteps has three classes: done, failed and the rest.
FinalStatus(job, aborted) ==
    IF aborted THEN "stopped" ELSE
    IF Count(job, Marks \ {"done"}) = {} THEN "done" ELSE
    IF Count(job, {"done"}) = {} THEN "failed" ELSE "partial"

Ended(job, aborted) == [job EXCEPT !.status = FinalStatus(job, aborted)]

-----------------------------------------------------------------------------
(* A turn of the project.                                                  *)

\* "lancer" or "reprendre": the turn loads the job before its first await.
Load(r) ==
    /\ pc[r] = "idle" /\ Resumable(disk) /\ runs < MaxRuns
    /\ mem' = [mem EXCEPT ![r] = disk]
    /\ stop' = [stop EXCEPT ![r] = FALSE]
    /\ runs' = runs + 1
    /\ Goto(r, "loaded")
    /\ UNCHANGED <<disk, lost, at, fails>>

\* The turn was aborted or failed before it got to the job.
Leave(r) ==
    /\ pc[r] = "loaded"
    /\ mem' = [mem EXCEPT ![r] = None]
    /\ Goto(r, "idle")
    /\ UNCHANGED <<disk, lost, at, stop, runs, fails>>

Start(r) ==
    /\ pc[r] = "loaded" /\ ~stop[r]
    /\ Save(r, Opened(mem[r]))
    /\ at' = [at EXCEPT ![r] = 1]
    /\ Goto(r, "loop")
    /\ UNCHANGED <<stop, runs, fails>>

\* The loop finds the turn stopped.
Break(r) ==
    /\ pc[r] = "loop" /\ at[r] <= N /\ stop[r]
    /\ Goto(r, "stopping")
    /\ UNCHANGED <<disk, lost, mem, at, stop, runs, fails>>

Skip(r) ==
    /\ pc[r] = "loop" /\ at[r] <= N /\ ~stop[r] /\ ~Retryable(mem[r], at[r])
    /\ at' = [at EXCEPT ![r] = @ + 1]
    /\ UNCHANGED <<disk, lost, mem, pc, stop, runs, fails>>

\* The time of the whole job is over.
Budget(r) ==
    /\ pc[r] = "loop" /\ at[r] <= N /\ ~stop[r] /\ Retryable(mem[r], at[r])
    /\ mem' = [mem EXCEPT ![r] = GivenUp(mem[r])]
    /\ at' = [at EXCEPT ![r] = N + 1]
    /\ UNCHANGED <<disk, lost, pc, stop, runs, fails>>

\* The attempt is counted and saved before the child turn starts.
Begin(r) ==
    /\ pc[r] = "loop" /\ at[r] <= N /\ ~stop[r] /\ Retryable(mem[r], at[r])
    /\ Save(r, Begun(mem[r], at[r]))
    /\ Goto(r, "step")
    /\ UNCHANGED <<at, stop, runs, fails>>

\* What job.run makes of the answer of stepRunner; a stopped turn puts the
\* step back whatever the child did.
Result(r, ok) ==
    LET s == at[r] IN
    /\ pc[r] = "step"
    /\ IF stop[r]
       THEN /\ Save(r, PutBack(mem[r], s))
            /\ Goto(r, "stopping")
            /\ UNCHANGED <<at, fails>>
       ELSE /\ Save(r, Judged(mem[r], s, ok))
            /\ Goto(r, "loop")
            /\ at' = [at EXCEPT ![r] = @ + 1]
            /\ fails' = IF ok THEN fails ELSE [fails EXCEPT ![s] = @ + 1]
    /\ UNCHANGED <<stop, runs>>

\* The child turn ends: it did something that can be shown, or not.
ChildAnswers(r) == \E ok \in BOOLEAN : Result(r, ok)

\* Mutant of Watchdog: the step is given up only where its turn is stopped.
WatchStopped(r) == stop[r] /\ Result(r, FALSE)

\* The step took msBudget plus 15 s: it counts as failed and the loop goes
\* on, whether or not the child turn has stopped.
Watchdog(r) == Result(r, FALSE)

\* The loop is over: final status and report.
Finish(r) ==
    /\ pc[r] = "stopping" \/ (pc[r] = "loop" /\ at[r] > N)
    /\ Write(Ended(mem[r], pc[r] = "stopping"))
    /\ mem' = [mem EXCEPT ![r] = None]
    /\ Goto(r, "idle")
    /\ UNCHANGED <<at, stop, runs, fails>>

-----------------------------------------------------------------------------
(* The operator's abort, and the death of the process.                     *)

Stop(r) ==
    /\ pc[r] # "idle"
    /\ stop' = [stop EXCEPT ![r] = TRUE]
    /\ UNCHANGED <<disk, lost, mem, pc, at, runs, fails>>

Crash ==
    /\ \E r \in Runners : pc[r] # "idle"
    /\ pc' = [r \in Runners |-> "idle"]
    /\ mem' = [r \in Runners |-> None]
    /\ UNCHANGED <<disk, lost, at, stop, runs, fails>>

-----------------------------------------------------------------------------

Run(r) ==
    \/ Start(r) \/ Break(r) \/ Skip(r) \/ Begin(r) \/ Watchdog(r) \/ Finish(r)

Next ==
    \/ \E r \in Runners : \/ Load(r) \/ Leave(r) \/ Run(r) \/ Budget(r)
                          \/ ChildAnswers(r) \/ Stop(r)
    \/ Crash

\* The code of the run goes on by itself, and the timers of a step fire; the
\* child turn need not answer.
Spec == Init /\ [][Next]_vars /\ \A r \in Runners : WF_vars(Run(r))

-----------------------------------------------------------------------------
(* Properties.                                                             *)

TypeOK ==
    /\ disk \in Jobs
    /\ mem \in [Runners -> Jobs \cup {None}]
    /\ \A r \in Runners : mem[r] = None <=> pc[r] = "idle"
    /\ pc \in [Runners -> {"idle", "loaded", "loop", "step", "stopping"}]
    /\ at \in [Runners -> 1 .. N + 1]
    /\ stop \in [Runners -> BOOLEAN]
    /\ runs \in 0 .. MaxRuns
    /\ fails \in [Steps -> Nat]
    /\ lost \in BOOLEAN

\* The file of a job keeps the promise of JobPromise through stops, crashes,
\* resumptions and failed writes, as long as one turn at a time runs it.
Promise == INSTANCE JobPromise WITH
    outcome <- [s \in Steps |-> IF disk.mark[s] \in {"pending", "running"}
                                THEN "open" ELSE disk.mark[s]],
    closed <- disk.status \in Closed

KeepsPromise == Promise!Spec

\* A step the process died in is found again: the file that shows it running
\* belongs to a job that can be resumed, and resuming puts it back.
InterruptedIsResumable ==
    (\E s \in Steps : disk.mark[s] = "running") => disk.status = "running"

\* No step fails more often than the budget allows, over all the runs, unless
\* the count was lost with a failed write.
FailuresBounded == ~lost => \A s \in Steps : fails[s] <= MaxAttempts

\* Neither a crash nor a stop makes a step lost or tried for ever.
AttemptsAccounted == InterruptedIsResumable /\ FailuresBounded

\* The final table is honest: "fait" is said of done steps and of no other,
\* "non fait" of steps that are given up for good.
CoverageHonest == \A s \in Steps :
    /\ disk.cover[s] = "fait" <=> disk.mark[s] = "done"
    /\ disk.cover[s] = "non fait" => /\ disk.mark[s] = "failed"
                                     /\ disk.attempts[s] >= MaxAttempts

\* A step can never block the rest of the project: a run that began ends.
RunEnds == \A r \in Runners : pc[r] = "loop" ~> pc[r] = "idle"

-----------------------------------------------------------------------------
(* A claim that the code does not keep.                                    *)

\* job.js: "A step left 'running' means the process died INSIDE it": no turn
\* takes up a step that a turn of another session is in.
RunningMeansDead == [][\A q, r \in Runners :
    pc[r] = "loaded" /\ pc'[r] = "loop" /\ pc[q] = "step"
        => mem[r].mark[at[q]] # "running"]_vars

=============================================================================

------------------------------- MODULE OrchRun -------------------------------
(* A long plan run step by step (orch.js) from one file, executed by a turn *)
(* of loop.js, resumed after stops, crashes and failing saves.  One turn    *)
(* executes the plan at a time.  A save that throws ends the execution.     *)
EXTENDS Integers

CONSTANTS
    N,         \* number of steps
    MaxCuts,   \* bound: aborts, crashes and failing saves, of each step
    Nothing    \* null: no file, no state

Steps == 1 .. N

VARIABLES
    orchFile,  \* the file: [status, attempts] of every step, or Nothing
    orchState, \* "state" of runOrchestrated, Nothing between executions
    at,        \* the step of the loop, N + 1 behind it, 0 between executions
    inStep,    \* runStep is awaited
    tries,     \* history: how often each step was handed to runStep
    cuts       \* history: how often each step was left without an outcome

orchVars == <<orchFile, orchState, at, inStep, tries, cuts>>

FreshRun == [status |-> [s \in Steps |-> "pending"], attempts |-> [s \in Steps |-> 0]]

OrchInit ==
    /\ orchFile = Nothing /\ orchState = Nothing /\ at = 0 /\ inStep = FALSE
    /\ tries = [s \in Steps |-> 0] /\ cuts = [s \in Steps |-> 0]

Running == at # 0

ShouldRun(st, s) ==
    \/ st.status[s] = "pending"
    \/ st.status[s] = "failed" /\ st.attempts[s] < 2

\* Mutant of Leave: the awaited step is not given up with the execution.
LeaveInStep == orchState' = Nothing /\ at' = 0 /\ UNCHANGED inStep

\* The execution is over; the file is as it was saved last.
Leave == orchState' = Nothing /\ at' = 0 /\ inStep' = FALSE

\* Bound on what cuts an execution short.
MayCut == \E s \in Steps : cuts[s] < MaxCuts
Cut(s) == cuts[s] < MaxCuts /\ cuts' = [cuts EXCEPT ![s] = @ + 1]

\* saveState of st.
Save(st) == orchFile' = st

-----------------------------------------------------------------------------
\* A plan is begun, or resumed while a step is pending or failed.
Execute ==
    /\ ~Running
    /\ LET st == IF orchFile = Nothing THEN FreshRun ELSE orchFile
       IN /\ \E s \in Steps : st.status[s] \in {"pending", "failed"}
          /\ Save(st) /\ orchState' = st /\ at' = 1
    /\ UNCHANGED <<inStep, tries, cuts>>

InLoop == Running /\ ~inStep /\ at \in Steps

Pass ==
    /\ InLoop /\ ~ShouldRun(orchState, at) /\ at' = at + 1
    /\ UNCHANGED <<orchFile, orchState, inStep, tries, cuts>>

\* The time of the whole run is over: what is left is skipped, for good.
Budget ==
    /\ InLoop /\ ShouldRun(orchState, at)
    /\ orchState' = [orchState EXCEPT !.status =
           [s \in Steps |-> IF ShouldRun(orchState, s) THEN "skipped" ELSE @[s]]]
    /\ at' = N + 1
    /\ UNCHANGED <<orchFile, inStep, tries, cuts>>

Attempt(s) == [status   |-> [orchState.status EXCEPT ![s] = "pending"],
               attempts |-> [orchState.attempts EXCEPT ![s] = @ + 1]]

\* Mutant of BeginStep: the attempt is saved with its outcome only.
BeginUnsaved ==
    /\ InLoop /\ ShouldRun(orchState, at)
    /\ orchState' = Attempt(at) /\ inStep' = TRUE
    /\ tries' = [tries EXCEPT ![at] = @ + 1]
    /\ UNCHANGED <<orchFile, at, cuts>>

\* The attempt is counted and saved before the step is run.
BeginStep ==
    /\ InLoop /\ ShouldRun(orchState, at)
    /\ Save(Attempt(at)) /\ orchState' = Attempt(at) /\ inStep' = TRUE
    /\ tries' = [tries EXCEPT ![at] = @ + 1]
    /\ UNCHANGED <<at, cuts>>

\* The child turn is over (done, failed, or out of time: the timer aborts it)
\* and the step is verified on disk.
StepEnds ==
    /\ inStep /\ inStep' = FALSE
    /\ \E verdict \in {"done", "failed"} :
         LET st == [orchState EXCEPT !.status[at] = verdict]
         IN Save(st) /\ orchState' = st
    /\ at' = at + 1 /\ UNCHANGED <<tries, cuts>>

\* The turn was aborted: the step stays pending and the loop is left.
StepAborted ==
    /\ inStep /\ inStep' = FALSE
    /\ Save(orchState) /\ Cut(at)
    /\ at' = N + 1 /\ UNCHANGED <<orchState, tries>>

\* The report, and a last save.
Report ==
    /\ Running /\ at > N
    /\ Save(orchState) /\ Leave /\ UNCHANGED <<tries, cuts>>

\* saveState throws, where any of the above would save: the outcome is lost.
SaveFails ==
    /\ Running /\ Leave /\ UNCHANGED <<orchFile, tries>>
    /\ \/ inStep /\ Cut(at)
       \/ ~inStep /\ MayCut /\ UNCHANGED cuts

\* The process dies.
OrchCrash ==
    /\ Running /\ Leave /\ UNCHANGED <<orchFile, tries>>
    /\ IF inStep THEN Cut(at) ELSE MayCut /\ UNCHANGED cuts

OrchNext ==
    \/ Execute \/ Pass \/ BeginStep \/ StepEnds \/ Report
    \/ Budget \/ StepAborted \/ SaveFails \/ OrchCrash

OrchSpec == OrchInit /\ [][OrchNext]_orchVars

-----------------------------------------------------------------------------
Statuses == {"pending", "done", "failed", "skipped"}
OrchStates == [status : [Steps -> Statuses], attempts : [Steps -> Nat]]

\* The variables keep their types, and a step is awaited only in the loop.
OrchTypeOK ==
    /\ orchFile \in OrchStates \cup {Nothing} /\ orchState \in OrchStates \cup {Nothing}
    /\ at \in 0 .. N + 1 /\ inStep \in BOOLEAN
    /\ Running => orchFile \in OrchStates /\ orchState \in OrchStates
    /\ inStep => at \in Steps
    /\ tries \in [Steps -> Nat] /\ cuts \in [Steps -> Nat]

\* orch.js "a crash / server stop / panel close resumes where it stopped": the
\* step that is being executed is pending in the file, so that a later
\* execution takes it up whatever its count of attempts.
InterruptedIsPending == inStep => orchFile.status[at] = "pending"

\* A step is handed to the model twice at most, and once more for each time it
\* was cut short, over all executions of the plan.
TriesBounded == \A s \in Steps : tries[s] <= 2 + cuts[s]

\* Every step that is handed to the model is accounted for, through stops,
\* crashes and failing saves: it is neither lost nor repeated without end.
StepsAccounted == InterruptedIsPending /\ TriesBounded
=============================================================================

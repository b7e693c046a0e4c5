-------------------------------- MODULE Undo --------------------------------
(***************************************************************************)
(* Checkpoints and undo of one sudo-agent session (checkpoints.js, the     *)
(* executeTool and ensureSeriesCheckpoint parts of tools.js, POST /undo in *)
(* server.js).  A series is the mutating calls of one turn or of one       *)
(* direct call.  Before its first call the project is copied; when the     *)
(* series ends a sidecar names the files it created; an undo writes the    *)
(* copy back, deletes the files the sidecar names and, when every hash     *)
(* matches, drops the copy.                                                *)
(*                                                                         *)
(* Two series may be open at once: an approved call without a paused turn  *)
(* runs beside a turn (AgentServer), and an undo that passed its check     *)
(* before its body arrived may run in the middle of one.                   *)
(***************************************************************************)
EXTENDS Sequences, Naturals, FiniteSets, Functions

CONSTANTS
    Series,     \* turns and direct calls with a mutating call
    Files,      \* paths in the project
    Contents,   \* what a file may hold
    Big,        \* contents above the stored size: a hash, no copy
    Absent

ASSUME SeriesAssumption == IsFiniteSet(Series)

ASSUME FilesAssumption ==
    /\ Big \subseteq Contents
    /\ Absent \notin Contents

VARIABLES
    hidden,     \* files under the directories the walk skips (.git, ...)
    project,    \* the files on disk
    phase,      \* of each series
    stack,      \* snapshots on disk, oldest first
    before,     \* project when the snapshot of a series was taken, while it is kept
    made,       \* run.created: files the series created
    recorded,   \* series whose sidecar is on disk
    mixed,      \* series that were open together with another (history)
    clean       \* since the oldest snapshot every new file is on record (history)

vars == <<hidden, project, phase, stack, before, made, recorded, mixed, clean>>

Projects == [Files -> Contents \cup {Absent}]
Phases == {"idle", "open", "closed"}

Nowhere == [f \in Files |-> Absent]
Exists(f) == project[f] # Absent
Stacked(s) == s \in Range(stack)

Init ==
    /\ hidden \in SUBSET Files
    /\ project \in Projects
    /\ phase = [s \in Series |-> "idle"]
    /\ stack = <<>>
    /\ before = [s \in Series |-> Nowhere]
    /\ made = [s \in Series |-> {}]
    /\ recorded = {}
    /\ mixed = {}
    /\ clean = TRUE

-----------------------------------------------------------------------------
(* A series.                                                               *)

\* Mutant of Fresh: run.checkpointed is not set.
NotOver(s) == phase[s] # "closed"

\* A series takes one snapshot.
Fresh(s) == phase[s] = "idle"

\* ensureSeriesCheckpoint, before the first mutating call; the name starts
\* with the number of snapshots, so the new one is listed last.
Checkpoint(s) ==
    /\ Fresh(s)
    /\ phase' = [phase EXCEPT ![s] = "open"]
    /\ before' = [before EXCEPT ![s] = project]
    /\ stack' = Append(stack, s)
    /\ clean' = (clean \/ stack = <<>>)
    /\ LET beside == {t \in Series : phase[t] = "open"}
       IN mixed' = mixed \cup (IF beside = {} THEN {} ELSE beside \cup {s})
    /\ UNCHANGED <<hidden, project, made, recorded>>

\* Mutant of Note: a created file is not put on record.
NoteNothing(s, f) == s \in Series /\ f \in Files /\ UNCHANGED made

\* executeTool adds what the handler created to run.created.
Note(s, f) == made' = [made EXCEPT ![s] = @ \cup {f}]

\* write, append to a new file, patch with a new file.
Create(s, f, c) ==
    /\ phase[s] = "open" /\ ~Exists(f)
    /\ project' = [project EXCEPT ![f] = c]
    /\ Note(s, f)
    /\ clean' = (clean /\ Stacked(s))
    /\ UNCHANGED <<hidden, phase, stack, before, recorded, mixed>>

\* edit, append, patch, delete: the file is there.
Change(s, f, v) ==
    /\ phase[s] = "open" /\ Exists(f)
    /\ project' = [project EXCEPT ![f] = v]
    /\ clean' = (clean /\ f \notin hidden)
    /\ UNCHANGED <<hidden, phase, stack, before, made, recorded, mixed>>

\* rename refuses an existing target; the target counts as created.
Rename(s, f, g) ==
    /\ phase[s] = "open" /\ Exists(f) /\ ~Exists(g)
    /\ project' = [project EXCEPT ![f] = Absent, ![g] = project[f]]
    /\ Note(s, g)
    /\ clean' = (clean /\ Stacked(s) /\ f \notin hidden)
    /\ UNCHANGED <<hidden, phase, stack, before, recorded, mixed>>

\* A patch creates one file and fails on the next: the handler answers
\* without its created list.
BreakPatch(s, f, c) ==
    /\ phase[s] = "open" /\ ~Exists(f)
    /\ project' = [project EXCEPT ![f] = c]
    /\ clean' = FALSE
    /\ UNCHANGED <<hidden, phase, stack, before, made, recorded, mixed>>

\* The operator's editor or a shell command of the agent: nothing is noted.
Outside(f, v) ==
    /\ project[f] # v
    /\ project' = [project EXCEPT ![f] = v]
    /\ clean' = (clean /\ Exists(f) /\ f \notin hidden)
    /\ UNCHANGED <<hidden, phase, stack, before, made, recorded, mixed>>

\* The series ends and saves its sidecar (saveRunSidecar).
Finish(s) ==
    /\ phase[s] = "open"
    /\ phase' = [phase EXCEPT ![s] = "closed"]
    /\ recorded' = recorded \cup {s}
    /\ UNCHANGED <<hidden, project, stack, before, made, mixed, clean>>

\* finishAborted and the turn.error exit leave without a sidecar.
Abort(s) ==
    /\ phase[s] = "open"
    /\ phase' = [phase EXCEPT ![s] = "closed"]
    /\ clean' = (clean /\ (Stacked(s) => made[s] = {}))
    /\ UNCHANGED <<hidden, project, stack, before, made, recorded, mixed>>

\* The agent process dies: every open series ends without a sidecar.
Crash ==
    /\ \E s \in Series : phase[s] = "open"
    /\ phase' = [s \in Series |-> IF phase[s] = "open" THEN "closed" ELSE phase[s]]
    /\ clean' = (clean /\ \A s \in Range(stack) : phase[s] = "open" => made[s] = {})
    /\ UNCHANGED <<hidden, project, stack, before, made, recorded, mixed>>

-----------------------------------------------------------------------------
(* POST /undo and restoreSnapshot.                                         *)

\* What the walk saw, and what the sidecar names.
Snap(s) == [f \in Files |-> IF f \in hidden THEN Absent ELSE before[s][f]]
Created(s) == IF s \in recorded THEN made[s] ELSE {}

\* Files the restore has to write: known to the snapshot and different now.
Stale(s) == {f \in Files : Snap(s)[f] # Absent /\ project[f] # Snap(s)[f]}

\* Files it has to delete: on record, not in the snapshot, there now.
Extra(s) == {f \in Created(s) : Snap(s)[f] = Absent /\ Exists(f)}

\* Those it can write back: the copy was stored and the disk lets it.
Writable(s, locked) == {f \in Stale(s) \ locked : Snap(s)[f] \notin Big}

Restored(s, locked) ==
    [f \in Files |-> IF f \in Writable(s, locked) THEN Snap(s)[f] ELSE
                     IF f \in Extra(s) \ locked THEN Absent ELSE project[f]]

\* Mutant of Verified: a file that was never stored is not counted.
NoErrors(s, locked) == (Stale(s) \cup Extra(s)) \cap locked = {}

\* No error and nothing unverified.
Verified(s, locked) ==
    Stale(s) = Writable(s, locked) /\ Extra(s) \cap locked = {}

\* Mutant of Target: the oldest snapshot whatever the scope.
Oldest(scope) == Head(stack)

Target(scope) == IF scope = "session" THEN Head(stack) ELSE stack[Len(stack)]

Rest(scope) == IF scope = "session" THEN <<>> ELSE SubSeq(stack, 1, Len(stack) - 1)

Undo(scope, locked) ==
    /\ stack # <<>>
    /\ LET t == Target(scope) IN
       /\ project' = Restored(t, locked)
       /\ stack' = IF Verified(t, locked) THEN Rest(scope) ELSE stack
       /\ before' = [s \in Series |-> IF s \in Range(stack') THEN before[s] ELSE Nowhere]
       /\ clean' = (clean /\ (phase[t] = "open" => made[t] = {})
                          /\ (Verified(t, locked) \/ t = stack[Len(stack)]))
    /\ UNCHANGED <<hidden, phase, made, recorded, mixed>>

-----------------------------------------------------------------------------

Tool(s) ==
    \E f \in Files :
       \/ \E c \in Contents : Create(s, f, c) \/ BreakPatch(s, f, c)
       \/ \E v \in Contents \cup {Absent} : Change(s, f, v)
       \/ \E g \in Files : Rename(s, f, g)

Next ==
    \/ \E s \in Series : Checkpoint(s) \/ Tool(s) \/ Finish(s) \/ Abort(s)
    \/ \E f \in Files, v \in Contents \cup {Absent} : Outside(f, v)
    \/ Crash
    \/ \E scope \in {"last", "session"}, locked \in SUBSET Files : Undo(scope, locked)

Spec == Init /\ [][Next]_vars

-----------------------------------------------------------------------------
(* Properties.                                                             *)

TypeOK ==
    /\ hidden \subseteq Files
    /\ project \in Projects
    /\ phase \in [Series -> Phases]
    /\ stack \in Seq(Series) /\ Len(stack) <= Cardinality(Series)
    /\ before \in [Series -> Projects]
    /\ made \in [Series -> SUBSET Files]
    /\ recorded \subseteq Series
    /\ mixed \subseteq Series
    /\ clean \in BOOLEAN

\* One undo of the last series gives back the project as it was when that
\* series began, whatever it and the operator changed, deleted or renamed
\* since, as long as every new file is on record (test D1).
UndoLastRestores == [][\A s \in Series :
    /\ stack # <<>> /\ s = stack[Len(stack)] /\ s \notin mixed
    /\ stack' = SubSeq(stack, 1, Len(stack) - 1) /\ clean'
    => project' = before[s]]_vars

\* Undone one by one down to the first, the series give back the project the
\* session found, also when some of them ran side by side.
UndoneToFirstRestores == [][
    Len(stack) = 1 /\ stack' = <<>> /\ clean' => project' = before[stack[1]]]_vars

\* History is dropped only after every file of the snapshot is back; a file
\* that could not be stored or written keeps it for another attempt.
HistoryKeptUntilRestored == [][\A s \in Series :
    Stacked(s) /\ s \notin Range(stack') =>
        \E t \in Range(stack) : /\ t \notin Range(stack')
                                /\ \A f \in Files : Snap(t)[f] # Absent => project'[f] = Snap(t)[f]]_vars

-----------------------------------------------------------------------------
(* Claims that the code does not keep.                                     *)

\* Test D2: "undo session reverts every series", one after the other here.
SessionUndoRestores == [][
    /\ stack # <<>> /\ stack' = <<>> /\ clean'
    /\ mixed = {} /\ \A s \in Series : phase[s] # "open"
    => project' = before[stack[1]]]_vars

\* tools.js: the sidecar "records creations for honest undo": a verified undo
\* of a series removes the files its tools created.
CreationsUndone == [][\A s \in Series :
    /\ stack # <<>> /\ s = stack[Len(stack)] /\ s \notin mixed /\ phase[s] = "closed"
    /\ stack' = SubSeq(stack, 1, Len(stack) - 1)
    => \A f \in made[s] : before[s][f] = Absent => project'[f] = Absent]_vars

=============================================================================

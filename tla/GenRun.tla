------------------------------- MODULE GenRun -------------------------------
(* One phased generation (gen.js): the manifest and the backup of each phase *)
(* on disk, run.json, and the way back to a phase. The calls are synchronous, *)
(* but commands of the agent and the operator go on writing while a phase is *)
(* marked, and the process may die, or a write fail, before the mark.        *)
EXTENDS Integers, FiniteSets

CONSTANTS
    GenFiles,    \* files of the project
    Versions,    \* contents that are hashed and backed up
    Large,       \* a content the walk skips (above MAX_FILE_BYTES, or its caps)
    Gone,        \* no file
    LastPhase    \* the phases are 1 .. LastPhase, 0 is "start"

ASSUME GenAssumption ==
    /\ LastPhase \in Nat
    /\ Large # Gone /\ Large \notin Versions /\ Gone \notin Versions

Tags == 0 .. LastPhase

VARIABLES
    tree,      \* the project
    runFile,   \* run.json: none yet, there, or torn by a crash
    next,      \* the phase to mark; those below are in run.phases
    manifest,  \* manifest.<tag>.json
    backup,    \* backup.<tag>/
    gaps,      \* backup.gaps of each tag
    todo,      \* files still to be backed up, while a phase is marked
    marking,   \* markPhase (or startRun) is between its manifest and run.json
    was,       \* history: the project when each manifest was taken
    raced,     \* history: files that changed between a manifest and their backup
    cutShort   \* history: a phase was marked in part

diskVars == <<runFile, next, manifest, backup, gaps>>
genVars  == <<tree, diskVars, todo, marking, was, raced, cutShort>>

Empty == [f \in GenFiles |-> Gone]

GenInit ==
    /\ tree \in [GenFiles -> Versions \cup {Large, Gone}]
    /\ runFile = "none" /\ next = 0
    /\ manifest = [t \in Tags |-> Empty] /\ backup = [t \in Tags |-> Empty]
    /\ gaps = [t \in Tags |-> {}] /\ todo = {} /\ marking = FALSE
    /\ was = [t \in Tags |-> Empty] /\ raced = {} /\ cutShort = FALSE

\* manifestOf.
Seen == [f \in GenFiles |-> IF tree[f] = Large THEN Gone ELSE tree[f]]

-----------------------------------------------------------------------------
(* startRun and markPhase.                                                  *)

\* A tool, a command or the operator changes a file.
Edit(f) ==
    /\ \E c \in Versions \cup {Large, Gone} : tree' = [tree EXCEPT ![f] = c]
    /\ UNCHANGED <<diskVars, todo, marking, was, raced, cutShort>>

\* What is created or modified since the phase before; at the start, all.
Changed == {f \in GenFiles : Seen[f] # Gone /\ (next = 0 \/ Seen[f] # manifest[next - 1][f])}

\* The manifest of the next phase is saved, over one left from a try before.
TakeManifest ==
    /\ ~marking /\ next \in Tags /\ runFile = IF next = 0 THEN "none" ELSE "there"
    /\ marking' = TRUE /\ todo' = Changed
    /\ manifest' = [manifest EXCEPT ![next] = Seen]
    /\ was' = [was EXCEPT ![next] = tree]
    /\ UNCHANGED <<tree, runFile, next, backup, gaps, raced, cutShort>>

\* backupChanged, one file: copied as it is by then, or recorded as a gap (too
\* big, absent, unreadable, beyond the caps, not written).
BackUp(f) ==
    /\ f \in todo /\ todo' = todo \ {f}
    /\ \/ /\ tree[f] \in Versions /\ backup' = [backup EXCEPT ![next] = [@ EXCEPT ![f] = tree[f]]]
          /\ UNCHANGED gaps
       \/ gaps' = [gaps EXCEPT ![next] = @ \cup {f}] /\ UNCHANGED backup
    /\ raced' = IF tree[f] = manifest[next][f] THEN raced ELSE raced \cup {f}
    /\ UNCHANGED <<tree, runFile, next, manifest, marking, was, cutShort>>

\* run.json says that the phase is marked.
WriteRun ==
    /\ marking /\ todo = {}
    /\ marking' = FALSE /\ next' = next + 1 /\ runFile' = "there"
    /\ UNCHANGED <<tree, manifest, backup, gaps, todo, was, raced, cutShort>>

\* The process dies, or a write fails, before run.json is whole. What was
\* written for the phase stays: it will be marked over it. A start is tried
\* again in a directory of its own.
CutShort ==
    /\ marking /\ marking' = FALSE /\ todo' = {}
    /\ gaps' = [gaps EXCEPT ![next] = {}]
    /\ runFile' \in IF todo = {} /\ next > 0 THEN {runFile, "torn"} ELSE {runFile}
    /\ IF next = 0 THEN backup' = [backup EXCEPT ![0] = Empty] /\ UNCHANGED cutShort
                   ELSE cutShort' = TRUE /\ UNCHANGED backup
    /\ UNCHANGED <<tree, next, manifest, was, raced>>

-----------------------------------------------------------------------------
(* restorePhase.                                                            *)

\* Mutant of Newest: only the backup of the phase itself is searched.
NewestOfPhase(t, f) == {k \in {t} : backup[k][f] # Gone}

\* The newest of the backups up to the phase that has f (at most one), and what
\* is read of it, whatever it holds.
Newest(t, f) == {k \in 0 .. t : backup[k][f] # Gone /\ \A j \in k + 1 .. t : backup[j][f] = Gone}
ContentFor(t, f) ==
    IF Newest(t, f) = {} THEN Gone ELSE backup[CHOOSE k \in Newest(t, f) : TRUE][f]

Wanted(t)   == {f \in GenFiles : manifest[t][f] # Gone /\ Seen[f] # manifest[t][f]}
Appeared(t) == {f \in GenFiles : manifest[t][f] = Gone /\ Seen[f] # Gone}

\* Mutant of Missing: the hash of the backup is not compared.
MissingUnhashed(t) == {f \in Wanted(t) : ContentFor(t, f) = Gone}

\* No backup, or not the content of the manifest.
Missing(t) == {f \in Wanted(t) : ContentFor(t, f) # manifest[t][f]}

\* Back to a marked phase, but for the files in "failed". One with gaps, or
\* with too many files to delete, is done on demand only (partial: true); otherwise
\* it is refused and nothing changes.
Restore(t, failed) ==
    /\ ~marking /\ runFile = "there" /\ t < next
    /\ tree' = [f \in GenFiles |->
          IF f \in failed THEN tree[f]
          ELSE IF f \in Wanted(t) \ Missing(t) THEN ContentFor(t, f)
          ELSE IF f \in Appeared(t) THEN Gone ELSE tree[f]]
    /\ UNCHANGED <<diskVars, todo, marking, was, raced, cutShort>>

\* ok, partial: false, no error.
FullRestore(t) ==
    /\ Missing(t) = {} /\ Restore(t, {})

-----------------------------------------------------------------------------
GenNext ==
    \/ \E f \in GenFiles : Edit(f) \/ BackUp(f)
    \/ TakeManifest \/ WriteRun \/ CutShort
    \/ \E t \in Tags : \E failed \in SUBSET GenFiles : Restore(t, failed)

GenSpec == GenInit /\ [][GenNext]_genVars

-----------------------------------------------------------------------------
Copies == Versions \cup {Gone}

\* The variables keep their types.
GenTypeOK ==
    /\ tree \in [GenFiles -> Versions \cup {Large, Gone}]
    /\ runFile \in {"none", "there", "torn"} /\ next \in 0 .. LastPhase + 1
    /\ manifest \in [Tags -> [GenFiles -> Copies]]
    /\ backup \in [Tags -> [GenFiles -> Copies]]
    /\ gaps \in [Tags -> SUBSET GenFiles] /\ todo \subseteq GenFiles
    /\ marking \in BOOLEAN /\ cutShort \in BOOLEAN /\ raced \subseteq GenFiles
    /\ was \in [Tags -> [GenFiles -> Versions \cup {Large, Gone}]]

Told(t) == UNION {gaps[k] : k \in 0 .. t}

\* "real restore points": what a file held when a phase was marked, however many
\* phases ago it was written, is what a restore of that phase finds, or a gap
\* was recorded for it; unless it changed between the manifest and its copy, or
\* a phase was marked in part and left copies that hide older ones.
Restorable == \A t \in 0 .. next - 1 : \A f \in GenFiles :
    was[t][f] \in Versions =>
        ContentFor(t, f) = was[t][f] \/ f \in Told(t) \cup raced \/ cutShort

\* A restore that reports no gap and no error has brought back the project of
\* the phase, through races and half marked phases, but for files that were,
\* or are, too large to be seen (one that has shrunk since is deleted).
RestoreExact == [][\A t \in Tags : FullRestore(t) =>
    \A f \in GenFiles : Large \notin {was[t][f], tree[f]} => tree'[f] = was[t][f]]_genVars
=============================================================================

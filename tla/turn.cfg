SPECIFICATION AnySpec
CONSTANTS
    Series = {s1, s2}
    Files = {src, new}
    Contents = {text, huge}
    Big = {huge}
    Absent = Absent
    MaxIt = 4
    Attempts = 2
    Requests = 2
    Repairs = 1
    Repeats = 2
    MaxFix = 2
    MaxVerify = 1
    MaxSpawns = 1
    MaxFiles = 2
    GenFiles = {f1}
    Versions = {v1, v2}
    Large = Large
    Gone = Gone
    LastPhase = 2
SYMMETRY MCSymmetry
CHECK_DEADLOCK FALSE
INVARIANTS TypesOK VerdictHonest RepeatsBounded Restorable
PROPERTIES UndoLastRestores UndoneToFirstRestores HistoryKeptUntilRestored RestoreExact

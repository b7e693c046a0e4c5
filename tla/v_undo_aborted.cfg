SPECIFICATION Spec
CONSTANTS
    Series = {s1, s2}
    Files = {src, new}
    Contents = {text, huge}
    Big = {huge}
    Absent = Absent
CHECK_DEADLOCK FALSE
PROPERTY CreationsUndone

SPECIFICATION Spec
CONSTANTS
    Runners = {r1, r2}
    N = 2
    MaxAttempts = 2
    MaxRuns = 2
    None = None
CHECK_DEADLOCK FALSE
PROPERTY RunningMeansDead

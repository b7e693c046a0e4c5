SPECIFICATION AnySpec
CONSTANTS
    Runners = {r1}
    N = 3
    MaxAttempts = 2
    MaxRuns = 3
    Sessions = {s1}
    Clients = {c1, c2}
    Kinds = {"message", "direct"}
    Requests = {q1, q2}
    Keys = {edit, deploy}
    Deploys = {deploy}
    Bash = {deploy}
    McpCalls = {}
    Prefixed = {}
    None = None
CHECK_DEADLOCK FALSE
INVARIANTS TypeOK AttemptsAccounted CoverageHonest
PROPERTIES KeepsPromise RunEnds AbortedTurnEnds

SPECIFICATION Spec
CONSTANTS
    N = 3
    MaxCuts = 1
    Nothing = Nothing
    Servers = {1, 2, 3}
    MaxAttempts = 2
    NoServer = NoServer
    Episodes = {e1, e2}
    Threshold = 2
    MaxRestarts = 2
    Window = 2
    Grace = 1
    Moments = {1, 2, 3}
    Callers = {a, b}
    Jobs = {1, 2}
    Procs = {1, 2}
    MaxProcs = 2
    Users = {u1, u2}
    Clients = {1, 2}
    NoClient = NoClient
CHECK_DEADLOCK FALSE
INVARIANTS TypesOK StepsAccounted OneWayOn NoStrayAgent RestartsCapped RestartsOrderly LoadsGuarded MockOnlyWhenHidden CheckVerdictTrue NoneLost TableTrue
PROPERTIES RuntimeComesBack LockFreed EveryUseEnds

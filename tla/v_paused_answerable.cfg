SPECIFICATION Spec
CONSTANTS
    Sessions = {s1}
    Clients = {c1}
    Kinds = {"message"}
    Requests = {r1}
    Keys = {edit}
    Deploys = {}
    Bash = {}
    McpCalls = {}
    Prefixed = {}
    None = None
CHECK_DEADLOCK FALSE
INVARIANT PausedIsAnswerable

SPECIFICATION Spec
CONSTANTS
    Sessions = {s1}
    Clients = {c1, c2}
    Kinds = {"message", "direct"}
    Requests = {r1}
    Keys = {edit}
    Deploys = {}
    Bash = {}
    McpCalls = {}
    Prefixed = {}
    None = None
CHECK_DEADLOCK FALSE
PROPERTY DirectCallRefusedDuringTurn

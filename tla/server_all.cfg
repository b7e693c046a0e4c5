SPECIFICATION Spec
CONSTANTS
    Sessions = {s1}
    Clients = {c1, c2}
    Kinds = {"message", "direct", "mode", "undo"}
    Requests = {r1, r2}
    Keys = {deploy, start, call, tool}
    Deploys = {deploy, start}
    Bash = {deploy}
    McpCalls = {call}
    Prefixed = {tool}
    None = None
SYMMETRY MCSymmetry
CHECK_DEADLOCK FALSE
INVARIANTS TypeOK SingleExecution WaiterMatchesPause DeployNeverRemembered NoStaleEntry LostTurnHasDirect OneLateCall
PROPERTIES SessionRuleHonoured

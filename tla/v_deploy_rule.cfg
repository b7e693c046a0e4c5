SPECIFICATION Spec
CONSTANTS
    Sessions = {s1}
    Clients = {c1}
    Kinds = {"message", "direct"}
    Requests = {r1}
    Keys = {deploy, start}
    Deploys = {deploy, start}
    Bash = {deploy}
    McpCalls = {}
    Prefixed = {}
    None = None
CHECK_DEADLOCK FALSE
INVARIANT DeployApprovedOnce

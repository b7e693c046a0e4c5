SPECIFICATION Spec
CONSTANTS
    Calls = {1, 2}
    Engines = {1}
    Sessions = {1}
    Requests = {1, 2}
    MaxGen = 1
    MaxUpsets = 1
    None = None
CHECK_DEADLOCK FALSE
INVARIANT AnswersItsCard

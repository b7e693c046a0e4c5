SPECIFICATION FairSpec
CONSTANTS
    Calls = {1, 2, 3}
    Engines = {1, 2}
    Sessions = {1, 2}
    Requests = {1}
    MaxGen = 2
    MaxUpsets = 1
    None = None
CHECK_DEADLOCK FALSE
INVARIANTS TypeOK QueueMoves FlagsTrue
PROPERTY PromptSettles

\* Steering locks the oldest pending run while a worker claims.
CONSTANTS
    Sessions <- AllSessions
    Setups <- JustSteered
    Threads = {"t", "u"}
    NoThread = "no_thread"
    NoKey = "no_key"
    Nobody = "nobody"
    MaxRuns = 3
SPECIFICATION Spec
PROPERTIES StartsInOrder
CHECK_DEADLOCK FALSE

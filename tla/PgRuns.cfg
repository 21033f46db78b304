\* Workers that compete for the queue, requests that compete for a thread.
CONSTANTS
    Sessions <- AllSessions
    Setups <- AllSetups
    Threads = {"t", "u"}
    NoThread = "no_thread"
    NoKey = "no_key"
    Nobody = "nobody"
    MaxRuns = 3
SPECIFICATION FairSpec
INVARIANTS IsolationHolds
PROPERTIES KeepsContract TransactionsEnd
CHECK_DEADLOCK FALSE

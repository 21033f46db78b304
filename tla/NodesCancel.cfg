\* A run is cancelled while a bot's chat is under way; the instances are those of Nodes.
CONSTANTS
    Tasks <- AllTasks
    NodeOf <- NodeOfTask
    ArgOf <- ArgOfTask
    Limit = 1
    MaxAttempts = 2
    RetryOn = {"error"}
    InitialInterval = 2
    BackoffFactor = 2
    MaxInterval = 1
    HasTimeout = TRUE
    Threads = {"b"}
    Outcomes = {"mapping", "command", "error", "interrupt"}
    CacheHangs = FALSE
    Supersteps = 2
    Persistences = {"invocation", "stateless"}
    Plan <- ChildFirst
    Asks = TRUE
    MaxRounds = 4
    MaxInputs = 2
    MaxFaults = 2
    MaxRetries = 1
    MaxToolRounds = 2
    Bots <- AllBots
    Patterns <- AllPatterns
SPECIFICATION NodesSpec
INVARIANTS CancelReachesCoze

\* Three agents with a crash each, every conversation of four messages, every
\* two supersteps of updates; three histories of a thread;
\* three savers with two clients, or one that deletes.
CONSTANTS
    look = look
    write = write
    risky = risky
    ghost = ghost
    NoId = NoId
    c1 = c1
    c2 = c2
    Tools <- AllTools
    ReadOnly <- LookOnly
    Unknown = ghost
    EditedCalls <- Edits
    BatchWidth = 2
    StructuredRetries = 1
    Agents <- AllAgents
    HumanSizes = {2, 30}
    AnswerSizes = {2}
    ResultSizes = {2, 30}
    SummarySizes = {5, 60}
    StableTokens = 8
    Limit = 70
    SoftLimit = 30
    MaxOutput = 10
    KeepBlocks = 2
    SummaryMax = 10
    MaxResult = 40
    Cumulative = 20
    KeepResults = 1
    MaxLength = 4
    Stray = "stray"
    MaxSteps = 2
    MaxUpdates = 2
    Clients = {"run", "api"}
    Namespaces = {"main", "sub"}
    Checkpoints = {"c1", "c2"}
    Batches <- AllBatches
    Stores <- AllStores
    MaxOps = 4
    Threads <- AllThreads
    Steps = 2
SPECIFICATION AgentsSpec
INVARIANTS CallsRunAsAllowed EveryCallIsServed RequestIsSound ChannelsAreHistory HistoryIsSerial
PROPERTIES Implements LoopEnds
CHECK_DEADLOCK FALSE

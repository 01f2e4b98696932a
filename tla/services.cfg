CONSTANTS
    Connections = {"k1", "k2"}
    Turn = {t1, t2}
    Client = {"c"}
    Thread = {"w1", "w2"}
    Call = {"c1"}
    Session = {"s1"}
    Writer = {"a", "b"}
    Edit = {"e1", "e2", "e3"}
    User = {"s1", "s2"}
    Ask = {"a1", "a2"}
    Handler = {"h1"}
    ServingRequests = 3
    AuthMode = "token"
    MaxHandlers = 1
    MaxIterations = 2
    MaxOverflow = 1
    MaxTransient = 1
    MaxSettings = 1
    RateRequests = 3
    BurstMax = 2
    Window = 4
    TicksPerSecond = 2
    RateTime = 9
    MaxRuns = 4
    MaxChildren = 2
    PruneAfter = 1
    MaxEntries = 3
    RotateSize = 1
    MaxDisk = 4
    MessageSize = 2
    OtherSize = 1
    MaxGenerations = 2
    MaxSweeps = 2
    UpkeepMessages = 2
    UpkeepTime = 2
    Retain = 1
    Interval = 1
    MaxNodes = 2
    LogRuns = 3
    MaxLives = 2
    MaxCrashes = 1
    MaxChanges = 2
    MaxSignals = 1
    Profiles <- MCProfiles
    Priority <- MCPriority
    ProbeInterval = 30
    FailureWindowDecay = 60
    KeyTick = 30
    KeyTime = 60
    MaxCalls = 4
    Limit = 2
    MaxAnswers = 2
    MaxResets = 1
    HistoryLimit = 8
    CompactMaxMessages = 6
    CompactKeepRecent = 5
    ProtectRecent = 2
    HardPruneAfter = 3
    ContextWindow = 10
    MaxChunkTokens = 4
    Parts = 3
    Compactions = 2
    MaxTurns = 3
    MaxExchanges = 4
    ChatMessages = 2
    MaxSockets = 2
    MaxGiven = 3
    MaxMeddling = 1
    MaxBlocks = 2
    MaxPieces = 2
    Cuts = {1, 3, 8}
    Order <- MCOrder
    Causes = {"disconnected"}
    MaxReloads = 1
SPECIFICATION Spec
SYMMETRY TurnSymmetry
INVARIANTS
    TypeOK
    ServingAgrees
    TurnsAgree
    RatesAgree
    ToolCallsAgree
    NothingIsLost
    ProviderAgrees
    EventLogAgrees
    ConfigAgrees
PROPERTIES
    StepsAgree
CHECK_DEADLOCK FALSE

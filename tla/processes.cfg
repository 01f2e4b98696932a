CONSTANTS
    Clients = {"c1", "c2"}
    Connections = {"k1", "k2"}
    Caller = {"a", "b"}
    ToolCall = {"t1", "t2", "t3"}
    Channel = {"p", "q"}
    Handler = {"h1"}
    Identity = {"soul"}
    Notes = {"day"}
    MaxChildren = 3
    MaxRestarts = 1
    MaxBacklog = 2
    MaxRequests = 2
    AuthMode = "token"
    MaxHandlers = 1
    MaxOpens = 2
    MaxJobs = 1
    ExecWrites = 4
    OutputCap = 3
    MaxProcesses = 4
    MaxTurns = 2
    MaxChanges = 1
    MaxSignals = 1
    Size <- MCSize
    MaxQueuedBytes = 2
    MaxEvents = 1
    MaxWrites = 2
    MaxReloads = 1
SPECIFICATION Spec
INVARIANTS
    TypeOK
    SidecarAgrees
    ClientAgrees
    BackgroundAgrees
    ExecAgrees
    NoStrays
    GatewayAgrees
PROPERTIES
    AnswerIsOwn
    CallsReturn
CHECK_DEADLOCK FALSE

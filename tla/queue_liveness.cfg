SPECIFICATION FairSpec
CONSTANTS
    Sessions = {s1, s2}
    MaxCommands = 3
    Modes = {"collect", "interrupt"}
    LaneSettings <- NoLanes
    Configs <- OneSlot
    Abortable = {s1}
INVARIANTS
    LanesAreServed
    CountIsExact
    NothingRunsWhenStopped
PROPERTIES
    PendingLeaves
    StopTerminates

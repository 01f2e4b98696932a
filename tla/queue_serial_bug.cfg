SPECIFICATION Spec
CONSTANTS
    Sessions = {s1}
    MaxCommands = 2
    Modes = {"collect", "interrupt"}
    LaneSettings <- NoLanes
    Configs <- TwoSlots
    Abortable = {s1}
INVARIANT OneRunPerSession

SPECIFICATION Spec
CONSTANTS
    Sessions = {s1}
    MaxCommands = 2
    Modes = {"collect"}
    LaneSettings <- NoLanes
    Configs <- OneSlot
    Abortable = {}
INVARIANT CollectedAreDelivered

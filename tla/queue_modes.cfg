SPECIFICATION Spec
CONSTANTS
    Sessions = {s1}
    MaxCommands = 3
    Modes = {"collect", "followup", "steer", "steer-backlog", "interrupt"}
    LaneSettings <- NoLanes
    Configs <- TwoSlots
    Abortable = {s1}
INVARIANTS
    TypeOK
    LanesAgree
    TextsDisjoint
    OverlapBound
PROPERTIES
    OldestFirst

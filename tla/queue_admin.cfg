SPECIFICATION Spec
CONSTANTS
    Sessions = {s1, s2}
    MaxCommands = 3
    Modes = {"collect"}
    LaneSettings <- OddLanes
    Configs <- MovingLimit
    Abortable = {}
SYMMETRY Symmetric
PROPERTIES
    CapEnforced
    ImplementsSerial

SPECIFICATION Spec
CONSTANTS
    Keys = {k1}
    Messages = {m1, m2, e1}
    Entries = {e1}
    Long = {m1, m2}
    MaxIds = 3
    MaxInodes = 4
    DiskFails = TRUE
INVARIANTS
    TypeOK
    IndexIsCurrent
    LinesStayWhole
    HistoryIsComplete

SPECIFICATION Spec
CONSTANTS
    Keys = {k1}
    Messages = {m1, e1}
    Entries = {e1}
    Long = {m1, e1}
    MaxIds = 1
    MaxInodes = 1
    DiskFails = FALSE
INVARIANT WritesStayOrdered
CHECK_DEADLOCK FALSE

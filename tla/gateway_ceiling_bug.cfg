SPECIFICATION Spec
CONSTANTS
    Connections = {c1, c2}
    MaxRequests = 2
    AuthMode = "token"
    MaxHandlers = 1
INVARIANTS
    HandlersWithinCeiling

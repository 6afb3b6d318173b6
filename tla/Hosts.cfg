SPECIFICATION Spec
CONSTANTS
    r1 = r1
    r2 = r2
    q1 = q1
    q2 = q2
    Runs <- TwoRuns
    Pings <- TwoRequests
    Retries = 3
    ScriptTimeout = 2
    Grace = 1
    Workers = 1
    MaxCuts = 1
    Endpoints = {e1, e2}
CONSTRAINT OneKind
SYMMETRY Alike
INVARIANTS
    NoOrphan
PROPERTIES
    PromiseKept
    DeletedHostStays
CHECK_DEADLOCK FALSE

SPECIFICATION StreamSpec
CONSTANTS
    t1 = t1
    c1 = c1
    b1 = b1
    Triggered <- OneRun
    Tests <- Nothing
    Cancels <- OneCancel
    MaxScripts = 2
    DiagConcurrency = 1
    MaxRestarts = 1
    Faults = TRUE
    Boards <- OneBoard
    QueueSize = 2
    MaxBreaks = 1
INVARIANTS
    StreamTypeOK
    InOrderOnce
    FirstEventsKept
    ShownIsStored
PROPERTIES
    WatchedRunSettles
CHECK_DEADLOCK FALSE

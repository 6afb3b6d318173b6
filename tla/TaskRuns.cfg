SPECIFICATION Spec
CONSTANTS
    t1 = t1
    t2 = t2
    x1 = x1
    c1 = c1
    c2 = c2
    Triggered <- TwoTriggered
    Tests <- Nothing
    Cancels <- OneCancel
    MaxScripts = 1
    DiagConcurrency = 1
    MaxRestarts = 0
    Faults = TRUE
INVARIANTS
    EventsInOrder
    AnnouncedIsStored
PROPERTIES
    ExecutionsLeave
    ScriptsLeadToDone
CHECK_DEADLOCK FALSE

SPECIFICATION Spec
CONSTANTS
    t1 = t1
    t2 = t2
    x1 = x1
    c1 = c1
    c2 = c2
    Triggered <- OneTriggered
    Tests <- OneTest
    Cancels <- TwoCancels
    MaxScripts = 2
    DiagConcurrency = 1
    MaxRestarts = 1
    Faults = TRUE
INVARIANTS
    TypeOK
    StatusFaithful
    EarlyCancelHonoured
PROPERTIES
    NoScriptAfterCancel
CHECK_DEADLOCK FALSE

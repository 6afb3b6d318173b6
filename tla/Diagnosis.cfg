SPECIFICATION Spec
CONSTANTS
    MaxScripts = 2
INVARIANTS
    TypeOK
    PayloadConsistent
PROPERTIES
    BrokenIsDiagnosed
    PromiseKept
CHECK_DEADLOCK FALSE

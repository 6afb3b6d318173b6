SPECIFICATION Spec
CONSTANTS
    j1 = j1
    j2 = j2
    p1 = p1
    s1 = s1
    r1 = r1
    JsonCalls <- JsonTwo
    PlainCalls <- PlainOne
    StreamCalls <- StreamOne
    ReportCalls <- ReportOne
    LlmSemaphore = 2
    FailureThreshold = 2
    OpenTicks = 1
    MaxTime = 3
INVARIANTS
    TypeOK
    PermitAccounting
    BreakerConsistent
    RateBounded
    FrozenOnlyWhenExhausted
PROPERTIES
    RecoversByProbe
    HoldersReturn
CHECK_DEADLOCK FALSE

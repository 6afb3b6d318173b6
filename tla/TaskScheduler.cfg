SPECIFICATION Spec
CONSTANTS
    k1 = k1
    k2 = k2
    q1 = q1
    q2 = q2
    Tasks <- TwoTasks
    Requests <- TwoRequests
    Valid <- OneValid
    Refused <- OneRefused
    Malformed <- OneMalformed
    MaxStarts = 1
    MaxRestarts = 1
    Faults = TRUE
INVARIANTS
    TypeOK
    JobsFollowRows
PROPERTIES
    DeletedForGood
SYMMETRY Alike
CHECK_DEADLOCK FALSE

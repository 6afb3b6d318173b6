SPECIFICATION Spec
CONSTANTS
    Fields <- BothFields
    Numbers <- OneNumber
    Secrets <- OneSecret
    RowsOnly <- OneRowOnly
    Requests = {r1, r2}
    MaxKeys = 2
    MaxRestarts = 1
INVARIANTS
    TypeOK
    RuntimeFollowsRows
CHECK_DEADLOCK FALSE

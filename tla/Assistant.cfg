SPECIFICATION Spec
CONSTANTS
    Turns = {t1, t2}
    Chats = {c1, c2}
    Saves = {s1, s2, s3}
    Changes = {d1}
    Topics <- TwoTopics
    Alike <- OwnTopic
    Room = 3
    MaxRestarts = 1
CONSTRAINT OneKind
SYMMETRY Alikes
INVARIANTS
    DoneIsStored
    OwnSearch
    SavedIsKept
CHECK_DEADLOCK FALSE

SPECIFICATION Spec
CONSTANTS
    Uploads = {u1, u2}
    Searches = {s1}
    Files <- TextAndPdf
    Seconds = {1}
    MaxSuffixes = 1
    MaxKeys = 1
    TopK = 1
    RrfK = 60
INVARIANTS
    NamesApart
    SearchSound
CHECK_DEADLOCK FALSE

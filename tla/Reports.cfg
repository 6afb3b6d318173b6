SPECIFICATION ReportSpec
CONSTANTS
    Analyses = {a1, a2, a3}
    Texts <- FourTexts
    MaxRestarts = 1
INVARIANTS
    ReportIsWhole
    StuckHasReason
PROPERTIES
    AnalysisEnds
CHECK_DEADLOCK FALSE

\* Two retained lines: the roots of events leave before their members.
CONSTANTS
    None = None
    CompactMinDead = 1
    Line <- MixedLines
    Filter = {{}, {"error"}}
    Interval <- Intervals
    MaxLines = 2
    InputLines = 3
    MaxQueries = 2
    MaxEpoch = 1
SPECIFICATION Spec
INVARIANT OrphansStandAlone
CHECK_DEADLOCK FALSE

\* One retained line: the roots of events leave before their members.
CONSTANTS
    None = None
    CompactMinDead = 1
    Line <- MixedLines
    Filter = {{}, {"error"}}
    Interval <- Intervals
    MaxLines = 1
    InputLines = 3
    MaxQueries = 2
    MaxEpoch = 1
SPECIFICATION Spec
INVARIANT ListsGoWithRoots
CHECK_DEADLOCK FALSE

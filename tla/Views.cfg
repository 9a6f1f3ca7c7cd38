\* Three retained lines of up to four, events with and without hits.
CONSTANTS
    None = None
    CompactMinDead = 1
    Line <- MixedLines
    Filter = {{}, {"error"}}
    Interval <- Intervals
    MaxLines = 3
    InputLines = 4
    MaxQueries = 2
    MaxEpoch = 1
SPECIFICATION Spec
INVARIANTS BaseExact NothingOutOfReach HitsShown
PROPERTY IsFed
CHECK_DEADLOCK FALSE

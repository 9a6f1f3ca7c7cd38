\* A file with a run of frames beyond the cap.
CONSTANTS
    Newline = Newline
    None = None
    SampleSize = 2
    MaxChainLines = 1
    Kinds = {"stamped", "frame"}
    Stream = FALSE
    MaxLines = None
    InputLines = 3
    LineBytes = 1
    MaxChunk = 2
    MaxEpoch = 0
SPECIFICATION Spec
INVARIANT TotalsAddUp
CHECK_DEADLOCK FALSE

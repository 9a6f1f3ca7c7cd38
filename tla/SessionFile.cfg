\* A file: frames and logcat records as events, a cap of two lines, two re-parses.
CONSTANTS
    Newline = Newline
    None = None
    SampleSize = 2
    MaxChainLines = 2
    Kinds = {"stamped", "logcat", "frame", "logfmt", "latin"}
    Stream = FALSE
    MaxLines = None
    InputLines = 5
    LineBytes = 1
    MaxChunk = 3
    MaxEpoch = 1
SPECIFICATION Spec
INVARIANT OneEvent
CHECK_DEADLOCK FALSE

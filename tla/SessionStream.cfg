\* Stdin with two retained lines: eviction, detection hold, chains, re-parses.
CONSTANTS
    Newline = Newline
    None = None
    SampleSize = 3
    MaxChainLines = 1
    Kinds = {"stamped", "frame", "blank", "json"}
    Stream = TRUE
    MaxLines = 2
    InputLines = 4
    LineBytes = 2
    MaxChunk = 3
    MaxEpoch = 1
SPECIFICATION FairSpec
INVARIANTS OwnLine BytesCounted NoLineLost OneEvent
PROPERTIES FeedsViews HeldLinesAppear
CHECK_DEADLOCK FALSE

\* Two retained lines of three, of one event or two: toggling and eviction matter.
SPECIFICATION FairSpec
CONSTANTS
    None = None
    Query = {"all", "some"}
    MaxLines = 2
    InputLines = 3
    MaxActs = 2
    MaxInFlight = 1
    MaxPending = 2
INVARIANT RequestsAnswered
PROPERTIES StoredRowsCurrent TogglesAgree CatchesUp ClosedShown
CHECK_DEADLOCK FALSE

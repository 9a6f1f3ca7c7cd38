SPECIFICATION FairSpec
CONSTANTS
    None = None
    Query = {"all", "some"}
    MaxLines = 1
    InputLines = 2
    MaxActs = 0
    MaxInFlight = 1
    MaxPending = 2
PROPERTY FollowShowsNewest
CHECK_DEADLOCK FALSE

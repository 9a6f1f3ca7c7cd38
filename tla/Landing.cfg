SPECIFICATION FairSpec
CONSTANTS
    None = None
    Sources = {u1, u2}
    Workers = {w1}
    MaxSize = 1
    MaxDrops = 1
    MaxDown = 1
INVARIANTS LocksHeld NotShownAgain
PROPERTY ListCatchesUp
CHECK_DEADLOCK FALSE

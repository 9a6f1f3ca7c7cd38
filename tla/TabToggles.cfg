\* A third act: a toggle, a query and a lost connection in one behaviour.
SPECIFICATION Spec
CONSTANTS
    None = None
    Query = {"all", "some"}
    MaxLines = 2
    InputLines = 3
    MaxActs = 3
    MaxInFlight = 1
    MaxPending = 2
PROPERTY TogglesAgree
CHECK_DEADLOCK FALSE

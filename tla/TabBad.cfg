\* Searches that do not compile among the others.
SPECIFICATION Spec
CONSTANTS
    None = None
    Query = {"all", "some", "bad"}
    MaxLines = 1
    InputLines = 2
    MaxActs = 2
    MaxInFlight = 1
    MaxPending = 2
INVARIANTS RequestsAnswered IInv
PROPERTY StoredRowsCurrent
CHECK_DEADLOCK FALSE

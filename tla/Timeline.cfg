\* Times from a second apart to beyond what the ladder covers, in any order.
CONSTANTS
    None = None
    CompactMinDead = 2
    Times = {0, 10, 400000000}
    SpanEnds = {1, 13}
    Target = 5
    MaxEntries = 5
SPECIFICATION Spec
INVARIANTS SortedAgrees DeadBounded ListsNameRetained EventsCountedOnce FewBuckets OutliersReported
CHECK_DEADLOCK FALSE

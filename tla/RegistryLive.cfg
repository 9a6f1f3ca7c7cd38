\* What must eventually happen, under the fairness of threads and timers.
CONSTANTS
    a1 = a1  u1 = u1  t1 = t1
    None = None
    Argv = {a1}
    Stdin = {}
    Upload = {u1}
    Tabs = {t1}
    Editors = {}
    Budget = 1
    Grace = 1
    MaxHeld = 2
    MaxTime = 2
SPECIFICATION FairSpec
INVARIANT BudgetHonoured
PROPERTIES OrphansUnloaded TabsLearn ClosedReaderStops

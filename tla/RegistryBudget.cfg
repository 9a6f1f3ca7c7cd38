\* A file and two uploads compete for the budget.
CONSTANTS
    a1 = a1  u1 = u1  u2 = u2  t1 = t1
    None = None
    Argv = {a1}
    Stdin = {}
    Upload = {u1, u2}
    Tabs = {t1}
    Editors = {}
    Budget = 2
    Grace = 1
    MaxHeld = 2
    MaxTime = 0
SYMMETRY UploadsAndTabs
SPECIFICATION Spec
INVARIANTS BudgetHonoured AccountedWhenQuiet

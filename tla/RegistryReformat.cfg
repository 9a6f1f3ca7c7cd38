\* A set_format races the reader of its file.
CONSTANTS
    a1 = a1  t1 = t1
    None = None
    Argv = {a1}
    Stdin = {}
    Upload = {}
    Tabs = {t1}
    Editors = {t1}
    Budget = 2
    Grace = 1
    MaxHeld = 2
    MaxTime = 0
SPECIFICATION Spec
INVARIANT AccountedForGood

\* An upload is refused after it has evicted another.
CONSTANTS
    u1 = u1  u2 = u2  t1 = t1
    None = None
    Argv = {}
    Stdin = {}
    Upload = {u1, u2}
    Tabs = {t1}
    Editors = {}
    Budget = 1
    Grace = 1
    MaxHeld = 2
    MaxTime = 0
SPECIFICATION Spec
PROPERTY RefusalTouchesNoOther

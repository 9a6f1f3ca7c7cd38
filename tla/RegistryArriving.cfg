\* A tab comes and goes while an upload is arriving.
CONSTANTS
    u1 = u1  t1 = t1
    None = None
    Argv = {}
    Stdin = {}
    Upload = {u1}
    Tabs = {t1}
    Editors = {}
    Budget = 1
    Grace = 1
    MaxHeld = 1
    MaxTime = 1
SPECIFICATION Spec
INVARIANT ArrivingNeverOrphaned

\* Two uploads that race each other, two tabs, the sweeper and user closes.
CONSTANTS
    u1 = u1  u2 = u2  t1 = t1  t2 = t2
    None = None
    Argv = {}
    Stdin = {}
    Upload = {u1, u2}
    Tabs = {t1, t2}
    Editors = {}
    Budget = 1
    Grace = 1
    MaxHeld = 1
    MaxTime = 2
SYMMETRY UploadsAndTabs
SPECIFICATION Spec
INVARIANTS TabsCounted AcceptedNeverLeaks AccountedWhenQuiet
PROPERTIES GoneIsFinal HeldNeverUnloaded LifecycleSpec

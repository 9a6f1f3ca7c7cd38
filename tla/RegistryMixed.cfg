\* A file, stdin and an upload at once, with a tab that changes the format.
CONSTANTS
    a1 = a1  i1 = i1  u1 = u1  t1 = t1
    None = None
    Argv = {a1}
    Stdin = {i1}
    Upload = {u1}
    Tabs = {t1}
    Editors = {t1}
    Budget = 1
    Grace = 0
    MaxHeld = 1
    MaxTime = 0
SPECIFICATION Spec
INVARIANT IInv

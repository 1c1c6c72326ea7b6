SPECIFICATION Spec
CONSTANTS
    Tabs = {t1}
    Requests = {r1, r2}
    Editors = {e1, e2}
    MaxQueue = 1
    MaxSubscribers = 1
    MaxEdits = 2
    MaxDrops = 1
    MaxFailures = 2
SYMMETRY Alike
INVARIANTS RowsAreCurrent TabsAreCurrent
CHECK_DEADLOCK FALSE

SPECIFICATION Spec
CONSTANTS
    a = a
    b = b
    Tabs = {a, b}
    MaxHistory = 2
    Overlap = FALSE
    MaxSaves = 5
    MaxCrashes = 3
INVARIANTS
    ConfirmedIsFound
    HistoryIsReadable
PROPERTIES
    NeverGoesBack
CHECK_DEADLOCK FALSE

SPECIFICATION Spec
CONSTANTS
    a = a
    b = b
    Editors = {a, b}
    Initial = Initial
    Chunks = 2
    MaxReboots = 1
INVARIANTS
    WholeConfig
    DownloadIsOne
    RecordWasInForce
PROPERTIES
    
    DeployEnds
CHECK_DEADLOCK FALSE

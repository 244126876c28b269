SPECIFICATION Spec
CONSTANTS
    a = a
    b = b
    Calls = {a, b}
    NoCall = NoCall
    Slots = 2
    MaxRetries = 1
    MaxBoots = 2
    StatusBoot <- MCStatusBoot
INVARIANTS
    PendingIsWaiting
PROPERTIES
    
    CallsEnd
CHECK_DEADLOCK FALSE

SPECIFICATION Spec
CONSTANTS
    Targets = 2
    MaxForeign = 1
    MaxReboots = 1

    
    
PROPERTIES
    ReplacesWhatWasRead
CHECK_DEADLOCK FALSE

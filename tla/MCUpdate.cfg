SPECIFICATION FairSpec
CONSTANTS
    Uart = uart
    Udp = udp
    Ble = ble
    Can = can
    None = none
    Chunks = 2
    Previous = previous
    Broken = broken
INVARIANTS
    DiscardedNeverBoots
    
PROPERTIES
    TrialKeepsRollback
    SessionsEnd

SPECIFICATION FairSpec
CONSTANTS
    p1 = p1
    p2 = p2
    Ports = {p1, p2}
    Owners = {1, 2, 3}
    MixedPorts = {p2}
    MaxOwners = 2
    Threads = {t1, t2}
    NumSlots = 2
    MaxSequence = 2
    NoRequest = NoRequest
    Supported <- MCSupported
    Requests <- MCRequests
INVARIANTS
    ClaimsCompatible
    OneThreadPerModule
    CallsReachLiveContext
    EventsEndBeforeContext
    
PROPERTY SlotsComeBack

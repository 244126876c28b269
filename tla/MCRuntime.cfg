SPECIFICATION FairSpec
CONSTANTS
    p1 = p1
    Ports = {p1}
    Owners = {1, 2, 3}
    MixedPorts = {}
    MaxOwners = 3
    NumSlots = 3
    MaxSequence = 1
    NoRequest = NoRequest
    Nobody = Nobody
    Worker = w
    Callers = {c1}
    Hosts = {h1}
    Commandable = {0}
    MaxJobs = 2
    MaxQueue = 1
    MaxDepth = 1
    Supported <- MCSupported
    Requests <- MCRequests
    Installed <- MCInstalled
    Configurations <- MCConfigurations
INVARIANTS
    StoppedIsQuiet
    RulesOutliveDispatch
    NoLostWakeup
PROPERTY StopCompletes

SPECIFICATION FairSpec
CONSTANTS
    Adapters = {usb, can}
    Requests <- MCRequests
    Provisioners = {provisioner}
    Inflight = 1
    Window = 1
    None = None
    owner = owner
    provisioner = provisioner
INVARIANTS
    AnswerIsForRequest
    SlotsOwned
PROPERTIES
    
    RequestsAnswered

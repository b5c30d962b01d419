CONSTANTS
    Clients = {c1, c2}
    Docs = {d1}
    LeaseRaces = TRUE
    LateClients = FALSE
    MaxRequests = 1
    MaxPushes = 0
    MaxErrors = 0
    ClientQueue = 1
    UpstreamQueue = 2
SPECIFICATION Spec
INVARIANT DocumentsInSync

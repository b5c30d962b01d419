CONSTANTS
    Clients = {c1, c2}
    Docs = {}
    LeaseRaces = TRUE
    LateClients = FALSE
    MaxRequests = 2
    MaxPushes = 1
    MaxErrors = 1
    ClientQueue = 1
    UpstreamQueue = 1
SPECIFICATION FairSpec
PROPERTY EveryRequestAnswered

CONSTANTS
    Clients = {c1, c2}
    Docs = {d1}
    LeaseRaces = FALSE
    LateClients = FALSE
    MaxRequests = 2
    MaxPushes = 1
    MaxErrors = 1
    ClientQueue = 1
    UpstreamQueue = 2
SPECIFICATION Spec
SYMMETRY Symmetry
INVARIANTS TypeOK RepliesReachTheirAsker RequestsConserved OneHandshake
           OneClientAnswers DocumentsInSync

CONSTANTS
    Callers = {r1, r2}
    MaxOthers = 1
    Outbound = 1
SPECIFICATION ReadingPeer
INVARIANTS TypeOK NobodyWaitsOnADeadReader WokenFindsItSettled
PROPERTIES CallsReturn IsARemoteCall

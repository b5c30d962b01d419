CONSTANTS
    Connectors = {c1, c2}
    Brokers = {b1, b2}
    None = None
    AtomicUnlink = TRUE
    LiveLeasesAge = TRUE
    MaxCrashes = 0
SPECIFICATION Spec
PROPERTY LeaseOutlivesDeadline

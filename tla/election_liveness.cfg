CONSTANTS
    Connectors = {c1}
    Brokers = {b1, b2}
    None = None
    AtomicUnlink = FALSE
    LiveLeasesAge = TRUE
    MaxCrashes = 1
SPECIFICATION FairSpec
INVARIANT VerdictIsTrue
PROPERTY NeverWedged

CONSTANTS
    Connectors = {c1, c2}
    Brokers = {b1, b2}
    None = None
    AtomicUnlink = TRUE
    LiveLeasesAge = FALSE
    MaxCrashes = 1
SPECIFICATION Spec
SYMMETRY Symmetry
INVARIANTS TypeOK SingleBroker ListenerIsPublished
PROPERTY KeyHasOneOwner

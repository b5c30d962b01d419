CONSTANTS
    Callers = {r1}
    MaxOthers = 2
    Outbound = 1
SPECIFICATION FairSpec
PROPERTY CallsReturn

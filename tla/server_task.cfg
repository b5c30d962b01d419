CONSTANTS
    Docs = {d1, d2}
    Asks = {a1, a2}
    MaxTokens = 2
    Capacity = 2
    Allowances <- Scenarios
    RestartLimit = 2
    HangLimit = 2
    TimeoutDeathLimit = 2
SPECIFICATION FairSpec
INVARIANTS TypeOK NoMisappliedChange SyncedWhenQuiet AttachedIsReplayed
           AsksConserved OneRunningPerDocument ShownStateIsTrue
           DeathsOpenTheCircuit
PROPERTIES RequestsSeeTheirText AsksAnswered RetiredTasksEnd
CHECK_DEADLOCK FALSE

CONSTANTS
    Empty = Empty
    Neat = Neat
    Loose = Loose
    Texts = {Empty, Neat, Loose}
    Blank = Empty
    Tidy <- Trim
    UndoLimit = 2
    Requests = {r1, r2}
    MaxSessions = 2
    Allowances <- Scenarios
SPECIFICATION Spec
INVARIANTS HistoryFits UnsavedTextIsKept
PROPERTY NoSilentOverwrite

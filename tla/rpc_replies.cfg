CONSTANTS
    MaxAsks = 2
    MaxOthers = 1
    Outbound = 1
    Inbox = 1
    Pipe = 1
SPECIFICATION FairSpec
INVARIANTS TypeOK RepliesInOrder EveryAskHasOneAnswer
PROPERTY AsksAreAnswered

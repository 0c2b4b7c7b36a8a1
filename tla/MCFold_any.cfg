SPECIFICATION FairSpec
CONSTANTS
    TruncationStep = 4
    MaxTierN = 0
    MaxContinue = 2
    MaxIndex = 0
    MaxEvents = 2
    Usages <- MCTruncated
    Ordered = FALSE
INVARIANTS
    TypeOK
    ReplayIsWhatWasShown
    ConnectedClientGetsEnd
PROPERTIES
    NoRoundForLostClient
    IsOneResponse
    LeavingEndsHandler
    HandlerReturns

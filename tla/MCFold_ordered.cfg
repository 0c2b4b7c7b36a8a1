SPECIFICATION Spec
CONSTANTS
    TruncationStep = 4
    MaxTierN = 1
    MaxContinue = 1
    MaxIndex = 2
    MaxEvents = 6
    Usages <- MCUsages
    Ordered = TRUE
INVARIANTS
    OutputIndexIsPosition
    FinalAnswerWhole
    IdentityStable
    ContinuationsWarranted
    BilledCoversReported
    TruncationAlwaysReported

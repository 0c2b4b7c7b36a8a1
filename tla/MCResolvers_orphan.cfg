SPECIFICATION Spec
CONSTANTS
    d1 = d1
    d2 = d2
    Domains <- MCDomains
    Lists <- TwoLists
    MaxEdits = 1
    MaxFaults = 1
    MaxMissed = 0
    MaxForeign = 0
INVARIANTS
    OffCleans

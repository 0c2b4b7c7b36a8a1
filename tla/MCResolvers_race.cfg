SPECIFICATION Spec
CONSTANTS
    d1 = d1
    d2 = d2
    Domains <- MCDomains
    Lists <- OneList
    MaxEdits = 0
    MaxFaults = 0
    MaxMissed = 0
    MaxForeign = 1
PROPERTIES
    ForeignKept

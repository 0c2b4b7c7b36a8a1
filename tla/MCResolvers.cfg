SPECIFICATION FairSpec
CONSTANTS
    d1 = d1
    d2 = d2
    Domains <- MCDomains
    Lists <- TwoLists
    MaxEdits = 1
    MaxFaults = 2
    MaxMissed = 1
    MaxForeign = 1
INVARIANTS
    TypeOK
    DownMeansClean
    OffCleansButOrphans
    UpMeansInstalled
PROPERTIES
    ForeignKeptButRaces
    StopIsHeeded

SPECIFICATION Spec
CONSTANTS
    r1 = r1
    r2 = r2
    Requests <- MCRequests
    KindsOf <- MCKindsOf
    LeafDays = 2
    MarginDays = 1
    MaxCAs = 2
    MaxChunks = 1
    MaxSignals = 1
    MaxCrashes = 1
    MaxFaults = 1
INVARIANTS
    ProperEndIsWhole

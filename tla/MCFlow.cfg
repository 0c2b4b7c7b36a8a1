SPECIFICATION FairSpec
CONSTANTS
    codex = codex
    curl = curl
    nobody = nobody
    noPeer = noPeer
    real = real
    fake = fake
    mapped = mapped
    Processes <- MCProcesses
    Nobody <- nobody
    WantedSets <- MCWanted
    TTL = 1
    MaxFailures = 3
    MaxBytes = 2
    Modes <- MCModes
    Addresses <- MCAddresses
    FakeIPs <- MCFakeIPs
    Unmap <- MCUnmap
    NoPeer <- noPeer
CHECK_DEADLOCK FALSE
INVARIANTS
    TypeOK
    RightUpstream
    FirstEndIsWhole
PROPERTIES
    FlowEnds

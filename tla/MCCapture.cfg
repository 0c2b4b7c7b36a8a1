CONSTANTS
    c1 = c1  c2 = c2  c3 = c3
    Clients = {c1, c2, c3}
    Names <- MCNames
    Domains <- MCDomains
    DomainSuffixes <- MCSuffixes
    AllowHosts <- MCAllow
    PoolSize = 2
    MaxLives = 2
SPECIFICATION Spec
SYMMETRY Interchangeable
INVARIANTS TypeOK VerdictHolds ReachesWanted

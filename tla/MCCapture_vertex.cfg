CONSTANTS
    c1 = c1  c2 = c2  c3 = c3
    Clients = {c1}
    Names <- MCNames
    Domains <- MCDomains
    DomainSuffixes <- MCSuffixes
    AllowHosts <- MCAllow
    PoolSize = 2
    MaxLives = 1
SPECIFICATION Spec
PROPERTY CapturedIsServed

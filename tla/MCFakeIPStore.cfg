SPECIFICATION FairSpec
CONSTANTS
    w1 = w1
    w2 = w2
    a = a
    b = b
    c = c
    Workers = {w1, w2}
    Hosts <- MCHosts
    Names <- MCNames
    Canonical <- MCCanonical
    Modulus = 4
    Base = 0
    Size = 4
INVARIANTS
    TypeOK
    MapsAgree
    OneAnswer
PROPERTIES
    LookupFindsAnswer
    IsHostMap
    CallsReturn

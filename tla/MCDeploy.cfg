SPECIFICATION Spec
CONSTANTS
    local = local
    built = built
    root = root
    noPlace = noPlace
    Exes <- MCExes
    Root <- root
    NoPlace <- noPlace
    Versions <- MCVersions
    Configs <- MCConfigs
    MaxCommands = 4
    MaxFaults = 2
CHECK_DEADLOCK FALSE
INVARIANTS
    TypeOK
    SuccessIsReal
    NothingTorn

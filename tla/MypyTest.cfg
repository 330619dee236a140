\* Every choice of paths to test and to exclude, two version/platform pairs, failing pools.
CONSTANTS
    d1 = d1  d2 = d2  x1 = x1  x2 = x2
    Dist = {d1, d2}
    Tree <- MCTree
    VERSIONS <- MCVERSIONS
    Configs <- MCConfigs
    Args <- MCArgs
    ReqSets = {{}, {x1}, {x1, x2}}
    Codes <- MypyCodes
SPECIFICATION Spec
INVARIANTS
    SuccessMeansChecked
    PassedWithRequirements
    KeysAgree
PROPERTIES
    SessionEnds
CHECK_DEADLOCK FALSE

\* All requirement graphs over three packages, one edit at any time, set-ups that fail.
CONSTANTS
    p1 = p1  p2 = p2  me = me  x1 = x1
    Stdlib = Stdlib
    MypyExtensions = me
    Pkg = {p1, p2, me}
    External = {x1}
    Cases <- MCCases
    Supported = {7, 8}
    PackageLists <- MCPackageLists
    VersionLists <- MCVersionLists
    Codes = {0, 1, 2}
    MaxRev = 2
SPECIFICATION Spec
INVARIANTS
    TypeOK
    IsolatedEnvironment
    PairsShareSnapshot
    SuccessMeansTested
CHECK_DEADLOCK FALSE

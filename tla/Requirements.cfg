\* Every requirement graph over three packages; the stack holds as many calls as there are packages.
CONSTANTS
    p1 = p1  p2 = p2  p3 = p3  x1 = x1  x2 = x2
    Pkg = {p1, p2, p3}
    External = {x1}
    RecursionLimit = 3
SPECIFICATION Spec
INVARIANTS
    TypeOK
    CacheIsClosure
PROPERTIES
    CallReturns
CHECK_DEADLOCK FALSE

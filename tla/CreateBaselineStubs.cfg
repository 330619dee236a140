\* Runs for two projects of two packages, interrupted and repeated at will.
CONSTANTS
    k1 = k1  k2 = k2
    tests = tests  attrs = attrs  mock = mock  pillow = pillow  Pillow = Pillow
    Name = {tests, attrs, mock, pillow, Pillow}
    Key <- Keys
    Project = {attrs, pillow}
    Package = {k1, k2}
    Lists <- AllLists
    MaxLines = 5
SPECIFICATION Spec
INVARIANTS
    TypeOK
    DoneMeansExcluded
    EntriesKept
PROPERTIES
    InsertKeepsOrder
    ListedOnce
    CommasKept
    RunEnds
CHECK_DEADLOCK FALSE

\* Up to three releases of every kind, one of them made, yanked or tagged between awaits.
CONSTANTS
    d1 = d1
    Dist = {d1}
    dist = d1
    NoLongerUpdated = {}
    MaxVersion = 3
    MaxNotes = 1
    FileLists <- MCFileLists
SPECIFICATION TaskSpec
PROPERTIES
    ImplementsDecision
    TaskEnds
CHECK_DEADLOCK FALSE

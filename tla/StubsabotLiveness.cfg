\* One CI runner, two distributions of which one is no longer updated, no failures.
CONSTANTS
    d1 = d1  d2 = d2  m1 = m1  m2 = m2  None = None
    Dist = {d1, d2}
    NoLongerUpdated = {d2}
    AllTyped = {}
    MaxVersion = 3
    MaxNotes = 0
    Machine = {m1}
    Disposable = {m1}
    Levels = {3}
    Limits = {9}
    Overlap = FALSE
    EnvActs = {"release", "merge", "commit"}
    Failures = {}
    MaxPrs = 2
SPECIFICATION Spec
PROPERTIES
    RunEnds
    ReleaseProposed

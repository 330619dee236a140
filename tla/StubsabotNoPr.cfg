\* One CI runner, one distribution; a call to GitHub fails.
CONSTANTS
    d1 = d1  d2 = d2  m1 = m1  m2 = m2  None = None
    Dist = {d1}
    NoLongerUpdated = {}
    AllTyped = {}
    MaxVersion = 2
    MaxNotes = 0
    Machine = {m1}
    Disposable = {m1}
    Levels = {3}
    Limits = {9}
    Overlap = FALSE
    EnvActs = {"release"}
    Failures = {"api"}
    MaxPrs = 2
SPECIFICATION Spec
PROPERTIES
    NoPrRequired

\* One CI runner, one distribution; everything people do on GitHub; failing tasks, lost calls and lost runners.
CONSTANTS
    d1 = d1  d2 = d2  m1 = m1  m2 = m2  None = None
    Dist = {d1}
    NoLongerUpdated = {}
    AllTyped = {}
    MaxVersion = 3
    MaxNotes = 1
    Machine = {m1}
    Disposable = {m1}
    Levels = {3}
    Limits = {1}
    Overlap = FALSE
    EnvActs = {"release", "annotate", "merge", "close", "reopen", "delete", "commit", "amend", "land"}
    Failures = {"task", "api", "push", "crash"}
    MaxPrs = 2
SPECIFICATION Spec
INVARIANTS
    PrDescribesBranch
PROPERTIES
    HumanCommitsSurvive
    DeclinedNotReopened

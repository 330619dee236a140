\* One clone, two distributions (one typed from its first release), action levels up to fork, with and without a count limit; commits that fail.
CONSTANTS
    d1 = d1  d2 = d2  m1 = m1  m2 = m2  None = None
    Dist = {d1, d2}
    NoLongerUpdated = {}
    AllTyped = {d2}
    MaxVersion = 2
    MaxNotes = 0
    Machine = {m1}
    Disposable = {}
    Levels = {0, 1, 2}
    Limits = {0, 9}
    Overlap = FALSE
    EnvActs = {"release", "land"}
    Failures = {"commit"}
    MaxPrs = 1
SPECIFICATION Spec
INVARIANTS
    TypeOK
    OneDistributionPerCommit
    OriginalBranchRestored
    ProposalChangesMetadata
PROPERTIES
    ActionLevelsHonoured

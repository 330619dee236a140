\* Every situation, every combination of exit codes, an interrupt anywhere.
CONSTANTS
    Codes <- MCCodes
SPECIFICATION Spec
INVARIANTS
    GreenMeansChecked
    SummaryAgrees
    SkipsAreExplained
CHECK_DEADLOCK FALSE

\* Specifiers and versions of up to three numbers, post-releases included.
CONSTANTS
    Specs <- MCSpecs
    Versions <- MCVersions
SPECIFICATION Spec
INVARIANTS
    RaisesOnlyForPost
PROPERTIES
    SpecificityKept
    NeverLowered
CHECK_DEADLOCK FALSE

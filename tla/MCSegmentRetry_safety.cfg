SPECIFICATION Spec
CONSTANTS
    Exits <- ThreeExits
    PlanIds = {0, 1, 2, 7}
    MaxSegments = 2
    MaxAttempts = 3
    Outcomes <- UnreliableOutcomes
    RemoveMayFail = TRUE

INVARIANTS
    TypeOK
    RepeatOnlyWhenAllFailed

PROPERTIES
    ImplementsPartFetch

SPECIFICATION FairSpec
CONSTANTS
    Exits <- ThreeExits
    PlanIds = {0, 1, 2}
    MaxSegments = 2
    MaxAttempts = 3
    Outcomes <- OneReliableOutcomes
    RemoveMayFail = FALSE

INVARIANTS
    ReliableExitWins
    NoLeftoverPart

PROPERTIES
    ReliableFetchSucceeds

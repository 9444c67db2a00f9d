SPECIFICATION Spec
CONSTANTS
    Exits <- ThreeExits
    PlanIds = {0, 1, 2}
    MaxSegments = 1
    MaxAttempts = 3
    RemoveMayFail = FALSE
    Local = {2}
    Listing = {1}
    Limited = {1}
    Path <- OneWillingPath

INVARIANT RetryCannotSucceed

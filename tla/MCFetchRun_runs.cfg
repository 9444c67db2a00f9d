SPECIFICATION Spec
CONSTANTS
    PlanIds = {1}
    MaxSegments = 2
    Slots = {a, b}
    a = a
    b = b
    Paths = {x}
    x = x
    MaxRuns = 3
    MaxVersion = 2

INVARIANTS
    TypeOK
    AssemblyReadsCompleteParts
    SuccessIsWhole
    DigestPinsVersion
SYMMETRY Symmetry

SPECIFICATION Spec
CONSTANTS
    Neighbours = {a, x}
    Allowed = {a}
    Connections = {c1, c2}
    Limited = TRUE
    MaxBytes = 2
    Window = 2
    MaxCarry = 2
    MaxTime = 3
    a = a
    x = x
    c1 = c1
    c2 = c2
INVARIANTS
    TypeOK
    OvershootBounded
    LedgerIsTheWindow
    OnlyCheckedOrigins
PROPERTIES
    RefusalIsJustified
SYMMETRY Symmetry

SPECIFICATION Spec
CONSTANTS
    Neighbours = {a}
    Allowed = {a}
    Connections = {c1}
    Limited = TRUE
    MaxBytes = 1
    Window = 4
    MaxCarry = 1
    MaxTime = 4
    a = a
    c1 = c1
PROPERTY TrafficIsAccounted

SPECIFICATION Spec
CONSTANTS
    Unset = Unset
    Dirs = {d1, d2}
    d1 = d1
    d2 = d2
    DefaultDir = d1
    Endpoints = {e1, e2}
    e1 = e1
    e2 = e2
    DefaultAdmin = e1
    MaxWord = 15
    Mib = 4
    Hour = 3
    DefaultMib = 2
    DefaultHours = 2
    Amounts = {0, 1, 6}
    MaxStarts = 2
    MaxEdits = 2

INVARIANTS
    TypeOK
    SidecarAsConfigured
    ServesTheListed
    QuotaAsAsked
PROPERTIES
    BindsOwnAddress

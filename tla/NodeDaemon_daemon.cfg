SPECIFICATION FairSpec
CONSTANTS
    MaxBoots = 3

INVARIANTS
    TypeOK
    NoSidecarOutlivesDaemon
    IdentitySurvives

PROPERTIES
    DeathEndsTheDaemon
    ShutdownEndsTheDaemon
    OverlayWaitEnds

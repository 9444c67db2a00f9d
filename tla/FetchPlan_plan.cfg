SPECIFICATION FairSpec
CONSTANTS
    Exits = {1, 2, 3}
    MaxSize = 9
    MaxWeight = 4
    MaxPerExit = 3
    MaxMinimum = 3

INVARIANTS
    TypeOK
    EveryByteOnce
    LargeSharesAlwaysPlan
    KeepsTheStrongest
PROPERTY PlannerEnds

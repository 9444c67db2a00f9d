SPECIFICATION Spec
CONSTANTS
    Ids = {1, 2, 3}
    MaxWeight = 3
    MaxDemand = 4
    MaxCapacity = 7
INVARIANTS
    TypeOK
    NeverOversubscribed
    WorkConserving
    MaxMinFair
    OnePassSuffices

SPECIFICATION FairSpec
CONSTANTS
    MaxBoots = 1

PROPERTY AbortsOnShutdown

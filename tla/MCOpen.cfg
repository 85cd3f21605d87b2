CONSTANTS
    MaxBlocks = 4
    FlushInterval = 2
    MaxCrashes = 3
    IdOrder <- Order
SPECIFICATION FairSpec
INVARIANTS StateRecovered ChainSurvives
PROPERTY AlwaysReopens

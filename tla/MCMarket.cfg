SPECIFICATION Spec
CONSTANTS
    Owners = {1, 2}
    Prices = {3, 12}
    Rates = {6}
    Amounts = {1, 4}
    Precision = 12
    DustLimit = 2
    ShortPeriod = 2
    Year = 2
    Books <- MCBooks
    MaxOperations = 3
    MaxBlocks = 3
INVARIANTS XTSAccountedFor USDBacked LimitPricesRespected NotCrossed NeverCaught OpenedAboveWater
CHECK_DEADLOCK FALSE

SPECIFICATION FairSpec
CONSTANTS
    AAPL = AAPL
    TSLA = TSLA
    Tickers = {AAPL, TSLA}
    Intervals = {"1m"}
    MaxPositions = 1
    MaxOrders = 3
    Scenes <- CrashOnly
PROPERTIES
    OrphansCancelled

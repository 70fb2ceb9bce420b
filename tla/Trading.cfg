SPECIFICATION FairSpec
CONSTANTS
    AAPL = AAPL
    TSLA = TSLA
    Tickers = {AAPL, TSLA}
    Intervals = {"1m"}
    MaxPositions = 2
    MaxOrders = 3
    Scenes <- TradingScenes
INVARIANTS
    TypeOK
    Agreement
    EveryLegOwned
    ProtectionMonitored
    NeverExecutedTwice
    JournalBacked
PROPERTIES
    ReconcileAgrees
    RowsFollowAccount
    ExitRecorded
    BracketResolved

\* A queue of depth 2 over two tickers, five sequence numbers.
SPECIFICATION FairSpec
CONSTANTS
    AAPL = AAPL
    TSLA = TSLA
    MaxDepth = 2
    MaxSeq = 5
    Requests <- MCRequests
INVARIANTS
    TypeOK
    Bookkeeping
PROPERTIES
    SellsAreKept
    ImplementsBuffer
    EveryOrderLeaves
    ShutdownEnds

\* Three tasks and four kinds of endpoint, one of them unthrottled.
SPECIFICATION FairSpec
CONSTANTS
    Tasks = {drain, tick1, tick2}
    drain = drain
    tick1 = tick1
    tick2 = tick2
    Endpoints = {"orders_stop", "account_cash", "orders_cancel", "free"}
    Unthrottled = {"orders_cancel"}
    Gap <- MCGap
PROPERTIES
    GapRespected
    WaitEnds

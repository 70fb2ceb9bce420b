CONSTANTS
    StopDistance = 4  TargetDistance = 6  Slippage = 0  Commission = 1
    BarUnits = 2
    Models <- MCModels
    Crons <- MCCrons
    Threads = {"t1", "t2"}
    Scenes <- MCScenes
    Period = 4  Margin = 1  Day = 8  MarketOpen = 1  MarketClose = 6
    Sessions = {0, 2}  Fridays = {2}  Horizon = 24
SPECIFICATION Spec
INVARIANTS LevelsHonoured TradesInSequence RowsTrue ScheduleFollowsSettings EveryCloseServed
PROPERTIES SettledStaysSettled EveryRunSettles OnlyLaterCloses
CHECK_DEADLOCK FALSE

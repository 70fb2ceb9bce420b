CONSTANTS
    Yaml <- MCYaml
    Threads = {"t1", "t2"}
    Models = {"a", "b"}
    MinTrades = 2  MinPnl <- MCMinPnl
    Own <- MCOwn
    QueueMax = 2
    MinLevel <- MCMinLevel
    Intervals = {"1m", "1d"}
    IntervalOf <- MCIntervalOf
    Short = {"1m"}
    Scenes <- MCScenes
SPECIFICATION Spec
INVARIANTS VotesEnd WindowIsJournal EpisodesTold
PROPERTIES NoLostSetting RetiredForCause AlertsGoOut
CHECK_DEADLOCK FALSE

\* Two versions, two attempts; six scenes.
SPECIFICATION FairSpec
CONSTANTS
    LastVersion = 2
    MaxAttempts = 2
    MaxRows = 2
    Scenes <- SyncScenes
INVARIANTS
    ServedWhole
    RecordIsTrue
PROPERTIES
    OnlyFaultyFails
    ActiveInstalled
    Deployed

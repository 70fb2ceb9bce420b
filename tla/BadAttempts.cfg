\* The network of version 2 is stored apart and cannot be downloaded.
SPECIFICATION FairSpec
CONSTANTS
    LastVersion = 2
    MaxAttempts = 2
    MaxRows = 2
    Scenes <- UnreachableOnly
PROPERTIES
    DeployedOrGivenUp
CHECK_DEADLOCK FALSE

SPECIFICATION FairSpec
CONSTANTS
    Job <- MCOne
    Stem <- MCOneStem
    FolderOf <- MCOneFolder
    NoStem = NoStem
    NoJob = NoJob
    MaxPriority = 1
    Gate = "claim"
    MaxKills = 1
    MaxStops = 1
    LostRetries = 2
    MaxPosts = 3
    Releasing = TRUE
PROPERTIES
    CancelledIsFiled
    RunningIsSettled
    QueueMoves

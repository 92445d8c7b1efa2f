SPECIFICATION Spec
CONSTANTS
    Job <- MCJob
    Stem <- MCStem
    FolderOf <- MCFolder
    NoStem = NoStem
    NoJob = NoJob
    MaxPriority = 0
    Gate = "claim"
    MaxKills = 1
    MaxStops = 0
    LostRetries = 2
    MaxPosts = 3
    Releasing = FALSE
INVARIANTS
    OneRunning
    PostsBoundedByBlindDeaths
PROPERTIES
    NoClipOverwritten
    Lifecycle

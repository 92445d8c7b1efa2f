SPECIFICATION FairSpec
CONSTANTS
    Job <- MCJob
    Stem <- MCStem
    FolderOf <- MCFolder
    NoStem = NoStem
    NoJob = NoJob
    MaxPriority = 0
    Gate = "llm"
    MaxKills = 1
    MaxStops = 1
    Pid = {p1, p2}
    NoPid = NoPid
INVARIANTS
    OneGeneration
PROPERTIES
    RunningIsSettled

SPECIFICATION Spec
CONSTANTS
    Proc = {p1, p2}
    NoProc = NoProc
    Steps = 2
    MaxTail = 2
SYMMETRY MCSymmetry
INVARIANTS
    OneContext
    WorkIsKept
    TailIsTheClips
    WatchHonest

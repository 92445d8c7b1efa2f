SPECIFICATION Spec
CONSTANTS
    NTasks = 2
    MaxFaults = 1
    MaxStatusErrors = 2
INVARIANTS
    OneCopy
    NoneAbandoned
    OneOnEngine
PROPERTIES
    NeverAttached
    WorkerReturns

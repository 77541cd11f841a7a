SPECIFICATION FairSpec
CONSTANTS
    Callers = {main, actuation}
    Actuation = actuation
    MaxCalls = 2
    MaxWorkers = 3
INVARIANTS
    NoDanglingWorker
    CountsArriveInOrder
    SetupInOrder
PROPERTIES
    ReportArrives
CHECK_DEADLOCK FALSE

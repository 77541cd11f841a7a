SPECIFICATION Spec
CONSTANTS
    Callers = {main, timer}
    Actuation = actuation
    MaxCalls = 2
    MaxWorkers = 3
INVARIANTS
    NoDanglingWorker
CHECK_DEADLOCK FALSE

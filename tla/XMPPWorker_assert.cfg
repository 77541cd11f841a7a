SPECIFICATION Spec
CONSTANTS
    Transactions = {t1}
    NoTransaction = NoTransaction
    MaxStarts = 1
    MaxSpurious = 0
INVARIANTS
    StartFindsWorkerRunning
CHECK_DEADLOCK FALSE

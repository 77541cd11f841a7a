SPECIFICATION FairSpec
CONSTANTS
    Transactions = {t1, t2, t3}
    NoTransaction = NoTransaction
    MaxStarts = 2
    MaxSpurious = 1
INVARIANTS
    StoppedIsQuiet
    DrainedIsSent
PROPERTIES
    ImplementsOutbox
    CallsReturn
    QueuedIsSentOrWorkerExits
CHECK_DEADLOCK FALSE

SPECIFICATION FairSpec
CONSTANTS
    Modes = {TRUE, FALSE}
    Sensors = {0, 1}
    size_ = 3
    START_FRAME = 1
    END_FRAME = 2
    Rows = 2
    Files <- Fitting
    Blank = Blank
    Missing = Missing
    MaxFrames = 4
    MaxBatch = 4
    MaxInterrupts = 2
    MaxBrownOuts = 2
    MaxMisreads = 1
INVARIANTS
    FramesAreThoseOfTheFile
    NoFrameIsLost
    OnlyHastyInterruptMisuses
    UnfitFramesAreFew
PROPERTIES
    FileModeEnds
    ReadIsProcessed
    BrownOutIsRepaired
CHECK_DEADLOCK FALSE

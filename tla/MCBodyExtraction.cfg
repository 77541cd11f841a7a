SPECIFICATION Spec
CONSTANTS
    Cols = 5
    Rows = 2
    histSize = 7
    Zero = 1
    Frames <- AllFrames
    EmptyFrames <- Doorway
    BACKGROUND_FRAMES = 2
    Background <- WarmEnd
    BodyWarmth = 1
    CheckLen = 2
    MIN_BODY_DIFF = 1
    MIN_BODY_AREA = 20
    MAX_BODY_AREA = 60
    MaxIndex = 2
INVARIANTS
    
    ContoursAreComponents
    BodiesAreTheBiggest
    LowestCutIsUsed
    CentreIsAtThePeak
    SidesAreSymmetric
CHECK_DEADLOCK FALSE

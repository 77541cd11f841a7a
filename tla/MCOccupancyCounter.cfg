SPECIFICATION Spec
CONSTANTS
    HISTORY_LENGTH = 5
    WINDOW_SIZE = 1
    TRAJECTORY_LENGTH = 3
    DETECTION_DELAY = 1
    BACKGROUND_FRAMES = 0
    START_FRAME = 1
    END_FRAME = 6
    OPOSITE_DIRECTION = TRUE
    MatchDelay = 2
    LookBack = 1
    Cols = 8
    PeopleAtStart = 2
    Scenes <- AllScenes
INVARIANTS
    CountIsNetOfCrossings
    NobodyCountedBothWays
    AtMostTwoUncounted
PROPERTIES
    DirectedTrackIsCounted
    UncountedDropsAreStale
    NewcomersCancelOut
    
CHECK_DEADLOCK FALSE

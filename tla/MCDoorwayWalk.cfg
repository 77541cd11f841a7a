SPECIFICATION WalkSpec
CONSTANTS
    HISTORY_LENGTH = 6
    WINDOW_SIZE = 1
    TRAJECTORY_LENGTH = 100
    DETECTION_DELAY = 2
    BACKGROUND_FRAMES = 3
    START_FRAME = 1
    END_FRAME = 14
    OPOSITE_DIRECTION = FALSE
    MatchDelay = 2
    LookBack = 2
    Cols = 8
    PeopleAtStart = 0
    Scenes <- AllViews
    MinSighting = 1
    Gap = 2
    MaxAge = 5
    MaxVisits = 2
    MaxGlitches = 1
INVARIANTS
    CountFollowsTruth
CHECK_DEADLOCK FALSE

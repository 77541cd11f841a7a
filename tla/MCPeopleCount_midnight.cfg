SPECIFICATION Spec
CONSTANTS
    PeopleAtStart = 2
    Changes <- NobodyCrosses
    Offsets = {2}
    Stamps = {s1, s2}
    Junk = {x}
    NoStamp = NoStamp
    MaxFrames = 1
    MaxRequests = 0
    MaxMidnights = 1
    MaxReconnects = 0
INVARIANTS
    MidnightResets
CHECK_DEADLOCK FALSE

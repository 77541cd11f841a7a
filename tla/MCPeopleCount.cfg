SPECIFICATION Spec
CONSTANTS
    PeopleAtStart = 0
    Changes <- BothWays
    Offsets = {2}
    Stamps = {s1, s2}
    Junk = {x}
    NoStamp = NoStamp
    MaxFrames = 2
    MaxRequests = 3
    MaxMidnights = 1
    MaxReconnects = 1
SYMMETRY StampSymmetry
INVARIANTS
    NobodyIsCountedTwice
    OffsetsAddUp
    
CHECK_DEADLOCK FALSE

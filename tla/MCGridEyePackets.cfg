SPECIFICATION Spec
CONSTANTS
    Cells = 3
    BufSize = 28
    Temperatures <- Typical
    Thermistors = {42, 7}
    Beyond = {77}
    MaxPackets = 3
INVARIANTS
    HeldPacketsAreDecoded
    FramesAreSent
    OverrunNeedsLongRead
CHECK_DEADLOCK FALSE

SPECIFICATION FairSpec
CONSTANTS
    p1 = p1  p2 = p2  c1 = c1  c2 = c2  grideye = grideye  mlx = mlx
    Frames = {f1, f2}
    NoFrame = NoFrame
    NoThread = NoThread
    Producers = {p1, p2}
    Consumers = {c1, c2}
    bufferOf <- SilentSensor
    size_ = 2
    MaxSpurious = 2
INVARIANTS
    NoLostWakeup
    MoveIsSafe
PROPERTIES
    ImplementsQueue
    CallsReturn

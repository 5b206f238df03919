SPECIFICATION SpaceSpec
CONSTANTS
    User = {u1, u2, u3}
    UserMain = u1
    NFrames = 30
    PerLevel = 2
    StackArea <- Stack
    StackPages = 1
    Disks <- AllDisks
INVARIANT AllReturned
CHECK_DEADLOCK FALSE

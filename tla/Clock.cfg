SPECIFICATION ClockSpec
CONSTANTS
    Proc = {p1, p2, p3}
    MaxTicks = 4
    Keys = {a, b}
    STDIN_BUFSIZE = 2
    CONSBUFSIZE = 3
    MaxLen = 2
    MaxArrivals = 2
INVARIANTS
    ListSound
    NobodyMissesKey
PROPERTIES
    ImplementsTimers
    ImplementsKeyStream
    KeysAreTaken

SPECIFICATION ResourcesSpec
CONSTANTS
    NPages = 7
    BuddyZone = 13
    zone = 5
    longest_num_page = 1
    Nums = {1, 2}
    MaxCaches = 2
    NVirtual = 5
    PerTable = 4
    NFrames = 4
    MaxAge = 2
    User = {u1, u2, u3}
    UserMain = u1
    NFree = 30
    PerLevel = 2
    StackArea <- Stack
    StackPages = 1
    Disks <- AllDisks
    Child = {c1, c2, c3, c4}
    idle = idle
    init = init
    NULL = NULL
    MAX_PID = 7
    MAX_PROCESS = 6
    HeapPages = 4
    PageUnits = 4
    Orders = {0, 1}
CONSTRAINTS Followed Typed
VIEW View
INVARIANTS FreeListExact BuddyExact SlabsExact SlobExact SwapExact FramesExact LeaksExplained PidsUnique FamilyExact
PROPERTIES ImplementsPages EvictsOldest
CHECK_DEADLOCK FALSE

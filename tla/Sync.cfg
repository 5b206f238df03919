SPECIFICATION SyncSpec
CONSTANTS
    N = 4
    TIMES = 2
    Proc = {p1, p2, p3, p4}
    Permits = 2
INVARIANTS
    UnitsConserved
    WaitQueueSound
    InvitationsExact
    MonitorSound
    SignalledEats
PROPERTIES
    FirstComeFirstServed
    WaitersServed
    ImplementsDining
    MonitorImplementsDining
    AllQuit

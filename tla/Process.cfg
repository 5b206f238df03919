SPECIFICATION Spec
CONSTANTS
    User = {u1, u2, u3}
    idleproc = idleproc
    initproc = initproc
    None = None
    KillTargets = {u1, initproc}
    MAX_PROCESS = 5
    MAX_TIME_SLICE = 1
    MaxSleep = 1
CHECK_DEADLOCK FALSE
INVARIANTS
    RunQueueExact
    WaitersWillWake
    SleepersConsistent
    TreeSound
    InitQuitsLast
PROPERTIES
    ImplementsLifecycle
    OrphanZombiesReaped
    KilledSleeperDies

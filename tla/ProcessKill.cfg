SPECIFICATION Spec
CONSTANTS
    User = {u1, u2}
    idleproc = idleproc
    initproc = initproc
    None = None
    KillTargets = {u1, u2}
    MAX_PROCESS = 4
    MAX_TIME_SLICE = 1
    MaxSleep = 1
CHECK_DEADLOCK FALSE
PROPERTY KilledDies

SPECIFICATION CowSpec
CONSTANTS
    Proc = {p1, p2, p3}
    FirstProc = p1
    VPage = {v1}
    NFrames = 6
INVARIANT OwnPage
CHECK_DEADLOCK FALSE

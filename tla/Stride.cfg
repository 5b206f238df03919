SPECIFICATION Spec
CONSTANTS
    Proc = {p1, p2, p3}
    None = None
    W = 4
    Priorities = {0, 2, 4}
INVARIANTS
    HeapExact
    FairShare
PROPERTY EveryoneRuns

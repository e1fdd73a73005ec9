SPECIFICATION Spec
CONSTANTS
    N = 5
    Task <- MCTask
    Pointer = {p1, p2, p3}
    Sizes = {1, 2, 3, 6}
    Preemptive = FALSE
INVARIANTS TypeOK TableAgrees
PROPERTIES HeapSpec FailsOnlyWhenFull

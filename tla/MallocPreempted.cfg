SPECIFICATION Spec
CONSTANTS
    N = 3
    Task <- MCTask
    Pointer = {p1, p2}
    Sizes = {1, 2}
    Preemptive = TRUE
INVARIANT MarksEmpty

CONSTANTS
    Page = {p1, p2}
    Offset = {o1}
    Mapped = TRUE
    Careful = TRUE
    MaxPasses = 3
    MaxBytes = 1
    MaxWrites = 0
SPECIFICATION Spec
INVARIANT ReadsCurrent
CHECK_DEADLOCK FALSE

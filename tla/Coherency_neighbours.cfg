CONSTANTS
    Page = {p1}
    Offset = {o1, o2}
    Mapped = FALSE
    Careful = FALSE
    MaxPasses = 2
    MaxBytes = 1
    MaxWrites = 1
SPECIFICATION Spec
INVARIANT HostCurrent
CHECK_DEADLOCK FALSE

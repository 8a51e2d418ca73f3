CONSTANTS
    Page = {p1}
    Offset = {o1, o2}
    Mapped = FALSE
    Careful = TRUE
    MaxPasses = 3
    MaxBytes = 1
    MaxWrites = 1
SPECIFICATION Spec
INVARIANTS ReadsCurrent HostCurrent
CHECK_DEADLOCK FALSE

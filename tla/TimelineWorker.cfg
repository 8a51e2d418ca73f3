CONSTANTS
    Waiters = {w1, w2}
    Page = {p1, p2}
    MaxSubmits = 2
    MaxSignals = 2
SPECIFICATION FairSpec
INVARIANTS TimelineSound CountersSound
PROPERTIES WaitsReturn Implements

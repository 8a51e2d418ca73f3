CONSTANTS
    Callers = {c1}
    RingThread = r
    Size = 4
    Word = {0, 2}
    MaxWords = 3
    MetaIdle = 1
    MaxCmds = 3
    MaxInits = 1
SPECIFICATION FairSpec
INVARIANTS
    QueuedIntact
    CompletionSound
    WakeupOwed
PROPERTIES
    Implements
    CallsReturn

CONSTANTS
    MaxWork = 2
    MaxSignals = 2
    MaxCalls = 2
SPECIFICATION FairSpec
INVARIANTS CallerAlone ResultsSeen
PROPERTIES NoPushAfterDestruction CallsReturn

CONSTANTS
    NumSyncStates = 3
    MaxPending = 2
    MaxPrimitives = 2
    MinIdlePasses = 1
    MinIdlePrimitives = 2
    Modes = {{}, {"coherent", "unlimited"}, {"upscaling", "coherent"}, {"upscaling", "ssaa"}}
    MaxPasses = 5
    MaxDraws = 2
    MaxFlushes = 1
SPECIFICATION FairSpec
INVARIANTS InstanceStable CopiedWithPass
PROPERTIES FlushLeavesNothing IdleWorkSubmitted
CHECK_DEADLOCK FALSE

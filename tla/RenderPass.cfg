SPECIFICATION Spec
CONSTANTS
    NumSyncStates = 2
    Devices <- CheckedDevices
    MaxPasses = 2
    MaxHostWrites = 1
    MaxScanouts = 1
INVARIANTS
    WritesAreSeen
    PassesAreFed
    ResultsReachHost
CHECK_DEADLOCK FALSE

SPECIFICATION Spec
CONSTANTS
    Blocks = {1, 2}
    Textures = {1}
    Values = 2
    MaxCalls = 4
    MaxRewinds = 1
INVARIANTS
    ReplayIsFaithful
    ValidatorIsSound
CHECK_DEADLOCK FALSE

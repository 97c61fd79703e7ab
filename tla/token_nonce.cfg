SPECIFICATION Spec
CONSTANTS
    Digits = {0, 1, 15}
    UsizeMod = 256
    NonceLen = 1
    None = none
    MaxBlob = 7
INVARIANTS OpenNeverPanics
CHECK_DEADLOCK FALSE

SPECIFICATION Spec
CONSTANTS
    Digits = {0, 1, 6}
    UsizeMod = 10
    NonceLen = 1
    None = none
    MaxBlob = 7
INVARIANTS
    ParsedIsEncoded
    NoEncodingRefused
CHECK_DEADLOCK FALSE

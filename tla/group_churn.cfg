SPECIFICATION Spec
CONSTANTS
    Members = {ann, ben, cat}
    BadKeyed = {cat}
    Secrets = {s1, s2}
    Garbled = garbled
    None = none
    RekeyMsgBound = 2
    RekeyAge = 1
    MaxEpoch = 2
    MaxMessages = 3
    MaxFaults = 1
    MaxTime = 1
SYMMETRY SecretSymmetry
INVARIANTS
    TypeOK
    EpochIsolation
    ReadersAgree
    KeySharing
    QuietEpochBudget

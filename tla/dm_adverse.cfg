SPECIFICATION Spec
CONSTANTS
    Alice = alice
    Bob = bob
    Keys = {alice, bob}
    BadKey = badKey
    None = none
    Garbled = garbled
    Secrets = {s1, s2, s3}
    Plaintexts = {m1}
    Senders = {alice, bob}
    StaleRestorers = {alice}
    Damages = {"body", "kam", "slot"}
    KamRepeat = 1
    RekeyMsgBound = 2
    RekeyAge = 1
    MaxEpoch = 1
    MaxFrames = 3
    MaxFaults = 1
    MaxTime = 1
SYMMETRY SecretSymmetry
INVARIANTS
    TypeOK
    SnapshotRoundTrip
    KeysNeverReused
    EpochBudget
    OpenedAsSealed

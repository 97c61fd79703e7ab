SPECIFICATION Spec
CONSTANTS
    Alice = alice
    Bob = bob
    Keys = {alice, bob}
    BadKey = badKey
    None = none
    Garbled = garbled
    Secrets = {s1, s2}
    Plaintexts = {m1}
    Senders = {alice, bob}
    StaleRestorers = {}
    Damages = {}
    KamRepeat = 2
    RekeyMsgBound = 3
    RekeyAge = 1
    MaxEpoch = 1
    MaxFrames = 5
    MaxFaults = 0
    MaxTime = 1
SYMMETRY SecretSymmetry
INVARIANTS KamSeenOpens

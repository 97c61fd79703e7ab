SPECIFICATION FairSpec
CONSTANTS
    Alice = alice
    Bob = bob
    Keys = {alice, bob}
    BadKey = badKey
    None = none
    Garbled = garbled
    Secrets = {s1, s2}
    Plaintexts = {m1}
    Senders = {alice}
    StaleRestorers = {}
    Damages = {"body", "kam"}
    KamRepeat = 2
    RekeyMsgBound = 3
    RekeyAge = 1
    MaxEpoch = 1
    MaxFrames = 4
    MaxFaults = 2
    MaxTime = 1
INVARIANTS
    KamSeenOpens
    NotStranded
PROPERTIES
    SecretsKept
    ImplementsSlotChannel
    EventuallyOpened

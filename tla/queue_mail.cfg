SPECIFICATION Spec
CONSTANTS
    Owners = {oda, pat}
    Ids = {0, 37, 202, 255}
    Relays <- MCRelays
    Typos <- MCTypos
    Nonces <- MCNonces
    Bodies <- MCBodies
    Fields <- MCFields
    None = none
    MaxPublished = 1
    MaxMail = 1
    MaxTypos = 1
    MaxFaults = 1
SYMMETRY OwnerSymmetry
INVARIANTS
    DecodedIsEncoded
    AddressLeadsHome
    SubscriptionPrivate
    AcceptedFromHolder
CHECK_DEADLOCK FALSE

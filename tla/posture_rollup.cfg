SPECIFICATION Spec
CONSTANTS
    Registrable <- MCRegistrable
    Negotiated <- MCNegotiated
    BoastIds = {5}
    Peers = {"", "Quantum-Safe"}
    None = none
    MaxRegs = 2
    MaxSurfaces = 2
    MaxEdits = 1
INVARIANTS
    ReportHonest
    ClaimOfWeakest
    SurfacesFollowSeed
    RatchetNeverAssumed
    LastRegistrationCounts
    ListingsDetermined

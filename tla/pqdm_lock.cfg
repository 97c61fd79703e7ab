SPECIFICATION Spec
CONSTANTS
    ann = ann
    ben = ben
    cat = cat
    Parties = {ann, ben, cat}
    Capable = {ann, ben}
    Names <- MCNames
    Pythonic = {ben}
    BadKey = badKey
    Plaintexts = {m1}
    MaxSeals = 2
    MaxFaults = 2
INVARIANTS
    OpenedAsNegotiated
    UnalteredDecides
CHECK_DEADLOCK FALSE

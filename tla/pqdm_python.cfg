SPECIFICATION Spec
CONSTANTS
    ann = ann
    ben = ben
    cat = cat
    Parties = {ann, ben, cat}
    Capable = {ann, ben}
    Names <- MCAccentedNames
    Pythonic = {ben}
    BadKey = badKey
    Plaintexts = {m1}
    MaxSeals = 1
    MaxFaults = 0
INVARIANTS
    UnalteredDecides
CHECK_DEADLOCK FALSE

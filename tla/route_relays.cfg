SPECIFICATION Spec
CONSTANTS
    Headers <- MCHeaders
    Metas <- MCMetas
    Contents <- MCContents
    Dests = {dee, eve}
    BadKey = badKey
    ForeignRoutes <- MCForeignRoutes
    ForeignInners <- MCForeignInners
    Lengths = {0, 2, 3, 4, 15}
    UsizeMod = 16
    MaxSeals = 1
    MaxFaults = 3
SYMMETRY DestSymmetry
INVARIANTS
    RoutedAsSealed
    UntouchedOpens
    RewriteUndone

SPECIFICATION ServerSpec
CONSTANTS
    w1 = w1
    p1 = p1
    p2 = p2
    Worker = {w1}
    Requests <- Addresses
    Legal <- SmallLegal
    Default <- SmallDefault
    Unset = Unset
    Restarts = TRUE
    Page = {p1, p2}
    TTL = 2
    LongestProbe = 3
    AbortAfter = 1
    NoProbe = NoProbe
    Nobody = Nobody
    Gone = Gone
SYMMETRY Symmetry
INVARIANTS ServerTypeOK WaitsForOneProbe
PROPERTIES LightFollowsSettings

SPECIFICATION Spec
CONSTANTS
    w1 = w1
    w2 = w2
    Worker = {w1, w2}
    Requests <- SameBodies
    Legal <- SmallLegal
    Default <- SmallDefault
    Unset = Unset
    Restarts = TRUE
SYMMETRY Symmetry
INVARIANTS TypeOK RuntimeMatches
PROPERTIES OverlapStaysBelow ImplementsPolicy

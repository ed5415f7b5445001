SPECIFICATION Spec
CONSTANTS
    Entity = {e1, e2, e3}
    Item = {i1}
    Slot = {s1}
    Place = {near}
    BagSize = 1
    CarrierMax = 1
    Usable <- AllUsable
    Overlap = TRUE
    StoreFails = FALSE
    NoEntity = NoEntity
    NoItem = NoItem
    NoPlan = NoPlan
SYMMETRY EntitySymmetry
INVARIANTS TypeOK PairsAreMutual NoResidue NeverBothAccepted ScreenMatchesShell
PROPERTY AcceptBindsTerms
CHECK_DEADLOCK FALSE

SPECIFICATION Spec
CONSTANTS
    Entity = {e1, e2}
    Item = {i1, i2}
    Slot = {s1, s2}
    Place = {near, far}
    BagSize = 2
    CarrierMax = 2
    Usable <- SomeUsable
    Overlap = FALSE
    StoreFails = TRUE
    NoEntity = NoEntity
    NoItem = NoItem
    NoPlan = NoPlan

INVARIANT NoItemTwice
PROPERTY CommitIsAccepted

CHECK_DEADLOCK FALSE

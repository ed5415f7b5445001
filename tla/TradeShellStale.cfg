SPECIFICATION Spec
CONSTANTS
    Entity = {e1, e2}
    Item = {i1, i2}
    Slot = {s1}
    Place = {near, far}
    BagSize = 2
    CarrierMax = 2
    Usable <- AllUsable
    Overlap = TRUE
    StoreFails = TRUE
    NoEntity = NoEntity
    NoItem = NoItem
    NoPlan = NoPlan


PROPERTY CommitIsAccepted

CHECK_DEADLOCK FALSE

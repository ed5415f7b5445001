SPECIFICATION Spec
CONSTANTS
    p1 = p1
    p2 = p2
    m1 = m1
    m2 = m2
    None = None
    Player = {p1, p2}
    Mob = {m1, m2}
    Place = {0, 2}
    Town = 2
    Stand <- AtOrigin
    Radius = 1
    Reach = 1
    MaxHP = 2
    MaxLife = 1
    RespawnDelay = 1
    Pack = {m1, m2}
    SharedHP = TRUE
    SyncRespawn = TRUE
    Switch = {}
    MaxOpen = 2
INVARIANTS PackWaitsTogether DeadAreFree
PROPERTIES LocksAreKept
SYMMETRY Alike

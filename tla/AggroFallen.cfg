SPECIFICATION Spec
CONSTANTS
    p1 = p1
    p2 = p2
    m1 = m1
    None = None
    Player = {p1, p2}
    Mob = {m1}
    Place = {0, 1, 2}
    Town = 2
    Radius = 1
    Reach = 1
    MaxHP = 2
    MaxLife = 2
    RespawnDelay = 1
    Pack = {}
    SharedHP = FALSE
    SyncRespawn = FALSE
    Switch = {m1}
    MaxOpen = 2
    Stand <- AtOrigin
PROPERTIES
    SparedUntilTheyLeave

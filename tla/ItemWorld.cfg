SPECIFICATION Spec
CONSTANTS
    a = a
    b = b
    potion = potion
    sword = sword
    coin = coin
    v1 = v1
    v2 = v2
    Character = {a, b}
    Item = {potion, sword, coin}
    Coin = {coin}
    Tradable = {sword, coin}
    Vid = {v1, v2}
    VidsOf <- MCVidsOf
    BagSize = 1
    Contend = FALSE
    CrashMidway = FALSE
    StoreFails = TRUE
    RestoreFails = FALSE
    NoHandle = NoHandle
    NoJob = NoJob
INVARIANTS TypeOK OneHolder CopiesAgree BoundWhilePresent FileIsGround
PROPERTIES NothingVanishes DealIsWhole ExclusiveRespected
CHECK_DEADLOCK TRUE

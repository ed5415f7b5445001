SPECIFICATION Spec
CONSTANTS
    a = a
    b = b
    potion = potion
    sword = sword
    coin = coin
    v1 = v1
    v2 = v2
    Character = {a, b}
    Item = {potion, sword, coin}
    Coin = {coin}
    Tradable = {sword, coin}
    Vid = {v1, v2}
    VidsOf <- MCVidsOf
    BagSize = 2
    Contend = TRUE
    CrashMidway = FALSE
    StoreFails = FALSE
    RestoreFails = FALSE
    NoHandle = NoHandle
    NoJob = NoJob
INVARIANT DropRemoves
CHECK_DEADLOCK FALSE

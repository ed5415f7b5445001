SPECIFICATION FairSpec
CONSTANTS
    a1 = a1
    a2 = a2
    c1 = c1
    c2 = c2
    d1 = d1
    Session = {s1, s2}
    Account = {a1, a2}
    Character = {c1, c2, d1}
    AccountOf <- Owners
    VidOf <- Numbers
    NameOf <- ApartNames
    IdOf <- Numbers
    MaxVersion = 2
    Exclusive = FALSE
    Contend = TRUE
    StoreFails = FALSE
    RestoreFails = TRUE
    NoSession = NoSession
    NoAccount = NoAccount
    NoCharacter = NoCharacter
INVARIANTS OneLiveEntry NoGhostGame
PROPERTY WaiterGetsIn
CHECK_DEADLOCK FALSE

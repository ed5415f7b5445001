SPECIFICATION Spec
CONSTANTS
    a1 = a1
    a2 = a2
    c1 = c1
    c2 = c2
    d1 = d1
    Session = {s1, s2}
    Account = {a1, a2}
    Character = {c1, c2, d1}
    AccountOf <- Owners
    VidOf <- ApartVids
    NameOf <- ApartNames
    IdOf <- Numbers
    MaxVersion = 3
    Exclusive = FALSE
    Contend = FALSE
    StoreFails = FALSE
    RestoreFails = FALSE
    NoSession = NoSession
    NoAccount = NoAccount
    NoCharacter = NoCharacter
INVARIANT RegistrationIsOwner

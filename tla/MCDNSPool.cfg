CONSTANTS
    a = a
    b = b
    x = x
    c1 = c1
    c2 = c2
    V4 <- TwoV4
    V6 <- OneV6
    HasV4 = TRUE
    HasV6 = TRUE
    PreferV6 = TRUE
    DNSAnswers <- MCAnswers
    PeerOffers <- MCOffers
    FileRecords <- DualFiles
    NoRecord = NoRecord
    NoTurn = NoTurn
    NoIP = NoIP
    Callers = {c1, c2}
SPECIFICATION MCSpec
INVARIANTS
    TypeOK
    NoDuplicateIPs
    WhitelistedAreListed
    EvenShare
    InTurn
    ReserveEven
PROPERTIES
    NeverForgets
    UnbannedOnlyBy200
    ReturnsListed
    EveryCallReturns

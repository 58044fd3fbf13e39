CONSTANTS
    a = a
    b = b
    x = x
    i = i
    j = j
    u1 = u1
    u2 = u2
    s1 = s1
    s2 = s2
    s3 = s3
    V4 <- MCV4
    V6 <- MCV6
    HasV4 = TRUE
    HasV6 = TRUE
    PreferV6 = TRUE
    DNSAnswers <- MCAnswers
    PeerOffers <- NoOffers
    FileRecords <- NoFiles
    NoRecord = NoRecord
    NoIP = NoIP
    Nothing = Nothing
    Targets <- MCTargets
    Instances <- MCInstances
    Users <- MCUsers
    OwnerOf <- MCOwnerOf
    Prewarmers = {p1, p2}
    Absent = Absent
    Marked = Marked
    Sources <- MCSources
    Listings <- MCListings
    Requests = {r1, r2}
    BanAfter = 2
    FewRequests = 1
    MaxFailures = 30
    MaxRequests = 2
    NoSource = NoSource
SPECIFICATION MCSpec
INVARIANTS
    OnePrewarm
    SourcesInTurn
    BannedSpared
PROPERTIES
    BannedForOwn403
    EveryFetchEnds
    MarksEnd
    ChargedAtEnd

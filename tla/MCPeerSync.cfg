CONSTANTS
    a = a
    b = b
    c = c
    f = f
    g = g
    b1 = b1
    b2 = b2
    Nodes <- MCNodes
    Seeds <- MCSeeds
    Named <- MCNamed
    Goroutines <- MCGoroutines
    Owner <- MCOwner
    Facts <- MCFacts
    Learning <- MCLearning
    Long = 2
    MaxBackoff = 2
    MaxFaults = 2
SPECIFICATION MCSpec
INVARIANT OneSyncPerPeer
PROPERTIES
    PeersRemembered
    SeedsIntroduce
    LongRecordsSpread

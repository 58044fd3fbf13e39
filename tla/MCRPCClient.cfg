SPECIFICATION MCSpec
CONSTANTS
    unavailable = unavailable
    invalid = invalid
    Families <- MCFamilies
    Requests = 3
    Asked = 2
    DefaultConcurrent = 10
    Calls = {c1}
    Errors <- MCErrors
    RetryableErrors <- MCRetryable
    MaxRetries = 2
    InitialDelay = 1
    MaxDelay = 3
    Multiplier = 2
    Conns = {k1, k2, k3, k4}
    Callers = {p1, p2}
    AskedSize = 2
    DefaultSize = 10
    Nobody = Nobody
    NoConn = NoConn
INVARIANTS
    AccountsForAll
    GivesUpLast
    BatchComplete
PROPERTIES
    UsesAllRetries
    EveryUseEnds

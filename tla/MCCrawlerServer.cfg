SPECIFICATION Spec
CONSTANTS
    u1 = u1
    u2 = u2
    batch1 = batch1
    URLs = {u1, u2}
    Calls = {c1, c2}
    Batches = {batch1}
    Requests <- MCRequests
    Asked <- MCAsked
    Configured = 0
    Drawn = {2}
    Dedupe = TRUE
    Clients = {k1}
    MaxFetches = 2
    MaxResets = 1
    MaxRegistered = 2
INVARIANTS
    BatchWithinLimit
    BatchAnswersMatch
    CountsAddUp
PROPERTIES
    RepeatsNotFetched
    EveryCallAnswered

CONSTANTS
    u1 = u1
    u2 = u2
    w1 = w1
    w2 = w2
    Updates <- MCUpdates
    Learnt <- MCUpdates
    Edits <- NoEdits
    Writers <- MCWriters
    Syncing = TRUE
    DiskFails = TRUE
    Crashes = TRUE
    Moments = {2}
    None = None
    Blank = Blank
    Torn = Torn
SPECIFICATION NodeSpec
SYMMETRY Alike
INVARIANT WholeUnlessShared
PROPERTIES
    Durable
    SavedAtExit

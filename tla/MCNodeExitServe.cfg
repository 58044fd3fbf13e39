CONSTANTS
    u1 = u1
    u2 = u2
    w1 = w1
    w2 = w2
    Updates <- MCUpdates
    Learnt <- MCUpdates
    Edits <- NoEdits
    Writers <- OneWriter
    Syncing = TRUE
    DiskFails = FALSE
    Crashes = FALSE
    Moments = {2}
    None = None
    Blank = Blank
    Torn = Torn
SPECIFICATION NodeSpec
PROPERTY SavedAfterSignal

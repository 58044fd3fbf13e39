CONSTANTS
    u1 = u1
    u2 = u2
    w1 = w1
    Updates <- MCUpdates
    Learnt <- MCUpdates
    Added <- MCAdded
    Edits <- OneEdit
    Writers = {w1}
    Syncing = TRUE
    DiskFails = FALSE
    Crashes = FALSE
    Moments = {2, 4}
    None = None
    Blank = Blank
    Torn = Torn
SPECIFICATION MCSpec
PROPERTIES
    EditIsLoaded
    LearntIsSaved
    ExitCompletes

CONSTANTS
    Uids <- TwoUids
    MaxAborts = 1
    CleanupMayFail = TRUE
SPECIFICATION Spec
PROPERTY LiveDataKept

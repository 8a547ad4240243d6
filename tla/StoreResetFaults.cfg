CONSTANTS
    Uids <- TwoUids
    MaxAborts = 2
    CleanupMayFail = TRUE
SPECIFICATION OperatorSpec
INVARIANTS
    ResetComplete
    EpochsMixOnlyByChoice
PROPERTIES
    RecoveryEnds
    UidFollowsDetection

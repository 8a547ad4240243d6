CONSTANTS
    Uids <- ThreeUids
    MaxAborts = 2
    CleanupMayFail = FALSE
SPECIFICATION FairSpec
INVARIANTS
    TypeOK
    HalfResetNotOpened
    StagingHasManifest
PROPERTIES
    LeftoversRemoved
    LiveDataKept
    OldDataKeptUntilCommit
    ImplementsRecovery

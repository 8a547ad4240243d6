CONSTANTS
    Alerts = {a1, a2}
    Others = {w1}
    RetryCount = 3
    Base = 2
    MaxCumulativeWait = 14
    RetryAfters = {0, 3, 20}
    MaxUnknown = 2
SPECIFICATION FairSpec
INVARIANTS
    TypeOK
    DuplicatesNeedLostAnswer
    WaitsInBounds
PROPERTIES
    ImplementsNotifier
    AllAttempted
    EveryRecordSettled
CHECK_DEADLOCK FALSE

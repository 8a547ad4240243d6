CONSTANTS
    Messages = {m1, m2}
    MonthLength = 3
    LastDay = 7
    FetchDays = 2
    WindowDays = 2
    RetentionDays = 3
    MaxEmailAgeDays = 3
    ImapRetentionDays = 2
    MaxFailures = 1
SPECIFICATION FairSpec
INVARIANTS
    TypeOK
    ReportsRebuildable
PROPERTIES
    EntryGoesWithFile
    DeletedWithinAMonth
    CountedOnce
    DeletesNothingNeeded
    RetentionEnforced

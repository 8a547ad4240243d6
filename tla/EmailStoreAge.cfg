CONSTANTS
    Messages = {m1, m2}
    MonthLength = 3
    LastDay = 7
    FetchDays = 1
    WindowDays = 1
    RetentionDays = 2
    MaxEmailAgeDays = 2
    ImapRetentionDays = 2
    MaxFailures = 1
SPECIFICATION Spec
PROPERTY DeletedOnlyWhenOld

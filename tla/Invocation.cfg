CONSTANTS
    MaxMessageBytes = 4
    MaxMultipartDepth = 1
    MaxDecompressed = 8
    MaxFailureDetails = 3
    MaxDetailDisplay = 2
    PoliciesPerChunk = 2
    LastChunkWithOverflow = 1
    MaxAttachments = 2
    OrgFields = 2
    MaxFields = 7
    Mailbox <- MCMailbox
    ReadElsewhere = {1, 5}
    SavedBefore = {4}
    CommandLines <- MCCommandLines
    Today = 5
    WindowDays = 3
    MaxInt = 20
    MaxListed = 2
    MaxRuns = 2
SPECIFICATION Spec
INVARIANTS
    AlertsAccounted
    WarningsAccounted
    DetailsAddUp
    MessagesWithinLimits
    SummaryMatchesStore
    StoreHoldsLatest
PROPERTY DryRunChangesNothing
CHECK_DEADLOCK FALSE

CONSTANTS
    Writers = {w1, w2}
    Summaries = {s1}
    NoProc = NoProc
    MaxRuns = 2
SPECIFICATION FairSpec
INVARIANTS
    TypeOK
    GuardedSummaryAvoidsRecovery
PROPERTIES
    RequiredNotLost
    EveryCommandEnds
CHECK_DEADLOCK FALSE

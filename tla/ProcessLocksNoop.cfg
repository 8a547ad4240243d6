CONSTANTS
    Writers = {w1, w2}
    Summaries = {s1}
    NoProc = NoProc
    MaxRuns = 1
SPECIFICATION Spec
INVARIANT NoSummaryDuringRecovery
CHECK_DEADLOCK FALSE

CONSTANTS
    Epochs <- OneEpoch
    Uids = {1, 2}
    Failing <- FailingFirst
    Broken <- BrokenSecond
    Unlisted <- SkippedThird
    Oversized <- OversizedSecond
    Mail <- TwoAndThree
    NoMsg = NoMsg
    RecreatedAnyTime = FALSE
    Interference = TRUE
    MaxTroubles = 2
SPECIFICATION Spec
INVARIANT SkippedIsProcessed

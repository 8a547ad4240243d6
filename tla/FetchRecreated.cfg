CONSTANTS
    Epochs <- TwoEpochs
    Uids = {1, 2}
    Failing <- FailingFirst
    Broken <- BrokenSecond
    Unlisted <- SkippedThird
    Oversized <- OversizedSecond
    Mail <- TwoAndThree
    NoMsg = NoMsg
    RecreatedAnyTime = TRUE
    Interference = FALSE
    MaxTroubles = 1
SPECIFICATION Spec
INVARIANT SeenIsDone

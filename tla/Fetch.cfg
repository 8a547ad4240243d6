CONSTANTS
    Epochs <- TwoEpochs
    Uids = {1, 2, 3}
    Failing <- FailingFirst
    Broken <- BrokenSecond
    Unlisted <- SkippedThird
    Oversized <- OversizedSecond
    Mail <- TwoAndThree
    NoMsg = NoMsg
    RecreatedAnyTime = FALSE
    Interference = TRUE
    MaxTroubles = 2
SPECIFICATION FairSpec
INVARIANTS
    TypeOK
    SeenIsDone
    DuplicatesOnlyAfterFailure
    CompleteRunIndexes
PROPERTIES
    EveryMessageDone

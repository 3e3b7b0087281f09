SPECIFICATION FairSpec
CONSTANTS
    Events = {1, 2}
    Deliveries = {2}
    MayFail = {1}
    NumParts = 2
    Dispatchers = {d1, d2}
    BatchSize = 1
    LeaseLength = 2
    BaseDelay = 1
    DelayCap = 2
    RearmBelow = 3
    FaultsUntil = 1
    MaxTime = 4
INVARIANTS OneCopyPerAttempt
PROPERTIES LiveDispatchRespected AtLeastOnce NothingLeftDue

SPECIFICATION FairSpec
CONSTANTS
    Jobs = {"j1"}
    Family <- OneFamily
    Mode <- AllOriginal
    Items <- OneFile
    MaxAttempts <- Twice
    BatchSize = 1
    Binary = {"regular"}
    Archiving = TRUE
    MaxFaults = 1
PROPERTIES AckJustified EveryJobSettles
CHECK_DEADLOCK FALSE

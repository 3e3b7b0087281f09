SPECIFICATION Spec
CONSTANTS
    Jobs = {"j1", "j2"}
    Family <- TwoFamilies
    Mode <- TwoModes
    Items <- Common
    MaxAttempts <- Once
    BatchSize = 1
    Binary = {"regular"}
    Archiving = TRUE
    MaxFaults = 1
INVARIANTS ArtifactOfJob HitIsOwn
CHECK_DEADLOCK FALSE

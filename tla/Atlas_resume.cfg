CONSTANTS
    StyleSeq <- MCStyleSeq
    Coverages <- MCCoverages
    Kind <- MCKind
    Row <- MCRow
    IsMark <- MCIsMark
    SizePx = 10
    Pad = 1
    MaxDim = 40
    TargetBytes = 600
    MaxBytes = 700
    Ascent = 8
    Descent = 2
    Batch = 2
    MayHaveBinary = TRUE
    MaxStops = 1
    MaxOutages = 1
    MaxLost = 1
SPECIFICATION Spec
INVARIANTS
    PlanWhole
    Accounted
    ResumeExact
    HitIsWhole

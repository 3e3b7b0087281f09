CONSTANTS
    Em = 16
    Collections = {"late", "bare", "blank", "plain"}
    Store <- MCStore
    Outline <- MCOutline
    Resolutions = {8}
    BasePhases = {0}
    ExpandedPhases = {0, 2}
    MetricSizes = {4, 8}
    MinIou = 900
    MaxChamfer = 2
    MaxAdvanceDelta = 1
    MaxMetricRms = 1
    MaxKerningDelta = 1
    MinConfidence = 800
    Required = {11, 12, 20}
    Marks = {20}
    Parts <- MCParts
    Sketch <- MCSketch
    EscalateAbove = 2
    ClipLimit = 32
    Orders = {1, 2}
    Books <- MCBooks
    StyleOf <- MCStyleOf
    Sorted <- MCSorted
    Confident <- MCConfident
    Binary <- MCBinary
    Provider = TRUE
    Answers <- MCAnswers
    Histories <- MCHistories
    MemoMax = 1
    Slots = {1, 2}
    MaxCrashes = 1

SPECIFICATION Spec
INVARIANTS
    DeliveredIsOwn
    JudgedByUnseen
PROPERTIES
    EveryOrderEnds

CONSTANTS
    Em = 32
    Ink <- MCInk
    Box <- MCBox
    IsMark <- MCIsMark
    IsUncertain <- MCIsUncertain
    Corners <- MCCorners
    Resolutions = {8, 16}
    CoreVersioned = {4, 8}
    BasePhases = {0, 1}
    ExpandedPhases = {0, 1, 2, 3}
    EasyAxes = {0}
    Budget <- MCBudget
    MaxObjective = 50120
    MaxCoverage = 240
    MaxEdge = 950
    MaxSdf = 60
    Top1Objective = 42602
    TopK = 3
    Families <- MCFamilies
    Attempts = {1, 2}
    Workers = 2
    MaxVersion = 2
SPECIFICATION Spec
INVARIANTS
    FormedIsFresh
    Vouched
PROPERTIES
    NothingRefitted
    FormationEnds

SPECIFICATION FairSpec
CONSTANTS
    Cps = {1, 2}
    Fonts = {"a", "b"}
    Browsers = {"b1", "b2"}
    FitSizes <- MCFitSizes
    HeldOutSizes <- MCHeldOutSizes
    BasePhases <- MCBasePhases
    HardPhases <- MCHardPhases
    HeldOutPhases <- MCHeldOutPhases
    Hard <- MCHard
    MetricSizes <- MCMetricSizes
    Kerning <- MCKerning
    BoundedFitPairs <- MCBounded
    Probes = {"kern"}
    Drawn <- MCDrawn
    MaxCrashes = 1
    MaxChanges = 1
INVARIANTS OneIdentity CompletedIsWhole
PROPERTIES CompletedIsFrozen ResumedCompletes

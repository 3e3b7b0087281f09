SPECIFICATION Spec
CONSTANTS
    Jobs = {j1, j2}
    Workers = {w1}
    NoWorker = NoWorker
    Artifacts = {a1}
    NoArtifact = NoArtifact
    MaxAttempts = 2
    AttemptLimit = 3
    LeaseDurations = {1}
    MaxJobAge = 1
    BaseDelay = 1
    DelayCap = 2
    Requests = {r1}
    Crons = {c1}
    ModelessJobs = {j2}
    BatchSize = 1
    MaxTime = 3
    MaxQueued = 0
SYMMETRY Symmetric
INVARIANTS JobOrderAgree ModelessOrderLeads

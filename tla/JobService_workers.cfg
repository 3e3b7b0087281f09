SPECIFICATION Spec
CONSTANTS
    Jobs = {j1}
    Workers = {w1}
    NoWorker = NoWorker
    Artifacts = {a1, a2}
    NoArtifact = NoArtifact
    MaxAttempts = 2
    AttemptLimit = 3
    LeaseDurations = {2}
    MaxJobAge = 1
    BaseDelay = 1
    DelayCap = 2
    Requests = {r1, r2}
    Crons = {c1}
    ModelessJobs = {}
    BatchSize = 1
    MaxTime = 3
    MaxQueued = 1
SYMMETRY Symmetric
INVARIANTS LeaseAgeBounded IInv CompletionWhole CompletedReplyTrue RetryHasAttempt
PROPERTIES LiveLeaseRespected CompletedForever ContractKept

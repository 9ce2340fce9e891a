SPECIFICATION Spec
CONSTANTS
    Capacity = 2
    MaxAttempts = 2
    MaxElapsed = 2
    Timeout = 1
    InitialBackoff = 1
    MaxBackoff = 2
    DrainTimeout = 2
    FailureThreshold = 2
    Window = 2
    Cooldown = 2
    Statuses <- OneStatusPerClass
    RetryAfterHeaders <- Headers
    MaxDuration = 7
    MaxBatches = 4
    MaxNow = 4
INVARIANT ProbesOnce

\* docs/remote-write.md on plaintext credentials.
SPECIFICATION Spec
CONSTANTS
    Nil = Nil
    NaN = NaN
    Inf = Inf
    Files <- MCFiles
    Second <- MCSecond
    Duration <- MCDuration
    Number <- MCNumber
    Scheme <- MCScheme
    Canonical <- MCCanonical
    Host <- MCHost
    LabelNames <- MCLabelNames
    Registries <- MCRegistries
INVARIANT PlaintextRejected
CHECK_DEADLOCK FALSE

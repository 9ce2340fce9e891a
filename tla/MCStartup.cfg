\* The six families of files, in two environments, with three registries.
SPECIFICATION Spec
CONSTANTS
    Nil = Nil
    NaN = NaN
    Inf = Inf
    Files <- MCFiles
    Second <- MCSecond
    Duration <- MCDuration
    Number <- MCNumber
    Scheme <- MCScheme
    Canonical <- MCCanonical
    Host <- MCHost
    LabelNames <- MCLabelNames
    Registries <- MCRegistries
INVARIANTS
    EffectiveSettings
    RunsAsAssumed
    PushedSeriesValid
\* A start ends: the exporter has failed, or runs and has pushed once.
CHECK_DEADLOCK FALSE

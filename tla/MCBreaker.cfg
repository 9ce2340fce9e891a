SPECIFICATION Spec
CONSTANTS
    FailureThreshold = 3
    Window = 3
    Cooldown = 2
    MaxNow = 9
    MaxStreak = 6
INVARIANTS
    FailureList
    ClosedMeansFewFailures
    GaugeShowsState
PROPERTIES
    OpensOnlyOnThreshold
    CooldownIsQuiet

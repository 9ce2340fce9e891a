SPECIFICATION FairSpec
CONSTANTS
    NoModel = NoModel
    Request = {r1, r2}
    Label = {NoModel, m1}
INVARIANTS
    InFlightIsExact
    ObservedOnce
    DrainsBeforeExit
PROPERTY ExitsAfterSignal

SPECIFICATION Spec
CONSTANTS
    Nil = Nil
    Fallback = Fallback
    poller = poller
    Model = {m1}
    Info = {i1, i2}
    Request = {r1}
    Thread = {poller, r1}
    MaxPulls = 2
INVARIANT RecreatedIsRefetched

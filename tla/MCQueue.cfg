SPECIFICATION FairSpec
CONSTANTS
    Nil = Nil
    Producer = {p1}
    Consumer = {c1, c2}
    Capacity = 2
    MaxBatches = 3
INVARIANTS
    TypeOK
    RingWindow
    NoLostWakeup
    EmptyHasError
    DropAccounting
PROPERTIES
    DequeueReturns
    ImplementsQueue
\* Callers may stop calling: every consumer done and no batch left to offer.
CHECK_DEADLOCK FALSE

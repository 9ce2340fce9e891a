SPECIFICATION Spec
CONSTANTS
    Nil = Nil
    Producer = {p1}
    Consumer = {c1}
    Capacity = 2
    MaxBatches = 3
INVARIANT GaugeSettles
CHECK_DEADLOCK FALSE

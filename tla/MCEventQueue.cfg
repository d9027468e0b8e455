SPECIFICATION Spec
CONSTANTS
    Producers = {w1, w2}
    Consumers = {r1, r2}
    Free = Free
    Capacity = 2
    BufCaps = {1, 2, 3}
    MaxPushes = 7
SYMMETRY Symmetry
INVARIANTS
    QueueTypeOK
    Conservation
    InOrder
PROPERTIES
    FifoSpec

SPECIFICATION Spec
CONSTANTS
    r = r
    a = a
    b = b
    d = d
    Cgrp <- MCCgrp
    Parent <- MCParent
    Task = {t1}
    Writer = {w1, w2}
    Quota = {1, 2, 3}
    Inf = 3
    None = None
    MaxInputs = 4
INVARIANTS  BilledWhereConsumed BoundsExact
SYMMETRY WriterSymmetry
CHECK_DEADLOCK FALSE

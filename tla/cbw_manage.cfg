\* Three cgroups are created, limited and removed on three CPUs.
CONSTANTS
    p1 = p1
    p2 = p2
    p3 = p3
    g1 = g1
    g2 = g2
    g3 = g3
    None = None
    Proc = {p1, p2, p3}
    Cgrp = {g1, g2, g3}
    NrLlc = 2
    NrCgrpMax = 2
    MaxInits = 3
SYMMETRY Symmetry
SPECIFICATION Spec
INVARIANTS TypeOK ReservationsExact   SlotsExact
CHECK_DEADLOCK FALSE

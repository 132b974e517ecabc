\* Three CPUs, two tasks, and a context that two cgroups have in turn.
CONSTANTS
    c1 = c1
    c2 = c2
    c3 = c3
    t1 = t1
    t2 = t2
    g1 = g1
    g2 = g2
    x0 = x0
    x1 = x1
    x2 = x2
    Root = Root
    NULL = NULL
    Cpu = {c1, c2, c3}
    Task = {t1, t2}
    Cgrp = {g1, g2}
    Llcx = {x0, x1}
    RootLlcx = x0
    Batch = 2
SYMMETRY Symmetry
SPECIFICATION Spec
INVARIANTS  NoTaskLost  

\* One CPU drains two cgroups, a task at a time.
CONSTANTS
    c1 = c1
    c2 = c2
    outer = outer
    inner = inner
    t1 = t1
    t2 = t2
    None = None
    Cpu = {c1}
    Cgrp = {outer, inner}
    Pre <- MCPre
    Task = {t1, t2}
    CgrpOf <- MCCgrpOf
    Batch = 1
    SeqMod = 4
    MaxThrottles = 2
SPECIFICATION Spec
INVARIANTS SeqTellsTopHalf
PROPERTY BacklogDrains

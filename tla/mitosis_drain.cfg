SPECIFICATION Spec
CONSTANTS
    c1 = c1
    c2 = c2
    l1 = l1
    l2 = l2
    t1 = t1
    t2 = t2
    Cpu = {c1, c2}
    Llc = {l1, l2}
    Task = {t1, t2}
    LlcOf <- MCLlcOf
    Affinity <- MCAffinity
    Configs <- MCConfigs
    Starts <- MCStarts
    None = None
    MaxConfigs = 2
    MaxEnqueues = 2
INVARIANTS  OrphansMarked OrphansStale
 

SPECIFICATION Spec
CONSTANTS
    c1 = c1
    c2 = c2
    t1 = t1
    t2 = t2
    Cpu = {c1, c2}
    Task = {t1, t2}
    BootCpu = c1
    Sched = Sched
    AnyCpu = AnyCpu
    None = None
    QueuedLen = 1
    DispLen = 1
    Loads <- MCLoads
INVARIANTS TypeOK  TargetAllowed
PROPERTIES WaitingTaskRuns

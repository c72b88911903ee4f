SPECIFICATION Spec
CONSTANTS
    Worker = {w1}
    Thread = {t1, t2, t3}
    Job = {j1, j2}
    Pid = {p1, p2, p3}
    MaxConcurrency = 2
    MaxQueue = 1
    MaxSeen = 1
    Copies = 2
    None = None
SYMMETRY Symmetry
INVARIANTS TypeOK Accounting Bounded ValidJobRunsOnce
PROPERTIES CrashIsReal
CHECK_DEADLOCK FALSE

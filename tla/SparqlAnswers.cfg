SPECIFICATION FairSpec
CONSTANTS
    Worker = {w1}
    Thread = {t1, t2}
    Job = {j1, j2}
    Pid = {p1, p2}
    MaxConcurrency = 2
    MaxQueue = 1
    MaxSeen = 1
    Copies = 1
    None = None
PROPERTY RequestsAnswered
CHECK_DEADLOCK FALSE

SPECIFICATION FairSpec
CONSTANTS
    b1 = b1
    b2 = b2
    p = p
    q = q
    r = r
    n1 = n1
    n2 = n2
    n3 = n3
    Branches = {b1, b2}
    Ids = {n1, n2, n3}
    Procs = {p, q, r}
    None = None
    MaxWorkers = 1
    Setups <- Hosts
INVARIANTS
    OneWorkerABranch
PROPERTIES
    LinesLeaveByStarting
    WorkGetsThrough
CHECK_DEADLOCK FALSE

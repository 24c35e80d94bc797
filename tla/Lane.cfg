\* Four processes, two lanes; c asks from outside or from inside b's command.
SPECIFICATION FairSpec
CONSTANTS
    a = a
    b = b
    c = c
    n = n
    scoped = scoped
    full = full
    Procs = {a, b, c, n}
    Lanes = {scoped, full}
    Nobody = Nobody
    Setups <- OneHost
INVARIANTS
    OneRunALane
PROPERTIES
    EveryCallEnds
CHECK_DEADLOCK FALSE

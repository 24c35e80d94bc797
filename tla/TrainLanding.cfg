\* Commits, reviews and pushes at every point of two runs, and reports of two
\* hosts at every point of one, apart or stacked, with and without a push.
SPECIFICATION Spec
CONSTANTS
    b = b
    c = c
    Branches = {b, c}
    Starts <- Ready
    MaxCommits = 2
    MaxReports = 3
    MaxStrangers = 1
    MaxRuns = 2
INVARIANTS
    MainIsReviewed
    HeldTipsStayOut
PROPERTIES
    NothingIsLost
CHECK_DEADLOCK FALSE

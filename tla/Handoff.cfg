SPECIFICATION HandedSpec
CONSTANTS
    p = p
    q = q
    NoFile = NoFile
    Procs = {p, q}
    Runs = {1, 2}
    Scenes <- Scenery
INVARIANTS
    NoCommitIsLost
    PassesOverNoUnseenBlock
    AttestsWhatRan
PROPERTIES
    KeepsForeignWork
    PushesOnlyItsReview
CHECK_DEADLOCK FALSE

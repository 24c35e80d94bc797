SPECIFICATION BoardingSpec
CONSTANTS
    b1 = b1
    b2 = b2
    Workers = {b1, b2}
    Away = {b2}
    StaleAfter = 1
    PromptAfter = 1
    WaitAfter = 2
    Scenes <- MCScenes
    Worlds <- MCWorlds
INVARIANTS
    PreboardIsFair
    ClosesOnlyFinished
    WakesOnce
    TableHidesNobody
    SaidIsHeard
PROPERTIES
    SilenceIsTold
CHECK_DEADLOCK FALSE

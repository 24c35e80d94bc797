\* Four passengers: every verdict function of two, the bisection of four.
SPECIFICATION FairSpec
CONSTANTS
    N = 4
    MaxFlakes = 1
    Worlds <- Situations
PROPERTIES
    BlamesTheOffender
    KeepsJudgement
    RunEnds

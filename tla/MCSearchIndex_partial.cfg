SPECIFICATION Spec
CONSTANTS
    know = know
    inc = inc
    Keys <- MCKeys
    Knowledge <- MCKnowledge
    Times <- MCTimes
    KeyOrder <- MCKeyOrder
    Limits <- MCLimits
    Budget = 1
    MaxCommits = 2
    WriteFails = FALSE
    ReindexFails = TRUE
    MayCrash = FALSE
INVARIANTS GenerationComplete

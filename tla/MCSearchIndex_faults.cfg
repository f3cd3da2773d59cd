SPECIFICATION Spec
CONSTANTS
    know = know
    inc = inc
    Keys <- MCKeys
    Knowledge <- MCKnowledge
    Times <- MCTimes
    KeyOrder <- MCKeyOrder
    Limits <- MCLimits
    Budget = 1
    MaxCommits = 3
    WriteFails = TRUE
    ReindexFails = TRUE
    MayCrash = TRUE
INVARIANTS TypeOK SnapshotExact HeadsExact SearchAnswers

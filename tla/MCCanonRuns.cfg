SPECIFICATION MCSpec
CONSTANTS
    know = know
    inc = inc
    live1 = live1
    live2 = live2
    closed = closed
    Keys <- MCKeys
    Knowledge <- MCKnowledge
    Contents <- MCContents
    Closed <- MCClosed
    NoFile = NoFile
    Torn = Torn
    FlatKeys <- MCNone
    MayFail = TRUE
    MayCrash = TRUE
INVARIANTS TypeOK AckedDurable RemovedForGood CleanArchivedIsLatest
PROPERTIES CleanInStep

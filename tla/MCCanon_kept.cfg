SPECIFICATION Spec
CONSTANTS
    know = know
    inc = inc
    live1 = live1
    live2 = live2
    closed = closed
    Keys <- MCKeys
    Knowledge <- MCKnowledge
    Contents <- MCFewContents
    Closed <- MCClosed
    NoFile = NoFile
    Torn = Torn
    FlatKeys <- MCNone
    MayFail = TRUE
    MayCrash = FALSE
INVARIANTS ArchivedIsLatest

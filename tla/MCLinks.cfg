SPECIFICATION MCSpec
CONSTANTS
    know = know
    inc = inc
    b0 = b0
    b1 = b1
    b2 = b2
    Keys <- MCKeys
    Knowledge <- MCKnowledge
    Builders <- MCTwo
    NoCache = NoCache
    MaxWrites = 2
    MaxBuilds = 3
    MayDrop = TRUE
    MayFail = TRUE
SYMMETRY MCSymmetry
INVARIANTS KeptTreeExact KeptIndexExact ArchiveRemembered AnswerExact

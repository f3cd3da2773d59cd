SPECIFICATION Spec
CONSTANTS
    know = know
    inc = inc
    b1 = b1
    b2 = b2
    Keys <- MCOnlyInc
    Knowledge <- MCNone
    Builders <- MCTwo
    NoCache = NoCache
    MaxWrites = 1
    MaxBuilds = 3
    MayDrop = FALSE
    MayFail = FALSE
SYMMETRY MCSymmetry
INVARIANTS IndexAlwaysExact

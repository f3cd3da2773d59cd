SPECIFICATION Spec
CONSTANTS
    k1 = k1
    k2 = k2
    t1 = t1
    t2 = t2
    p1 = p1
    p2 = p2
    p3 = p3
    Keys <- MCKeys
    Texts <- MCTexts
    Tasks <- MCTasks
    Nothing = Nothing
    Free = Free
    ChunkSize = 1
    MaxOps = 4
    Faults <- MCFaults
SYMMETRY MCSymmetry
INVARIANTS TypeOK NoOutdatedVector
PROPERTY KeepsPromise

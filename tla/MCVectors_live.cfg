SPECIFICATION FairSpec
CONSTANTS
    k1 = k1
    k2 = k2
    t1 = t1
    t2 = t2
    p1 = p1
    p2 = p2
    p3 = p3
    Keys <- MCKeys
    Texts <- MCTexts
    Tasks <- MCTasks
    Nothing = Nothing
    Free = Free
    ChunkSize = 2
    MaxOps = 3
    Faults <- MCNoFaults
INVARIANT NothingForgotten
PROPERTY AllEmbedded

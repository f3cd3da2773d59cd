SPECIFICATION FilesSpec
CONSTANTS
    i1 = i1
    t1 = t1
    t2 = t2
    c1 = c1
    c2 = c2
    r1 = r1
    r2 = r2
    s1 = s1
    s2 = s2
    s3 = s3
    Ids <- MCIds
    Tokens <- MCTokens
    Stamps <- MCStamps
    Never = Never
    Commands <- MCCommands
    Requests <- MCRequests
    Nobody = Nobody
    Mode = "required"
    Anon = "read"
    Orders <- MCOrders
    Start <- MCStart
    MaxCommands = 2
    Texts <- MCTexts
    Models <- MCModels
    Dim <- MCDim
    Magic = "magic"
    MaxStarts = 3
    MaxLosses = 1
    ReadsFail = TRUE
CHECK_DEADLOCK FALSE
SYMMETRY MCSymmetry
INVARIANTS TypeOK DecidedByTheBook ChangesAreAuthorised CacheHolds
PROPERTIES NoChangeLost

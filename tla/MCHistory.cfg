SPECIFICATION Spec
CONSTANTS
    open = open
    shut = shut
    e1 = e1
    e2 = e2
    Keys <- MCKeys
    Knowledge <- MCKnowledge
    Texts <- MCTexts
    NoText = NoText
    Legacy <- MCLegacy
    Closed <- MCClosed
    Clients <- MCClients
    Nobody = Nobody
    Limits <- MCLimits
    MaxCommits = 5
    MaxRewrites = 1
SYMMETRY MCSymmetry
INVARIANTS TypeOK IndexIsHistory FailsForCause DiffTellsTheLastChange
PROPERTIES KeepsSnapshot

SPECIFICATION MCSpec
CONSTANTS
    Requests <- MCRequests
    Outputs <- MCOutputs
    MaxPerPhase = 2
    None = None
    Keys = {k1, k2, k3}
    Slots = {s1, s2}
    Drafts <- MCDrafts
    CardOutputs <- MCCardOutputs
    Today = 1
    MaxCards = 2
    MaxTurns = 4
    MaxRev = 2
    MaxAsks = 3
INVARIANTS
    DraftSound
    AppliedOnce
    HistoryPaired
    StoredPlanValid
SYMMETRY Symmetry

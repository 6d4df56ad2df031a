SPECIFICATION FairSpec
CONSTANTS
    N = 2
    Gc = {g1}
    None = None
    PageSize = 1
    BudgetLimit = 1
    MaxFaults = 1
PROPERTIES OrphanObjectsCollected DeadRowsCollected

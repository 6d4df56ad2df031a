SPECIFICATION Spec
CONSTANTS
    N = 1
    Gc = {g1, g2}
    None = None
    PageSize = 1
    BudgetLimit = 1
    MaxFaults = 1
INVARIANTS OneRunAtATime

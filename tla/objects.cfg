SPECIFICATION Spec
CONSTANTS
    N = 2
    Gc = {g1, g2}
    None = None
    PageSize = 1
    BudgetLimit = 2
    MaxFaults = 1
INVARIANTS TypeOK ReferencedObjectExists
PROPERTIES RowOutlivesObject RowLifecycle
SYMMETRY Symmetry

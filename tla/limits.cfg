SPECIFICATION Spec
CONSTANTS
    Root = root
    b1 = b1
    NodeId = {root, n1, n2, n3}
    BlobId = {b1, b2}
    TrashId = {t1}
    SnapId = {s1}
    Gc = {}
    Name = {a, b}
    None = None
    Size <- MCSize
    MaxSize = 2
    MaxVersion = 5
    MaxMissing = 1
    Settings <- Tight
    Limits <- TightLimits
SYMMETRY Symmetry
INVARIANT CountersExact
PROPERTY GrowthWithinLimits
CHECK_DEADLOCK FALSE

SPECIFICATION Spec
CONSTANTS
    Root = root
    b1 = b1
    NodeId = {root, n1, n2, n3}
    BlobId = {b1, b2}
    TrashId = {t1}
    SnapId = {}
    Gc = {}
    Name = {a, b}
    None = None
    Size <- MCSize
    MaxSize = 2
    MaxVersion = 6
    MaxMissing = 2
    Settings <- RoomyOnly
    Limits <- RoomyLimits
SYMMETRY Symmetry
INVARIANTS TypeOK TreeWellFormed 
PROPERTIES RevisionNeverReused DirectoryRevisionCoversSubtree
CHECK_DEADLOCK FALSE

SPECIFICATION Spec
CONSTANTS
    Root = root
    b1 = b1
    NodeId = {root, n1, n2, n3}
    BlobId = {b1, b2}
    TrashId = {t1}
    SnapId = {s1}
    Gc = {g1}
    Name = {a, b}
    None = None
    Size <- MCSize
    MaxSize = 2
    MaxVersion = 5
    MaxMissing = 1
    Settings <- RoomyOnly
    Limits <- RoomyLimits
SYMMETRY Symmetry
INVARIANTS RefCountExact CandidatesStayDead
PROPERTY BlobLifecycle
CHECK_DEADLOCK FALSE

--------------------------- MODULE MCVfsNamespace ---------------------------
(* Small instances of VfsNamespace for TLC. *)
EXTENDS VfsNamespace, TLC

CONSTANT b1

MCSize == [b \in BlobId |-> IF b = b1 THEN 1 ELSE 2]

Roomy == [maxNodes |-> 9, maxFiles |-> 9, quota |-> 9, trashEnabled |-> TRUE,
          excludeTrash |-> FALSE, excludeSnap |-> FALSE, maxTrashBytes |-> 9]
RoomyOnly == {Roomy}

RoomyLimits ==
    [copyNodes |-> 9, moveNodes |-> 9, deleteNodes |-> 9, trashNodes |-> 9,
     snapNodes |-> 9, snapBytes |-> 9, allSnapNodes |-> 9, allSnapBytes |-> 9]

\* Every limit can be reached, and changed under a namespace that exceeds it.
Tight ==
    {[maxNodes |-> 2, maxFiles |-> 1, quota |-> 3, trashEnabled |-> TRUE,
      excludeTrash |-> FALSE, excludeSnap |-> FALSE, maxTrashBytes |-> 0],
     [maxNodes |-> 3, maxFiles |-> 2, quota |-> 2, trashEnabled |-> TRUE,
      excludeTrash |-> TRUE, excludeSnap |-> TRUE, maxTrashBytes |-> 2],
     [maxNodes |-> 3, maxFiles |-> 2, quota |-> 4, trashEnabled |-> FALSE,
      excludeTrash |-> FALSE, excludeSnap |-> TRUE, maxTrashBytes |-> 9]}

TightLimits ==
    [copyNodes |-> 2, moveNodes |-> 2, deleteNodes |-> 2, trashNodes |-> 2,
     snapNodes |-> 2, snapBytes |-> 2, allSnapNodes |-> 2, allSnapBytes |-> 3]

Symmetry == Permutations(NodeId \ {Root}) \cup Permutations(Name)
=============================================================================

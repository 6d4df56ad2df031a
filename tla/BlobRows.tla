------------------------------ MODULE BlobRows ------------------------------
(***************************************************************************)
(* What the blob table promises the object store: the row of a blob is     *)
(* created with a reference, loses its last reference once, is never       *)
(* referred to again after that, and is removed only then.  One            *)
(* transaction may create, release and remove several rows.                *)
(***************************************************************************)
CONSTANT BlobId

VARIABLE row

RowStates == {"none", "live", "zero"}

Init == row = [b \in BlobId |-> "none"]

\* The steps of one row; its identifier may be used again once it is gone.
Step(old, new) ==
    \/ new = old
    \/ old = "none" /\ new = "live"
    \/ old = "live" /\ new = "zero"
    \/ old = "zero" /\ new = "none"

Next ==
    /\ row' \in [BlobId -> RowStates]
    /\ \A b \in BlobId : Step(row[b], row'[b])

Spec == Init /\ [][Next]_row
=============================================================================

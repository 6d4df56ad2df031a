--------------------------- MODULE MCBlobStorage ---------------------------
(* Small instances of BlobStorage for TLC. *)
EXTENDS BlobStorage, TLC

Symmetry == Permutations(Gc)
=============================================================================

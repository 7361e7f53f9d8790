--------------------------- MODULE MCStorageLocks ---------------------------
(* Instances of StorageLocks for TLC. *)
EXTENDS StorageLocks, TLC

CONSTANTS p1, p2, o1, o2

MCRank == (o1 :> 1) @@ (o2 :> 2)

=============================================================================

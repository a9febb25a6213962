---------------------------- MODULE MCStorageDirs ----------------------------
(* The instance of StorageDirs for TLC: storage.cfg gives every constant its *)
(* value.  Without symmetry, because its run checks a liveness property.     *)
EXTENDS StorageDirs
=============================================================================

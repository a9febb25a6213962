--------------------------- MODULE MCAdminRecords ---------------------------
(* Instances of AdminRecords for TLC. *)
EXTENDS AdminRecords

CONSTANTS s1, x1

MCTarget == [x \in Drops |-> s1]
=============================================================================

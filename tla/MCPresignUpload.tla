--------------------------- MODULE MCPresignUpload ---------------------------
(* The instance of PresignUpload for TLC: presign.cfg gives every constant   *)
(* its value.  Without symmetry, because its run checks a liveness property. *)
EXTENDS PresignUpload
=============================================================================

----------------------------- MODULE MCStartup -----------------------------
(* Instances of Startup for TLC. *)
EXTENDS Startup, TLC

CONSTANTS w1, w2, s1, s2, s3, s4

MCHost == (s1 :> w1) @@ (s2 :> w1) @@ (s3 :> w1) @@ (s4 :> w2)
=============================================================================

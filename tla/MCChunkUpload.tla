---------------------------- MODULE MCChunkUpload ----------------------------
(* Instances of ChunkUpload for TLC: two chunks uploaded once each, and one  *)
(* chunk uploaded twice.                                                     *)
EXTENDS ChunkUpload, TLC

CONSTANTS u1, u2

MCUploads == {u1, u2}
MCEach    == [u \in MCUploads |-> IF u = u1 THEN 0 ELSE 1]
MCSame    == [u \in MCUploads |-> 0]

\* Completions are alike.
MCSymmetry == Permutations(Completions)
=============================================================================

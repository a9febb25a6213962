-------------------------- MODULE MCShareLifecycle --------------------------
(* Instances of ShareLifecycle and AdminView for TLC. *)
EXTENDS AdminView, TLC

\* Requests of one kind are interchangeable.  Used by a run of safety
\* properties only.
RequestSymmetry == Permutations(Readers) \cup Permutations(Admins)
=============================================================================

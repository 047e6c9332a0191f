-------------------------- MODULE MCUpdateService --------------------------
(* Instances of UpdateService and of its refinement for TLC. *)
EXTENDS UpdateImplementsStore, TLC

\* Slots are interchangeable; only for runs without a liveness property.
Symmetry == Permutations(Calls)
=============================================================================

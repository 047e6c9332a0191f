--------------------------- MODULE MCRateLimiter ---------------------------
(* Instances of RateLimiter for TLC. *)
EXTENDS RateLimiter, TLC

\* Slots are interchangeable.
Symmetry == Permutations(Requests)
=============================================================================

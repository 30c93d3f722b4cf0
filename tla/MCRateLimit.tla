----------------------------- MODULE MCRateLimit -----------------------------
(* Finite instances of RateLimit for TLC. *)
EXTENDS RateLimit, TLC

\* Callers of the limiter are interchangeable.
Symmetry == Permutations(Calls)
=============================================================================

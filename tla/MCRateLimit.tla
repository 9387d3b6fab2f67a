---------------------------- MODULE MCRateLimit ----------------------------
(* Model-checking instances of RateLimit: the calls are interchangeable.   *)
EXTENDS RateLimit, TLC

Symmetry == Permutations(Calls)
=============================================================================

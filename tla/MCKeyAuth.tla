----------------------------- MODULE MCKeyAuth -----------------------------
(* Model-checking instance of KeyAuth. *)
EXTENDS KeyAuth, TLC

\* An unlimited key that may only read usage, and a limited one that may infer.
MCGrants == {[scope |-> "usage", lifetime |-> 0], [scope |-> "inference", lifetime |-> 2]}

Symmetry == Permutations(Calls) \cup Permutations(Keys)
=============================================================================

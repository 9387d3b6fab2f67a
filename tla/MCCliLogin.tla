----------------------------- MODULE MCCliLogin -----------------------------
(* Model-checking instance of CliLogin. *)
EXTENDS CliLogin
=============================================================================

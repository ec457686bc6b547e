------------------------------- MODULE MCRlcUm ------------------------------
(* Model-checking instances of RlcUm. *)
EXTENDS RlcUm
=============================================================================

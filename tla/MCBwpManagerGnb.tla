-------------------------- MODULE MCBwpManagerGnb --------------------------
(* Model-checking instances of BwpManagerGnb. *)
EXTENDS BwpManagerGnb
=============================================================================

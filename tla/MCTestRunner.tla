---------------------------- MODULE MCTestRunner ----------------------------
(* Model-checking instances of TestRunner. *)
EXTENDS TestRunner
=============================================================================

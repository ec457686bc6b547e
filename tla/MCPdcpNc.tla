------------------------------ MODULE MCPdcpNc ------------------------------
(* Model-checking instances of PdcpNc. *)
EXTENDS PdcpNc
=============================================================================

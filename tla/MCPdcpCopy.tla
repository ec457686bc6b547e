----------------------------- MODULE MCPdcpCopy -----------------------------
(* Model-checking instances of PdcpCopy. *)
EXTENDS PdcpCopy
=============================================================================

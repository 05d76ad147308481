------------------------------ MODULE MCMcpServer ------------------------------
(* Model-checking instances of McpServer; the .cfg files give the bounds.      *)
EXTENDS McpServer, TLC
=============================================================================

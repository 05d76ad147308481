------------------------- MODULE MCServerConnectionPool -------------------------
(* Model-checking instances of ServerConnectionPool; the .cfg files give the   *)
(* bounds.                                                                     *)
EXTENDS ServerConnectionPool, TLC

\* Connections are interchangeable, and so are callers.
Symmetry == Permutations(Conns) \cup Permutations(Callers)
=============================================================================

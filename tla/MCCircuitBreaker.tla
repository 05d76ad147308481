---------------------------- MODULE MCCircuitBreaker ----------------------------
(* Model-checking instances of CircuitBreaker; the .cfg files give the bounds. *)
EXTENDS CircuitBreaker, TLC

\* Requests are interchangeable, and so are connections.
Symmetry == Permutations(Requests) \cup Permutations(Connections)
=============================================================================

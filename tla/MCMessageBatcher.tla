--------------------------- MODULE MCMessageBatcher ---------------------------
(* Model-checking instances of MessageBatcher; the .cfg files give the bounds. *)
EXTENDS MessageBatcher, TLC

\* Clients are interchangeable in the safety runs.
ClientSymmetry == Permutations(Clients)
=============================================================================

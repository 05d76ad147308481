----------------------------- MODULE MCBleService -----------------------------
(* Model-checking instances of BleService; the .cfg files give the bounds.     *)
EXTENDS BleService, TLC

\* Devices are interchangeable, and so are the slots for calls.
Symmetry == Permutations(Devices) \cup Permutations(Tasks) \cup Permutations(ScanCallers)
=============================================================================

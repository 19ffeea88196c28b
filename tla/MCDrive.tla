------------------------------- MODULE MCDrive --------------------------------
(* Two processes; two passwords and a suite key; two random keys, for two first   *)
(* launches; three documents, so that a stale one can cover a newer one.       *)
EXTENDS Drive, TLC

Symmetric == Permutations(Processes) \cup Permutations(Randoms)
===============================================================================

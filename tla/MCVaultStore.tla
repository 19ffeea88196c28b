----------------------------- MODULE MCVaultStore -----------------------------
(* Two store objects, so that one can be open while handlers still call a   *)
(* closed one; one name with two values; three rows at two times, so that a   *)
(* clear can drop one from the middle.                                        *)
EXTENDS VaultStore, TLC

Symmetric == Permutations(Stores) \cup Permutations(Creds)
===============================================================================

------------------------------ MODULE MCComponent ------------------------------
(* Three store objects: one on the mux, one closed and still being fetched      *)
(* from, and one that is open.                                                  *)
EXTENDS Component, TLC

Symmetric == Permutations(Stores)
===============================================================================

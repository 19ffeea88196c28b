------------------------------- MODULE MCPlanes -------------------------------
(* A human, one other caller (the agent, or a device on the network: each may  *)
(* call from either origin), two requests in flight, and two sessions: one     *)
(* that was, and one that late requests and old tokens of the first may reach. *)
EXTENDS Planes, TLC

Symmetric == Permutations(Handlers)
===============================================================================

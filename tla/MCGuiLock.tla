------------------------------- MODULE MCGuiLock -------------------------------
(* Two stores, so that a lock in progress and a new session can overlap; two   *)
(* goroutines in lockNow; two handlers, one per session; rows at two times, so *)
(* that the sessions' logs differ and a clear can drop part of one.            *)
EXTENDS GuiLock, TLC

Symmetric == Permutations(Stores) \cup Permutations(Lockers) \cup Permutations(Handlers)
===============================================================================

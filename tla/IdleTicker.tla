------------------------------ MODULE IdleTicker ------------------------------
(***************************************************************************)
(* What the two idle timeouts have in common: src/internal/gui/gui.go (Run, *)
(* maybeIdleLock) and src/cmd/vault/main.go (runServe) each compare the    *)
(* clock with the last request whenever a ticker fires.  The ticker fires  *)
(* on time, and the loop that waits for it serves it before time goes on.  *)
(***************************************************************************)
EXTENDS Integers

CONSTANTS
  Idle,  \* the idle timeout, in units of time
  Tick,  \* the period of the ticker
  MaxNow \* bound: the clock stops there

ASSUME IdleAssumption == Idle \in Nat \ {0} /\ Tick \in Nat \ {0} /\ MaxNow \in Nat

VARIABLES
  now, \* the clock
  left \* time to the next tick; at 0 its case of the select is due

TickDue == left = 0
===============================================================================

------------------------------ MODULE IdleProofs ------------------------------
(* The two idle timeouts, for every timeout and every ticker period: the GUI's *)
(* lock comes in time, and the headless server stops in time and loses no      *)
(* request to it.  Each theorem is about one of the two specifications, which  *)
(* share nothing but the ticker.                                               *)
EXTENDS GuiIdle, Serve, TLAPS

-------------------------------------------------------------------------------
(* GuiIdle. *)

\* The time since the last control request and the time to the next check add up
\* to no more than a timeout and a period.
WithinReach == vault = "unlocked" => (now - lastControl) + left <= Idle + Tick

IdleInv ==
  /\ IdleTypeOK
  /\ lastSeen <= lastControl
  /\ lastControl <= now
  /\ locker = "locking" => left = 0
  /\ WithinReach

LEMMA IdleInitEstablishes == IdleInit => IdleInv
  BY IdleAssumption DEF IdleInit, IdleInv, IdleTypeOK, WithinReach, Epoch

LEMMA IdleStepPreserves == IdleInv /\ [IdleNext]_idleVars => IdleInv'
<1> SUFFICES ASSUME IdleInv, [IdleNext]_idleVars
             PROVE  IdleInv'
  OBVIOUS
<1> USE IdleAssumption DEF IdleInv, IdleTypeOK, WithinReach, Epoch
<1>1. CASE Pass
  BY <1>1 DEF Pass, TickDue
<1>2. CASE MaybeIdleLock
  BY <1>2 DEF MaybeIdleLock, TickDue
<1>3. CASE IdleLock
  BY <1>3 DEF IdleLock
<1>4. CASE Unlock
  BY <1>4 DEF Unlock, Touch
<1>5. ASSUME NEW leaves \in {"open", "closed"}, HumanActs(leaves)
      PROVE  IdleInv'
  BY <1>5 DEF HumanActs, Touch
<1>6. CASE LockButton
  BY <1>6 DEF LockButton, Touch
<1>7. CASE Poll
  BY <1>7 DEF Poll, Touch
<1>8. CASE AgentCalls
  BY <1>8 DEF AgentCalls, Touch
<1>9. CASE UNCHANGED idleVars
  BY <1>9 DEF idleVars
<1>10. QED
  BY <1>1, <1>2, <1>3, <1>4, <1>5, <1>6, <1>7, <1>8, <1>9 DEF IdleNext

\* Type correctness of the idle lock's state.
THEOREM IdleTypeCorrect == IdleSpec => []IdleTypeOK
<1>1. IdleInv => IdleTypeOK
  BY DEF IdleInv
<1>2. QED
  BY <1>1, IdleInitEstablishes, IdleStepPreserves, PTL DEF IdleSpec

\* The agent cannot keep the vault open: one period after the timeout it is locked,
\* for every timeout, period and schedule of calls (gui.go:98-124).
THEOREM IdleIsEnforced == IdleSpec => []IdleEnforced
<1>1. IdleInv => IdleEnforced
  BY IdleAssumption DEF IdleInv, IdleTypeOK, WithinReach, IdleEnforced, Epoch
<1>2. QED
  BY <1>1, IdleInitEstablishes, IdleStepPreserves, PTL DEF IdleSpec

-------------------------------------------------------------------------------
(* Serve. *)

Pressed == why \in {"listener", "impatient"}

\* The time to the next tick is part of the idle bound; the store is open until
\* CloseStore; and a process that closes it unpressed has no request under way.
ServeInv ==
  /\ ServeTypeOK
  /\ phase = "serving" => why = "none" /\ now - last + left < Idle + Tick
  /\ now + drain <= MaxNow + Grace
  /\ last <= now
  /\ phase \in {"serving", "draining", "closing"} => key = "live"
  /\ phase \in {"closing", "exiting", "exited"} /\ ~Pressed => Running = {}
  /\ \A h \in Handlers :
       handler[h] \in {"answered", "killed"} /\ h \notin saved => Pressed

LEMMA ServeInitEstablishes == ServeInit => ServeInv
  BY IdleAssumption, ServeAssumption DEF ServeInit, ServeInv, ServeTypeOK, Pressed, Running

LEMMA ServeStepPreserves == ServeInv /\ [ServeNext]_serveVars => ServeInv'
<1> SUFFICES ASSUME ServeInv, [ServeNext]_serveVars
             PROVE  ServeInv'
  OBVIOUS
<1> USE IdleAssumption, ServeAssumption DEF ServeInv, ServeTypeOK, Pressed, Running
<1>1. CASE ServePass
  BY <1>1 DEF ServePass, TickDue
<1>2. ASSUME NEW h \in Handlers, Arrive(h)
      PROVE  ServeInv'
  BY <1>2 DEF Arrive, Reachable
<1>3. ASSUME NEW h \in Handlers, Answer(h)
      PROVE  ServeInv'
  BY <1>3 DEF Answer
<1>4. CASE Signal
  BY <1>4 DEF Signal, Stop
<1>5. CASE ServeCheck
  BY <1>5 DEF ServeCheck, TickDue, Expired, Stop
<1>6. CASE ListenerFails
  BY <1>6 DEF ListenerFails, Stop
<1>7. CASE Drained
  BY <1>7 DEF Drained
<1>8. CASE GiveUp
  BY <1>8 DEF GiveUp
<1>9. CASE CloseStore
  BY <1>9 DEF CloseStore
<1>10. CASE Exit
  BY <1>10 DEF Exit
<1>11. CASE UNCHANGED serveVars
  BY <1>11 DEF serveVars
<1>12. QED
  BY <1>1, <1>2, <1>3, <1>4, <1>5, <1>6, <1>7, <1>8, <1>9, <1>10, <1>11 DEF ServeNext

LEMMA ServeInvariant == ServeSafety => []ServeInv
  BY ServeInitEstablishes, ServeStepPreserves, PTL DEF ServeSafety

-------------------------------------------------------------------------------
\* The types hold for any requests, timeout, period and wait.
THEOREM ServeTypeCorrect == ServeSafety => []ServeTypeOK
<1>1. ServeInv => ServeTypeOK
  BY DEF ServeInv
<1>2. QED
  BY <1>1, ServeInvariant, PTL

\* An uncalled process stops serving before the timeout and one period are over.
THEOREM IdleProcessStops == ServeSafety => []IdleStops
<1>1. ServeInv => IdleStops
  BY IdleAssumption, ServeAssumption DEF ServeInv, ServeTypeOK, IdleStops
<1>2. QED
  BY <1>1, ServeInvariant, PTL

\* Rows and requests are lost only to the end of Shutdown's wait or to the listener.
THEOREM NothingLostUnpressed == ServeSafety => []LostOnlyUnderPressure
<1>1. ServeInv => LostOnlyUnderPressure
  BY DEF ServeInv, LostOnlyUnderPressure, Pressed
<1>2. QED
  BY <1>1, ServeInvariant, PTL
===============================================================================

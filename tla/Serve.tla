--------------------------------- MODULE Serve ---------------------------------
(***************************************************************************)
(* src/cmd/vault/main.go, runServe, and src/internal/vault/idlelock.go: the *)
(* headless server.  It serves until a signal, an error of the listener or *)
(* the idle timeout, then stops accepting, waits a few seconds for the     *)
(* requests under way, closes the store and ends the process.  A request   *)
(* may take longer than that wait: a write waits minutes for a human.      *)
(***************************************************************************)
EXTENDS IdleTicker

CONSTANTS
  Handlers, \* goroutines of a request that ends in an audit row
  Grace     \* how long Shutdown waits for handlers

ASSUME ServeAssumption == Grace \in Nat \ {0}

VARIABLES
  last,    \* IdleLock.last: the last request of any kind
  phase,   \* where the goroutine of runServe is
  drain,   \* how long Shutdown will still wait
  key,     \* the store's key
  handler, \* handler[h]: a request's progress
  saved,   \* history: the requests whose audit row is in the file
  why      \* history: what ended the serving, "none" so far

serveVars == <<now, last, left, phase, drain, key, handler, saved, why>>

ServeTypeOK ==
  /\ now \in 0..(MaxNow + Grace)
  /\ last \in 0..(MaxNow + Grace)
  /\ left \in 0..Tick
  /\ phase \in {"serving", "draining", "closing", "exiting", "exited"}
  /\ drain \in 0..Grace
  /\ key \in {"live", "nil"}
  /\ handler \in [Handlers -> {"none", "running", "answered", "killed"}]
  /\ saved \subseteq Handlers
  /\ why \in {"none", "signal", "idle", "listener", "impatient"}

ServeInit ==
  /\ now = 0
  /\ last = 0
  /\ left = Tick
  /\ phase = "serving"
  /\ drain = Grace
  /\ key = "live"
  /\ handler = [h \in Handlers |-> "none"]
  /\ saved = {}
  /\ why = "none"

\* Faulty variant of Running: Shutdown sees nobody.
RunningUnseen == {}

Running == {h \in Handlers : handler[h] = "running"}

-------------------------------------------------------------------------------
\* Timers go off on time: the clock does not pass a tick that is due, nor the end of
\* Shutdown's wait.
ServePass ==
  /\ \/ /\ phase = "serving" /\ now < MaxNow /\ ~TickDue
        /\ left' = left - 1
        /\ UNCHANGED drain
     \/ phase = "draining" /\ drain > 0 /\ drain' = drain - 1 /\ UNCHANGED left
  /\ now' = now + 1
  /\ UNCHANGED <<last, phase, key, handler, saved, why>>

\* A connection that is open may still bring a request while Shutdown waits, and after
\* the close when Shutdown gave up on it or was never called.
Reachable ==
  \/ phase \in {"serving", "draining"}
  \/ phase \in {"closing", "exiting"} /\ why \in {"listener", "impatient"}

\* Any request touches the idle lock, the agent's too.
Arrive(h) ==
  /\ Reachable
  /\ handler[h] = "none"
  /\ handler' = [handler EXCEPT ![h] = "running"]
  /\ last' = now
  /\ UNCHANGED <<now, left, phase, drain, key, saved, why>>

\* The request appends its row, which a closed store refuses, and is answered.
Answer(h) ==
  /\ phase # "exited"
  /\ handler[h] = "running"
  /\ handler' = [handler EXCEPT ![h] = "answered"]
  /\ saved' = IF key = "live" THEN saved \cup {h} ELSE saved
  /\ UNCHANGED <<now, last, left, phase, drain, key, why>>

Stop(reason, next) ==
  /\ phase = "serving"
  /\ phase' = next
  /\ why' = reason
  /\ UNCHANGED <<now, last, left, drain, key, handler, saved>>

Signal == Stop("signal", "draining")

\* Faulty variant of Expired: a full period more is allowed.
ExpiredLate == now - last >= Idle + Tick

\* IdleLock.Expired.
Expired == now - last >= Idle

\* The ticker's case of the select.
ServeCheck ==
  /\ TickDue
  /\ \/ Expired /\ Stop("idle", "draining")
     \/ /\ ~Expired
        /\ phase = "serving"
        /\ left' = Tick
        /\ UNCHANGED <<now, last, phase, drain, key, handler, saved, why>>

\* errCh: the store is closed at once, requests under way or not.
ListenerFails == Stop("listener", "closing")

\* Shutdown returns when no request is under way.
Drained ==
  /\ phase = "draining"
  /\ Running = {}
  /\ phase' = "closing"
  /\ UNCHANGED <<now, last, left, drain, key, handler, saved, why>>

\* Faulty variant of GiveUp: Shutdown has no deadline.
GiveUpNever == FALSE /\ UNCHANGED serveVars

\* Or when its context expires.
GiveUp ==
  /\ phase = "draining"
  /\ drain = 0
  /\ Running # {}
  /\ phase' = "closing"
  /\ why' = "impatient"
  /\ UNCHANGED <<now, last, left, drain, key, handler, saved>>

\* store.Close.
CloseStore ==
  /\ phase = "closing"
  /\ key' = "nil"
  /\ phase' = "exiting"
  /\ UNCHANGED <<now, last, left, drain, handler, saved, why>>

\* main returns; what still runs dies.
Exit ==
  /\ phase = "exiting"
  /\ phase' = "exited"
  /\ handler' = [h \in Handlers |-> IF handler[h] = "running" THEN "killed" ELSE handler[h]]
  /\ UNCHANGED <<now, last, left, drain, key, saved, why>>

ServeNext ==
  \/ ServePass
  \/ \E h \in Handlers : Arrive(h) \/ Answer(h)
  \/ Signal
  \/ ServeCheck
  \/ ListenerFails
  \/ Drained
  \/ GiveUp
  \/ CloseStore
  \/ Exit

ServeSafety == ServeInit /\ [][ServeNext]_serveVars

\* Time goes on while Shutdown waits, and the goroutine of runServe runs.
ServeSpec ==
  /\ ServeSafety
  /\ WF_serveVars(phase = "draining" /\ ServePass)
  /\ WF_serveVars(Drained \/ GiveUp)
  /\ WF_serveVars(CloseStore)
  /\ WF_serveVars(Exit)

-------------------------------------------------------------------------------
(* Properties. *)

\* A process that nobody calls stops serving less than one period of the ticker
\* after the idle timeout (main.go:118-122, idlelock.go:32-39).
IdleStops == phase = "serving" => now - last < Idle + Tick

\* A request is killed, or answered without its row in the file, only when the wait
\* of Shutdown ran out under it or the listener failed (main.go:115-116, 127-132).
LostOnlyUnderPressure ==
  \A h \in Handlers :
    handler[h] \in {"answered", "killed"} /\ h \notin saved => why \in {"listener", "impatient"}

\* Once the process stops serving it ends, with the store closed, even if a request
\* under way never returns (main.go:113-121, 127-132).
StopsSealed == (phase # "serving") ~> (phase = "exited" /\ key = "nil")
===============================================================================

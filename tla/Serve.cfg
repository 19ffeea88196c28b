\* Two requests, so that one can end while Shutdown waits for the other; an idle
\* timeout of two periods of the ticker, and a wait shorter than both.
CONSTANTS
  Handlers = {h1, h2}
  Idle = 4
  Tick = 2
  Grace = 2
  MaxNow = 12
SPECIFICATION ServeSpec
INVARIANTS
  IdleStops
  
PROPERTY
  StopsSealed
CHECK_DEADLOCK FALSE

CONSTANTS
  Human = Human
  Others = {agent}
  Handlers = {h1, h2}
  MaxSessions = 2
  NoRequest = NoRequest
  NoEvent = NoEvent
SPECIFICATION PlanesSpec
SYMMETRY Symmetric
CHECK_DEADLOCK FALSE
INVARIANTS
  ControlIsHumans
  UseIsHanded
  SealedByHolder
  BrowserHoldsSession

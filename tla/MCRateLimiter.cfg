CONSTANTS
  Names = {n1}
  Fetches = {f1, f2}
  Limits = {0, 1, 3}
  Steps = {10, 30}
  MaxNow = 90
  NoFetch = NoFetch
SPECIFICATION RateSpec
SYMMETRY Symmetric
INVARIANT
  RateBounded
PROPERTY
  PatientServed
CHECK_DEADLOCK FALSE

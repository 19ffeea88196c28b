\* Two calls and two deciders: two decisions can race for one request, and a
\* decision can be in flight while the request it found goes away.
CONSTANTS
  Calls = {c1, c2}
  Deciders = {d1, d2}
  NoCall = NoCall
SPECIFICATION ApproverSpec
INVARIANT
  ApprovalLostOnlyToTimeout
PROPERTIES
  ConfirmReturns
  ImplementsApproval
CHECK_DEADLOCK FALSE

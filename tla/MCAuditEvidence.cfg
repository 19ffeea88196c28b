CONSTANTS
  Entries = {e1, e2}
  Tiers = {"auto", "confirm"}
  MaxTime = 2
  MaxRows = 3
  MaxEdits = 2
SPECIFICATION EvidenceSpec
SYMMETRY Symmetric
INVARIANT
  VerifiedIsPrefix
CHECK_DEADLOCK FALSE

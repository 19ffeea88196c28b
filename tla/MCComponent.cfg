CONSTANTS
  Stores = {s1, s2, s3}
  Names = {n1}
  Creds = {v1}
  NoCred = NoCred
  Unsure = Unsure
  NoFile = NoFile
  Entries = {e1}
  Tiers = {"auto"}
  MaxTime = 1
  MaxAudit = 1
  Tools = {g1}
  NoStore = NoStore
SPECIFICATION ComponentSpec
SYMMETRY Symmetric
INVARIANTS
  DurableUnlessOverlapped
  OnlyCurrentOpen

  
CHECK_DEADLOCK FALSE

CONSTANTS
  Stores = {s1, s2}
  Names = {n1}
  Creds = {v1}
  NoCred = NoCred
  Unsure = Unsure
  NoFile = NoFile
  Entries = {e1}
  Tiers = {"auto"}
  MaxTime = 2
  MaxAudit = 2
  Lockers = {l1, l2}
  Handlers = {h1, h2}
  NoStore = NoStore
SPECIFICATION GuiSpec
SYMMETRY Symmetric
INVARIANTS
  DurableUnlessOverlapped
  
  NoOrphan

  

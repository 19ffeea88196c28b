CONSTANTS
  Stores = {s1, s2}
  Names = {n1}
  Creds = {v1, v2}
  NoCred = NoCred
  Unsure = Unsure
  NoFile = NoFile
  Entries = {e1}
  Tiers = {"auto"}
  MaxTime = 2
  MaxAudit = 3
SPECIFICATION StoreSpec
SYMMETRY Symmetric
INVARIANTS
  AuditIntact
  EnabledHasCredential
  AckedDurable
PROPERTIES
  LockedFileStable
  HistoryKept

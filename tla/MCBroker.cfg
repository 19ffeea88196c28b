CONSTANTS
  n1 = n1
  h1 = h1
  h2 = h2
  Stores = {s1, s2}
  Names = {n1}
  Creds <- MCCreds
  NoCred = NoCred
  Unsure = Unsure
  NoFile = NoFile
  Entries <- MCEntries
  Tiers <- MCTiers
  MaxTime = 1
  MaxAudit = 2
  Calls = {f1}
  Deciders = {d1}
  NoCall = NoCall
  Requests <- AskedRequests
  SaveOutcomes = {TRUE}
SPECIFICATION BrokerSpec
INVARIANTS
  PolicyBindsSecret
  RowTruthful
  WritesNeedHuman
  AccountedOnce
PROPERTY
  FetchFinishes
CHECK_DEADLOCK FALSE

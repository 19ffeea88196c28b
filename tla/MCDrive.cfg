CONSTANTS
  Passwords = {pw1, pw2}
  Deks = {dek}
  Randoms = {k1, k2}
  Zeros = Zeros
  Nonces = {"plain"}
  NoHeader = NoHeader
  Processes = {p1, p2}
  MaxDoc = 2
  NoFile = NoFile
  NoSource = NoSource
  NoJob = NoJob
  NoRing = NoRing
  Torn = Torn
  Unsure = Unsure
SPECIFICATION DriveSpec
SYMMETRY Symmetric
INVARIANTS
  OpensAgain
  AckedFound
PROPERTIES
  ImplementsAtomicFile
  SameKeyholder

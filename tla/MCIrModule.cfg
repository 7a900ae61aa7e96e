SPECIFICATION MSpec
CONSTANTS
  Signatures <- MCSignatures
  MaxFuncs = 3
  MaxBuilt = 2
INVARIANTS
  CallsResolve
PROPERTIES
  VerifiedStands

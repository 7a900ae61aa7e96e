SPECIFICATION Spec
CONSTANTS
  Fields <- MCFields
  TransientFields <- MCTransientFields
  Word <- MCWord
  Data <- MCData
  from_u64 <- Number
  low20 <- Low
  keccak256 <- Hash
  LOCK_SLOT <- MCLock
  MaxDepth = 3
  MaxUsed = 1
CONSTRAINT Bound
INVARIANTS FlagsMatchGuards NoInterference
PROPERTIES ImplementsNames AccessorsIndependent

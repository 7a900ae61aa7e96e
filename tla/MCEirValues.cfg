SPECIFICATION VSpec
CONSTANTS
  WORD_BITS = 5
  PtrBits = 3
  MaxExponent = 3
  ValueTypes <- MCTypes
  Literals <- InRange
  RawTypes <- FullTypes
INVARIANTS
  WellFormed
  ComputesRust
  FreeExactlyWhenSafe

SPECIFICATION Spec
CONSTANTS
  MaxLen = 5
  Codes <- MCCodes
INVARIANTS
  ItemsTileTheCode
  OnlyTheTailIsTruncated
  JumpdestsAreTargets
PROPERTIES
  Terminates
CHECK_DEADLOCK FALSE

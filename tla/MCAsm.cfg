SPECIFICATION ReadSpec
CONSTANTS
  Forks <- MCForks
  Names <- MCNames
  Immediates <- MCImmediates
  Depths <- MCDepths
  Foreign = {1}
  AddressBase = 3
  MaxCode = 4
  MaxLabels = 1
  MaxPlainCode = 11
  MaxPlainLabels = 2
CONSTRAINT Bound
INVARIANTS
  DecodesAsEmitted
  EveryOpcodeExistsOnFork
  BoundLabelsAreJumpdests
  ReferencesResolve
  ReadsBack
  JumpsAreLegal
PROPERTIES
  FirstErrorWins
  EmittedBytesStand
CHECK_DEADLOCK FALSE

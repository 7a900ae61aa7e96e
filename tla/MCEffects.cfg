SPECIFICATION ESpec
CONSTANTS
  Cells <- MCCells
  RawOpcodes <- MCRawOpcodes
  MaxFrame = 1
CONSTRAINT Bound
INVARIANT EffectsCommute
PROPERTY RemovableIsPure

SPECIFICATION Spec
CONSTANTS
  WORD_BITS = 2
  PtrBits = 1
  Types <- OneType
  TypeLists <- ShortLists
  Ops = {"Not", "AddOverflow", "Const", "Icmp", "Select", "Convert", "Store", "MemCopy", "Call"}
  RawNames = {"CALLER", "LOG0", "POP", "JUMP", "STOP", "NOSUCH"}
  TermKinds = {"Jump", "Brif", "Switch", "Return", "Stop", "ReturnData", "SelfDestruct"}
  BlockKinds = {"Panic"}
  MaxArgs = 1
  MaxBlocks = 2
  MaxInsts = 2
  MaxValues = 3
CONSTRAINT Bound
INVARIANTS
  SlotMap
  OperandsExist
  RawOpcodesAreOrdinary
PROPERTIES
  NoteOnNewest
  BuildsBody
CHECK_DEADLOCK FALSE

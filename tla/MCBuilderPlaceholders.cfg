SPECIFICATION Spec
CONSTANTS
  WORD_BITS = 2
  PtrBits = 1
  Types <- OneType
  TypeLists <- NoParams
  Ops = {"Const", "Convert"}
  RawNames = {}
  TermKinds = {"Stop"}
  BlockKinds = {}
  MaxArgs = 0
  MaxBlocks = 2
  MaxInsts = 2
  MaxValues = 2
INVARIANTS
  PlaceholdersAreSafe
CHECK_DEADLOCK FALSE

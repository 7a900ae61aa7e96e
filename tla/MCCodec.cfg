CONSTANTS
  WordBytes = 2
  UsizeBytes = 1
  IntBytes = 1
  ByteBase = 32
  Arguments <- MCArguments
  BadBytes = {31}
  Wrong <- MCWrong
  MaxArgs = 3
SPECIFICATION ASpec
INVARIANTS ReadsWhatWasWritten NeverPanics ReasonReadBack
CHECK_DEADLOCK FALSE

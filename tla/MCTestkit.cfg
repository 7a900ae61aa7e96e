SPECIFICATION KitSpec
CONSTANTS
  Forks <- MCForks
  Runtimes <- MCRuntimes
  Lengths <- MCLengths
  Sampled <- MCSampled
  Codes <- MCCodes
  Written <- MCWritten
  ByteBase = 2
  MaxWidth = 9
  Accounts = {caller, contract, fresh}
  CALLER = caller
  CONTRACT = contract
  Fresh = fresh
  None = none
  Amounts = {0, 1}
  GasLimits = {1, 6, 11}
  Intrinsic = 2
  MaxOps = 2
  MaxSteps = 5
INVARIANTS
  DeploysVerbatim
  FramesTold
  CostsAddUp
PROPERTIES
  ImplementsChain
  DeploymentReturns
CHECK_DEADLOCK FALSE

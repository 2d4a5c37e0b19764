SPECIFICATION Spec
CONSTANTS
  Keys <- OneKey
  PerLimit = 1
  WalLimit = 2
  TranVals <- Puts
  DirectVals <- Removes
  Batches <- OneBatch
  TranLevels <- Serial
  TolLimit = 3
  MaxFiles = 2
  MaxId = 2
  MaxOps = 1
  MaxStarts = 1
CHECK_DEADLOCK FALSE
INVARIANT StoreReopens

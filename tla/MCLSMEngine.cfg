SPECIFICATION FairSpec
CONSTANTS
  Keys = {1, 2}
  Singles = {1}
  Batches = {{1, 2}}
  Tids = {1, 2}
  MaxWrites = 3
  PerLimit = 1
  TolLimit = 4
  Ratio = 2
  BlockCap = 1
  MaxLevel = 2
INVARIANTS TypeOK NoEmptyTable DurablePrefix
PROPERTIES CloseCompletes ReopenKeepsReads ReadsChangeOnlyByWrites

SPECIFICATION Spec
CONSTANTS
  Keys = {1, 2, 3, 4, 5}
  Singles = {3}
  Batches = {{1, 2, 3, 4, 5}, {1, 5}}
  Tids = {1}
  MaxWrites = 7
  PerLimit = 1
  TolLimit = 1
  Ratio = 2
  BlockCap = 1
  MaxLevel = 3
INVARIANTS LevelsSorted Level0Newest IdsUnique
PROPERTIES CompactionKeepsLiveKeys ReopenKeepsReads

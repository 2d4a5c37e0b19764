SPECIFICATION Spec
CONSTANTS
  Keys = {1, 2, 3}
  Singles = {2}
  Batches = {{1, 2, 3}}
  Tids = {1}
  MaxWrites = 5
  PerLimit = 1
  TolLimit = 100
  Ratio = 2
  BlockCap = 1
  MaxLevel = 2
PROPERTIES FlushKeepsAnswers

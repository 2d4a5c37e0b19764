SPECIFICATION Spec
CONSTANTS
  a = a
  b = b
  c1 = c1
  c2 = c2
  Clients <- TwoClients
  Types <- SortedSet
  Items <- TwoItems
  Numbers <- SmallNumbers
  Scores = {0, 1, 2}
  ItemArgs <- Members
  FieldArgs <- FieldsAndValues
  ScoreArgs <- OneElement
  Steps = {}
  Seconds = {0}
  MaxLen = 3
  MaxSize = 4
  MaxTime = 2
INVARIANT ZcardCountsElements
SYMMETRY ClientSymmetry
CHECK_DEADLOCK FALSE

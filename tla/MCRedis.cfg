SPECIFICATION Spec
CONSTANTS
  a = a
  b = b
  c1 = c1
  c2 = c2
  Clients <- TwoClients
  Types <- AllTypes
  Items <- TwoItems
  Numbers <- SmallNumbers
  Scores = {0, 1, 2}
  ItemArgs <- Members
  FieldArgs <- FieldsAndValues
  ScoreArgs <- ScoresAndElements
  Steps = {0, 1}
  Seconds = {0}
  MaxLen = 3
  MaxSize = 4
  MaxTime = 2
INVARIANTS TypeOK LrangeReturnsPart
PROPERTIES FieldsLostOnlyByClearWithin DriftOnlyByDelOrRepeat PairsLostOnlyByMoveOrTie
SYMMETRY ClientSymmetry
CHECK_DEADLOCK FALSE

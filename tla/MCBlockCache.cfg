SPECIFICATION Spec
CONSTANTS
  Blocks = {b1, b2, b3, b4}
  Readers = {r1, r2}
  Capacity = 3
  K = 3
  MaxRequests = 11
  None = None
SYMMETRY Symmetry
INVARIANTS TypeOK IndexMatchesLists WithinCapacity
PROPERTIES VictimIsColdest
CHECK_DEADLOCK FALSE

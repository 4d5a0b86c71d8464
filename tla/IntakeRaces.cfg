SPECIFICATION IntakeSpec
CONSTANTS
  g1 = g1
  g2 = g2
  b1 = b1
  b2 = b2
  GrantNos <- MCGrantNos
  Batches = {b1, b2}
  Files <- MCFiles
  Intakes = {e1, e2, e3}
  PassThreshold = 5000
  MaxLosses = 1
SYMMETRY MCSymmetry
INVARIANTS
  CuratedIsClean
  EveryRowIsSettled
  PassedRowsAreCurated
CHECK_DEADLOCK FALSE

SPECIFICATION Spec
CONSTANTS
  Executions = {e1, e2}
  Readers = {r1}
  Invocations = {i1}
  MaxFaults = 1
SYMMETRY MCSymmetry
INVARIANTS
  JobHoldsLock
  TerminalReceiptIsTrue
  EvidenceIsTrue
CHECK_DEADLOCK FALSE

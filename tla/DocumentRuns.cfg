SPECIFICATION Spec
CONSTANTS
  Models = {m1}
  Trainings = {t1, t2}
  Promotions = {p1}
  Acquisitions = {a1}
  Evaluations = {v1}
  MaxInputs = 4
  MaxFaults = 1
  Docs = {d1}
  Executions = {e1, e2}
  MaxDuplicates = 1
INVARIANTS
  ChampionIsGoverned
  CompletedRunHasGold
  RunHasSettled
SYMMETRY Symmetry
CHECK_DEADLOCK FALSE

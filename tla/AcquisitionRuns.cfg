SPECIFICATION AcquisitionSpec
CONSTANTS
  r1 = r1
  Records = {r1, r2}
  FirstPage = {r1}
  Polls = {p1}
  Requests = {q1}
  MaxChanges = 1
  MaxSwitches = 2
  MaxFailures = 1
INVARIANTS
  NoSilentChange
PROPERTY
  SourceIsFollowed
CHECK_DEADLOCK FALSE

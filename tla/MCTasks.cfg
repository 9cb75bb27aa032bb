SPECIFICATION Spec
CONSTANTS
  s1 = s1  s2 = s2
  Session = {s1, s2}
  Other = Other
  NoOne = NoOne
  NoTask = NoTask
  Initial <- MCInitial
  MaxId = 5
  MaxCalls = 2
  MaxLapses = 1
  MaxOutages = 1
SYMMETRY Sessions
CHECK_DEADLOCK FALSE
INVARIANTS Consistent ClashIsTold
PROPERTIES OthersKept NewTaskReplacesNone

SPECIFICATION Spec
CONSTANTS
  a = a
  b = b
  ann = ann
  bob = bob
  p1 = p1
  p2 = p2
  q1 = q1
  q2 = q2
  Machine = {a, b}
  User = {ann, bob}
  UserOf <- MCUserOf
  NoRow = NoRow
  NoDevice = NoDevice
  Author = a
  Pusher = {p1, p2}
  Puller = {q1, q2}
  On <- MCOn
  OVERLAP = 1
  NoCopy = NoCopy
  SettlesSoon = TRUE
  MaxTime = 5
  MaxRev = 2
  MaxForgets = 0
  MaxOthers = 0
  MaxLost = 1
INVARIANTS
  TypeOK
  CleanWasShared
  NeverBehind
PROPERTY UnpushedEditKept
CHECK_DEADLOCK FALSE

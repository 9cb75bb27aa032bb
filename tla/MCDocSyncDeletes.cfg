SPECIFICATION Spec
CONSTANTS
  a = a
  b = b
  ann = ann
  bob = bob
  p1 = p1
  p2 = p2
  q1 = q1
  q2 = q2
  Machine = {a, b}
  User = {ann, bob}
  UserOf <- MCUserOf
  NoRow = NoRow
  NoDevice = NoDevice
  Author = a
  Pusher = {p1, p2}
  Puller = {q2}
  On <- MCOn
  OVERLAP = 0
  NoCopy = NoCopy
  SettlesSoon = FALSE
  MaxTime = 2
  MaxRev = 2
  MaxForgets = 2
  MaxOthers = 1
  MaxLost = 1
INVARIANT PurgeReaches
PROPERTY UnpushedEditKept
CHECK_DEADLOCK FALSE

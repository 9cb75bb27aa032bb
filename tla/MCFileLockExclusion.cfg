SPECIFICATION LockSpec
CONSTANTS
  p1 = p1
  p2 = p2
  p3 = p3
  p4 = p4
  Proc = {p1, p2, p3, p4}
  CrashAt <- OutsideBreak
  MaxCrashes = 2
  NoFile = NoFile
SYMMETRY Symmetric
INVARIANTS
  LockTypeOK
  MutualExclusion
  NoLostUpdate
CHECK_DEADLOCK FALSE

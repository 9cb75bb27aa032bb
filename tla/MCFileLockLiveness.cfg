SPECIFICATION FairSpec
CONSTANTS
  p1 = p1
  p2 = p2
  p3 = p3
  p4 = p4
  Proc = {p1, p2, p3}
  CrashAt <- Anywhere
  MaxCrashes = 2
  NoFile = NoFile
PROPERTY CrashNeverBlocks
CHECK_DEADLOCK FALSE

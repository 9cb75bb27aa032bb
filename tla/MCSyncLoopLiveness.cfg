SPECIFICATION SessionFairSpec
CONSTANTS
  m = m
  d = d
  h = h
  s1 = s1
  s2 = s2
  e1 = e1
  e2 = e2
  Mcp = {m}
  Dsh = {d}
  Cli = {}
  Also = Also
  Others = {Also}
  Entry = {}
  Slot = {s1, s2}
  MayHave <- OneEach
  NoSlot = NoSlot
  NoLock = NoLock
  NoCall = NoCall
  NoCommand = NoCommand
  Over = Over
  NoRoll = NoRoll
  Nobody = Nobody
  Dead = Dead
  MaxCalls = 1
  MaxStarts = 2
  MaxCrashes = 1
  MaxFailures = 0
  MaxToggles = 1
INVARIANTS
  NothingLeft
PROPERTY
  EveryWritePushed
CHECK_DEADLOCK FALSE

SPECIFICATION SessionSpec
CONSTANTS
  m = m
  d = d
  h = h
  s1 = s1
  s2 = s2
  e1 = e1
  e2 = e2
  Mcp = {m}
  Dsh = {}
  Cli = {h}
  Also = Also
  Others = {h, Also}
  Entry = {e1, e2}
  Slot = {s1, s2}
  MayHave <- TwoEach
  NoSlot = NoSlot
  NoLock = NoLock
  NoCall = NoCall
  NoCommand = NoCommand
  Over = Over
  NoRoll = NoRoll
  Nobody = Nobody
  Dead = Dead
  MaxCalls = 1
  MaxStarts = 1
  MaxCrashes = 1
  MaxFailures = 1
  MaxToggles = 0
INVARIANTS
  PromptPush
  Consistent
PROPERTIES
  FlushSent
  ReleaseTold
CHECK_DEADLOCK FALSE

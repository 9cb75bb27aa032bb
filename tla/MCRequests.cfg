CONSTANTS
  ann = ann
  bob = bob
  p1 = p1
  c1 = c1
  c2 = c2
  p2 = p2
  Process = {p1, p2}
  ViaMcp = {p2}
  Call = {c1, c2}
  Asked <- MCAsked
  User = {ann, bob}
  Account = ann
  Reader = {bob}
  Refused = {}
  Doc = {1, 2, 3}
  Size <- MCSize
  Batches <- MCBatches
  Seeded <- MCSeeded
  Kept = {3}
  PageLimit = 2
  PageBytes = 2
  MaxPages = 3
  Burst <- MCBurst
  Rate <- MCRate
  MaxIdle = 2
  None = None
  Elapsed = {1, 3}
  MaxEvents = 2
SPECIFICATION Spec
INVARIANTS
  Consistent
  RanOnce
  MeIsSignedIn
  SweepUnseen
PROPERTIES
  PullIsWhole
CHECK_DEADLOCK FALSE

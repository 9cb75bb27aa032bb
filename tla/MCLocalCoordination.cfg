SPECIFICATION Spec
CONSTANTS
  s1 = s1
  s2 = s2
  s3 = s3
  u1 = u1
  u2 = u2
  k1 = k1
  k2 = k2
  db = db
  n1 = n1
  n2 = n2
  Session = {s1, s2, s3}
  User = {u1, u2}
  UserOf <- MCUserOf
  Key = {k1, k2}
  Area = {db}
  SentScope <- MCSentScope
  Ttl = {2}
  LEASE_TTL_DEFAULT = 2
  EXPIRED_KEEP_SECONDS = 0
  Nobody = Nobody
  Omitted = Omitted
  Name = {n1}
  Floor = {0, 1}
  MaxTime = 3
  MaxCounter = 2
SYMMETRY Symmetric
INVARIANTS
  TypeOK
  ExclusiveUnlessRevived
  TakeoverRecordHonest
  CountersStrictlyIncrease
PROPERTY NoSilentTakeover
CHECK_DEADLOCK FALSE

SPECIFICATION Spec
CONSTANTS
  s1 = s1
  s2 = s2
  s3 = s3
  u1 = u1
  u2 = u2
  k1 = k1
  k2 = k2
  db = db
  Session = {s1, s2, s3}
  User = {u1, u2}
  UserOf <- MCUserOf
  Key = {k1, k2}
  Area = {db}
  SentScope <- MCSentScope
  Ttl = {1}
  LEASE_TTL_DEFAULT = 1
  EXPIRED_KEEP_SECONDS = 0
  Nobody = Nobody
  Omitted = Omitted
  Sent <- MCSent
  MaxTime = 2
SYMMETRY Symmetric
INVARIANTS
  ExclusiveUnlessRevived
  TakeoverRecordHonest
PROPERTY NoSilentTakeover
CHECK_DEADLOCK FALSE

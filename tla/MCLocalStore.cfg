SPECIFICATION Spec
CONSTANTS
  p1 = p1  p2 = p2  t1 = t1  t2 = t2  t3 = t3
  d1 = d1  d2 = d2  f1 = f1  v = v  b = b
  Doc = {d1, d2}
  Body = {b}
  Field = {f1}
  Val = {v}
  Absent = Absent
  NoFile = NoFile
  Keep = Keep
  Asked <- MCAsked
  Proc = {p1, p2}
  Thread = {t1, t2, t3}
  ProcOf <- MCProcOf
  NoThread = NoThread
  MaxWrites = 3
SYMMETRY Same
PROPERTIES ActsAsOneStore ReadsFresh

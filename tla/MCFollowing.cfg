CONSTANTS
  a = a
  b = b
  own = own
  teams = teams
  barred = barred
  Name = {a, b}
  Doc = {own, teams, barred}
  Mine = {own, barred}
  Home <- MCHome
  Refused = {barred}
  Made = {b}
  Session = {s}
  Plugin = {}
  Rooted = {}
  Cycle = {c}
  Hook = {h}
  Nowhere = Nowhere
  NoRow = NoRow
  MaxCalls = 2
  MaxWrites = 1
  MaxCycles = 1
  MaxVisits = 1
  MaxAdds = 1
  MaxWork = 4
  MaxFaults = 1
SPECIFICATION Spec
INVARIANTS
  Consistent
  NothingLost
  HistoryBack
PROPERTIES
  StaysAway
CHECK_DEADLOCK FALSE

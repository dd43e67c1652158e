SPECIFICATION FairSpec
CONSTANTS
  k1 = k1
  k2 = k2
  c1 = c1
  c2 = c2
  weekday = weekday
  text = text
  v = v
  s = s
  Keys = {k1}
  Callers = {c1, c2}
  States = {s}
  Fields = {weekday, text}
  Values = {v}
  TTL = 2
  Every = 2
  Offered <- MCOffered
  None = None
INVARIANTS
  CleanOnlyWhenDue
PROPERTIES
  KeepsPromise
  EveryCallEnds
  ExpiredRowsGo

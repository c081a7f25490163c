SPECIFICATION Spec
CONSTANTS
  Goroutine = {g1, g2}
  Record = {r1, r2}
  r1 = r1
  r2 = r2
  MaxPuts = 3
  MaxAge = 1
  MaxTime = 2
  Workload <- AroundExpiry
  NoOne = NoOne
INVARIANTS
  IndexNeverLags
PROPERTIES
  KeepsFresh
  CallsEnd

SPECIFICATION Spec
CONSTANTS
  Goroutine = {g1, g2}
  Record = {r1, r2}
  r1 = r1
  r2 = r2
  MaxPuts = 2
  MaxAge = 0
  MaxTime = 0
  Workload <- EveryOperation
  NoOne = NoOne
INVARIANTS
  TypeOK
  IndexMatchesList
PROPERTIES
  ImplementsChangeLog

SPECIFICATION WriterSafeSpec
CONSTANTS
  r1 = r1
  r2 = r2
  c1 = c1
  c2 = c2
  c3 = c3
  Goroutine = {c1, c2}
  Record = {r1, r2}
  MaxPuts = 3
  MaxAge = 0
  MaxTime = 0
  Workload <- AnyRequest
  Diffing <- WantDeltas
  Watch <- WatchOf
  NoOne = NoOne
INVARIANTS
  NoDeltaSkipped
  FirstWatchCollectsAll
PROPERTIES
  TagsAdvance

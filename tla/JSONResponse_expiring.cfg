SPECIFICATION WriterSpec
CONSTANTS
  r1 = r1
  r2 = r2
  c1 = c1
  c2 = c2
  c3 = c3
  Goroutine = {c2, c3}
  Record = {r1}
  MaxPuts = 2
  MaxAge = 1
  MaxTime = 1
  Workload <- AnyRequest
  Diffing <- WantDeltas
  Watch <- WatchOf
  NoOne = NoOne
PROPERTIES
  RequestsEnd

SPECIFICATION SafeSpec
CONSTANTS
  k1 = k1
  k2 = k2
  p1 = p1
  v1 = v1
  NoRef = NoRef
  g1 = g1
  g2 = g2
  Goroutine = {g1, g2}
  Key = {k1, k2}
  Property = {p1}
  RefValue = {v1}
  MaxMaps = 2
  Expirable = TRUE
  Workload <- AroundExpiry
  NoOne = NoOne
INVARIANTS
  SurvivesAccess
CHECK_DEADLOCK FALSE

SPECIFICATION Spec
CONSTANTS
  c1 = c1
  c2 = c2
  r1 = r1
  r2 = r2
  Client <- MCClient
  Record <- MCRecord
  Chains <- MCChains
  MaxChains = 2
  Ref <- MCRef
  NoRecord = NoRecord
  NoResponse = NoResponse
  NoMap = NoMap
  NoDoc = NoDoc
SYMMETRY MCSymmetry
INVARIANTS TypeOK StoreAgrees AnswersAgree ChangesAreTainted
CHECK_DEADLOCK FALSE

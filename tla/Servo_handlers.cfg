SPECIFICATION SafeSpec
CONSTANTS
  a1 = a1
  a2 = a2
  q1 = q1
  q2 = q2
  NoOne = NoOne
  App = {a1, a2}
  Query = {q1, q2}
  Wait = 2
  MaxTime = 4
  MaxRequests = 3
  RequestTimes <- Always
  Prompt = FALSE
  Failures = {"error", "empty"}
INVARIANTS
  TypeOK
  HandlersGetTheirs
SYMMETRY Symmetric
CHECK_DEADLOCK FALSE

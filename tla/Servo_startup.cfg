SPECIFICATION Spec
CONSTANTS
  a1 = a1
  a2 = a2
  q1 = q1
  q2 = q2
  NoOne = NoOne
  App = {a1}
  Query = {q1, q2}
  Wait = 2
  MaxTime = 5
  MaxRequests = 2
  RequestTimes <- AtStart
  Prompt = TRUE
  Failures = {"error"}
PROPERTIES
  StartupIsServed
CHECK_DEADLOCK FALSE

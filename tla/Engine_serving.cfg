SPECIFICATION Spec
CONSTANTS
  r1 = r1
  r2 = r2
  s1 = s1
  s2 = s2
  d1 = d1
  d2 = d2
  c1 = c1
  c2 = c2
  g1 = g1
  g2 = g2
  Registrar = {g1}
  Client = {c1}
  Root = {r1, r2}
  Sub = {s1, s2}
  Doc = {d1, d2}
  MaxRouters = 2
  Requests <- Batches
  Failures = {"document", "writer"}
INVARIANTS
  TypeOK
  RepliesMatchQueries
  AnsweredOnce
  RegisteredAreFound
PROPERTIES
  FirstDocumentStays

SPECIFICATION Spec
CONSTANTS
  Others = 1
  Queries <- MCQueries
  MaxRequests = 2
  Wait = 1
  NoMessage = NoMessage
INVARIANTS TypeOK OneReplyPerQuery RepliesAreTheirs WorkIsInOrder
PROPERTY RequestsEnd
CHECK_DEADLOCK FALSE

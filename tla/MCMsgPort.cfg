CONSTANTS
  Readers = {r1, r2}
  Senders = {s1, s2}
  Buffers = {b1, b2}
  NULL = NULL
  QueueMax = 2
  Window = 2
  Requests = 2
SPECIFICATION FairSpec
INVARIANTS
  TypeOK
  BuffersApart
  RepliesFit
PROPERTIES
  ImplementsMailbox
  RequestsAnswered
CHECK_DEADLOCK FALSE

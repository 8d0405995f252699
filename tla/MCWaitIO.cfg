CONSTANTS
  Requests = {q1, q2}
  NULL = NULL
  AtTail = AtTail
SPECIFICATION Spec
INVARIANT ReturnsCompleted
CHECK_DEADLOCK FALSE

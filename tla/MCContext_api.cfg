\* Two device objects, a client that lags behind the queue.
\* Without a context the client has nothing left to call.
CHECK_DEADLOCK FALSE
SPECIFICATION Spec
CONSTANTS
  MaxDev = 2
  MaxRefs = 1
  QueueBound = 4
  HeldBound = 1
INVARIANTS ContextInv PointersValid LivesInOrder

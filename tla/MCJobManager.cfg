SPECIFICATION FairSpec
CONSTANTS
  q1 = q1
  q2 = q2
  c1 = c1
  c2 = c2
  Jobs = {q1, q2, c1, c2}
  Priority <- MCPriority
  Queued = {q1, q2}
  Equal <- MCEqual
  Threads = {w1, w2, w3}
  max_workers = 2
INVARIANTS WorkersWithinLimit JobsAreAlive NobodyIsLeft
PROPERTIES CancelledIsSilent EveryJobEnds ShutdownEnds
CHECK_DEADLOCK FALSE

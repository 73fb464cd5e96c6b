CONSTANTS
  Threads = {a, b, c}
  Candidates = {c1, c2, c3}
  Priorities = {1, 2}
  InitialCap = 1
SPECIFICATION FairSpec
PROPERTIES
  DequeueReturns
CHECK_DEADLOCK FALSE

CONSTANTS
  Threads = {a}
  Candidates = {c1, c2, c3, c4, c5, c6}
  Priorities = {1, 2, 3}
  InitialCap = 2
SPECIFICATION Spec
INVARIANTS
  HeapOrdered
PROPERTIES
  MostUrgentFirst
SYMMETRY Interchangeable
CHECK_DEADLOCK FALSE

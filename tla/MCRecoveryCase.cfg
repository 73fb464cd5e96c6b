CONSTANTS
  t1 = t1
  t2 = t2
  Threads <- MCThreads
  MaxRestarts = 1
SPECIFICATION Spec
SYMMETRY Symmetry
INVARIANTS
  ReportWasTrue
  LoadedWasSaved

CONSTANTS
  Totals = {2, 3}
  Workers = {w}
  Images <- MCImages
  Contents = {"zeros", "x", "y"}
  Zero = "zeros"
SPECIFICATION Spec
INVARIANTS
  Translates
  CommitIsAtomic
  HashesFaithful
  DuplicatesResolve
PROPERTIES
  ProgressMonotone

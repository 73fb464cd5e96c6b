CONSTANTS
  Chunk = 2
  Sizes = {0, 2}
  MaxSize = 2
  PassCounts = {0, 2}
  Patterns = {"zero", "random"}
SPECIFICATION Spec
INVARIANTS
  PassesOverwrite
  RemovedWasErased
  PassedMeansPattern
PROPERTIES
  OutsideUntouched

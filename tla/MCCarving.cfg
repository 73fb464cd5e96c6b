CONSTANTS
  BlockSize = 8
  Images <- MCImages
  CustomTypes <- MCCustomTypes
  TypeCapacity = 2
  PatternCapacity = 2
  HitCapacity = 1
  MaxScans = 2
  MaxFailures = 1
  Vectors = {"main", "copy"}
  VectorCapacity = 1
  CarveBlocks = {0, 1}
  MaxLength = 3
  MaxSteps = 5
SPECIFICATION Spec
INVARIANTS
  HitsAreReal
  ScanComplete
PROPERTIES
  VectorIsStack
CHECK_DEADLOCK FALSE

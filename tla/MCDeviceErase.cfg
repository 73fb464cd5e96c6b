CONSTANTS
  MinBlock = 1
  DefaultBlock = 2
  MaxBlock = 3
  DefaultPasses = 1
  MaxPasses = 2
  Capacities = {2, 3}
  Snapshots = {0, 2, 3}
  BlockSizes = {0}
  PassCounts = {0, 3}
  Patterns = {"random"}
  Nodes <- MCNodes
  Disks <- MCDisks
SPECIFICATION InfoSpec
INVARIANTS
  ReadsErrOneWay
  ClaimDiscipline
  ProgressIsReal
PROPERTIES
  NeverWritesMounted
  OkMeansErased
  WholeDeviceErased
  CallReturns

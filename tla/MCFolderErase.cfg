CONSTANTS
  Outside = "outside"
  Root = "root"
  Dirs <- MCDirs
  Files <- MCFiles
  Links = {"link"}
  Specials = {"special"}
  Trees <- MCTrees
  Binds <- MCBinds
  Dev <- MCDev
  MaxSeen = 1
  Depths = {0, 2}
  PassCounts = {0, 1}
  MaxChanges = 1
SPECIFICATION FolderSpec
INVARIANTS
  RootGoneMeansErased
  NoReentry
PROPERTIES
  OnlyBelowRoot
CHECK_DEADLOCK FALSE

CONSTANTS
  MinBlock = 1
  DefaultBlock = 1
  MaxBlock = 2
  DefaultPasses = 1
  MaxPasses = 2
  Sizes = {0, 1}
  MaxSize = 2
  BlockSizes = {0, 2}
  PassCounts = {0, 2, 3}
  Patterns = {"zero", "random"}
  SampleBlocks = 1
  VerifyModes = {"SAMPLE", "FULL"}
  DeviceTypes = {"HDD", "SD_CARD", "UNKNOWN"}
SPECIFICATION CliSpec
INVARIANTS
  PassesDurable
  OkMeansDurable
  FullPassMeansWiped
  ResultsAgree
PROPERTIES
  SuccessMeansErased
  ExitZeroMeansVerified

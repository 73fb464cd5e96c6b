CONSTANTS
  Writers = {v, w}
  Fields = {f, g}
  MaxRecords = 3
SPECIFICATION AuditSpec
INVARIANTS
  HonestIsValid
  ValidMeansUnbroken
SYMMETRY Interchangeable

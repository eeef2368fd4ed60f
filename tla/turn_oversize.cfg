SPECIFICATION FairSpec
CONSTANTS
  None = None
  Turn = {1, 2}
  Size = {"fits", "large"}
  CuratorLearns = FALSE
  MaxRecords = 3
  ReservedRecords = 1
  MinBatch = 2
  MaxBatch = 5
  MaxTurns = 2
  MaxCrashes = 1
PROPERTIES
  DecidedConverges

SPECIFICATION Spec
CONSTANTS
  None = None
  Turn = {1, 2, 3, 4}
  Size = {"fits"}
  CuratorLearns = FALSE
  MaxRecords = 3
  ReservedRecords = 1
  MinBatch = 2
  MaxBatch = 5
  MaxTurns = 4
  MaxCrashes = 0
PROPERTIES
  RejectableTurnPublishesNothing

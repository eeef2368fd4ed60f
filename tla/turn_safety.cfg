SPECIFICATION FairSpec
CONSTANTS
  None = None
  Turn = {1, 2, 3, 4, 5}
  Size = {"fits", "large"}
  CuratorLearns = TRUE
  MaxRecords = 3
  ReservedRecords = 1
  MinBatch = 2
  MaxBatch = 5
  MaxTurns = 5
  MaxCrashes = 2
INVARIANTS
  TypeOK
  RawWellFormed
  PreparedTouchesNothing
  NoConflict
  SettledBetweenTurns
  ShownIsDurable
  SourcesPublished
PROPERTIES
  AnsweredTurnsAreFinal
  ImplementsHistory
  PublishableConverges

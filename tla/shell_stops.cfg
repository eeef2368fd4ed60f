SPECIFICATION FairSpec
CONSTANTS
  None = None
  Stop = Stop
  MaxWork = 3
INVARIANTS
  TypeOK
  HandledInOrder
  SnapshotIsValid
  EndsStopping
  LeaseOutlivesWork
  InterruptIs130
  TasksAreFinished
  PipedActionIsHandled
PROPERTIES
  NothingBeginsAfterDrain
  AbortEnds
  StopEnds

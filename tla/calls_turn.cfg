SPECIFICATION FairSpec
CONSTANTS
  None = None
  Debug = TRUE
  MaxAttempts = 2
  Revision = {good, better, unreadable, unbuildable}
  Unreadable = {unreadable}
  Unbuildable = {unbuildable}
  MaxRounds = 2
  DirectRecords = 1
  ToolId = {c1, c2}
  Kinds = {"read", "transactional", "compensated"}
  MaxTurns = 2
  Earlier = 1
  MaxEdits = 2
  MaxCancels = 2
INVARIANTS TypeOK OneTurnPerCall OneRevision CallsAreAnswered WriteIsSettled
PROPERTIES SendsAreApproved SendsAreNumbered TurnEnds
CHECK_DEADLOCK FALSE

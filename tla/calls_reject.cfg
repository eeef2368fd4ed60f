SPECIFICATION Spec
CONSTANTS
  None = None
  Debug = TRUE
  MaxAttempts = 2
  Revision = {good, better, unreadable, unbuildable}
  Unreadable = {unreadable}
  Unbuildable = {unbuildable}
  MaxRounds = 1
  DirectRecords = 1
  ToolId = {c1, c2}
  Kinds = {"read", "transactional", "compensated"}
  MaxTurns = 2
  Earlier = 1
  MaxEdits = 0
  MaxCancels = 0
INVARIANT RejectLeavesNoTrace
CHECK_DEADLOCK FALSE

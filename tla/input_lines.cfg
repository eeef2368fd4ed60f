SPECIFICATION FairSpec
CONSTANTS
  Width = 2
  Keys = {"a", "wide", "mark", "enter", "shiftEnter", "altEnter", "ctrlJ", "backspace", "ctrlD", "arrow", "paste"}
  MaxKeys = 3
  Backlog = 1
  MaxScreens = 1
  MaxOutputs = 1
INVARIANTS TypeOK KeysMeanText ScreenIsBuffer TerminalOwner
PROPERTY TypedIsRead
CHECK_DEADLOCK FALSE

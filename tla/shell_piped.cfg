SPECIFICATION Spec
CONSTANTS
  None = None
  Stop = Stop
  MaxWork = 2
INVARIANTS
  PipedInputIsHandled

SPECIFICATION Spec
CONSTANTS
  None = None
  Broken = Broken
  MaxTurns = 2
  MaxEdits = 2
  MaxResets = 2
  MaxCrashes = 2
  CheckAnytime = FALSE
INVARIANTS
  TypeOK
  SourcesExist
  AutoIsFromCurator
PROPERTIES
  EditsSurvive
  ResetAllEmpties
  ImplementsVersions

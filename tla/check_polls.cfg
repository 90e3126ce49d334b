\* Definitions with and without timeouts, failure checks and reports.
CONSTANTS
  Old = Old
  New = New
  Ready = Ready
  Generation = Generation
  Observed = Observed
  Unavailable = Unavailable
  Nil = Nil
  NoPath = NoPath
  Error = Error
  Values <- MCValues
  Definitions <- MCDefinitions
  MaxCall = 1
  MaxTime = 30
SPECIFICATION Spec
INVARIANTS
  TypeOK
  EndsInTime
  SuccessIsNoticed
  FailureIsNoticed
PROPERTIES
  GivesUpLate
  SuccessWasShown

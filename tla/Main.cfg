CONSTANTS
  Lines <- MCLines
  Capacity = 10
  Kind <- MCKind
  Inputs <- MCInputs
  Default <- MCDefault
  MaxFds = 3
SPECIFICATION MainSpec
INVARIANTS Terminated GlobalsCurrent ExitStatus Separated FailureSaid MissingSaid MappingsHeld
PROPERTIES ReadAsGiven RefinesDriver Ends

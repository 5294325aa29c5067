CONSTANTS
  Texts <- MCTexts
  NewLine <- MCNewLine
  Refused = {5}
  BuffSize = 2
  MaxCalls = 6
  MaxCuts = 1
SPECIFICATION Spec
INVARIANTS Accounted
PROPERTIES Implements Answered

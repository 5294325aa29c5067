\* Complete objects in the other byte order.
CONSTANTS
  SizeMod <- MCSizeMod
  Far     <- MCFar
  Objects <- MCObjs
  Extents <- MCExtents
  Inputs  <- PowerPcInputs
SPECIFICATION Spec
INVARIANTS TextShown

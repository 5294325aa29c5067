CONSTANTS
  SizeMod <- MCSizeMod
  Far     <- MCFar
  Objects <- MCObjs
  Extents <- MCExtents
  Inputs  <- MCInputs
SPECIFICATION Spec
INVARIANTS LinesInside
PROPERTIES Implements Termination

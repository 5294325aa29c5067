\* A symbol defined in a section, in an object in the other byte order.
CONSTANTS
  SizeMod <- MCSizeMod
  Far     <- MCFar
  Objects <- SwappedDefined
SPECIFICATION Spec
INVARIANTS NoCrash

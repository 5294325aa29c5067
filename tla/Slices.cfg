CONSTANTS
  SizeMod <- MCSizeMod
  Far     <- MCSizeMod
  Files   <- AllFiles
SPECIFICATION Spec
PROPERTIES FoundStable Implements Termination

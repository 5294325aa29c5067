\* Entries whose objects are beyond the file.
CONSTANTS
  SizeMod <- MCSizeMod
  Far     <- MCSizeMod
  Files   <- FaultFiles
SPECIFICATION Spec
INVARIANTS NoFault

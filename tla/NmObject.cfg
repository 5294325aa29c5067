\* Objects in both byte orders, whole and broken.
CONSTANTS
  SizeMod <- MCSizeMod
  Far     <- MCFar
  Objects <- ManyObjects
SPECIFICATION Spec
INVARIANTS TypeOK SectionResolved OnCommand NodesAccounted NearEnd
PROPERTIES Implements Termination ConversionKept

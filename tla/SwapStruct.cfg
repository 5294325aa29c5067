CONSTANTS
  SizeMod   = 65536
  Far       = 4096
  MaxRounds = 5
SPECIFICATION Spec
INVARIANTS Restored FieldsConverted AsModelled Mirrored

CONSTANTS
  Calls <- MCCalls
  CharMod = 8
  ShortMod = 16
  IntMod = 32
  LongMod = 64
SPECIFICATION Spec
INVARIANTS Inside Counted AsC
PROPERTY Termination

SPECIFICATION Spec
CONSTANTS
  Byte = 6
  Base = 5
  Inputs <- AllInputs
INVARIANTS
  DecodesBack
CHECK_DEADLOCK FALSE

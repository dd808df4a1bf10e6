SPECIFICATION Spec
CONSTANTS
  MaxScopes = 20
  MaxGState = 3
  MaxPages = 1
  MaxOpens = 1
  Outputs = {"buffer"}
  ClientRules = {"open_first", "page_between", "balance", "levels"}
INVARIANTS
  PrologHoldsAll
CHECK_DEADLOCK FALSE

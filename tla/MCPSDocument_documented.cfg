SPECIFICATION Spec
CONSTANTS
  MaxScopes = 20
  MaxGState = 4
  MaxPages = 2
  MaxOpens = 1
  Outputs = {"caller", "lib", "buffer", "user"}
  ClientRules = {"open_first", "header_first", "page_between", "balance", "levels"}
INVARIANTS
  NoCrash
  PrologScopeAgrees
  AlwaysClosable
  LevelsAgree
PROPERTIES
  ImplementsDSC
CHECK_DEADLOCK FALSE
